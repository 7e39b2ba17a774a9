-------------------------- MODULE EngineTreeProofs --------------------------
(***************************************************************************)
(* The records of the storage engine until the first restart, for calls    *)
(* that do not overlap: of two versions of a key the one nearer to the     *)
(* memtable is the newer one; what was inserted is kept, found by reads    *)
(* and snapshots, and on disk once it is acknowledged; and the engine      *)
(* implements the abstract tree of LSM.  For any calls, whatever part of   *)
(* an edit is written, the manifest has what is in the tables.             *)
(*                                                                         *)
(* Calls that overlap can send the memtables they have frozen in another   *)
(* order than they froze them in, and insert two versions of a key in      *)
(* another order than they numbered them in.                               *)
(***************************************************************************)
EXTENDS EngineProofs

\* The calls of the clients do not overlap.
OneCall == \A c, d \in Clients : c = d \/ cl[c] = Idle \/ cl[d] = Idle

\* All records of A were written after those of B; those of keys in both were.
Later(A, B) == \A r \in A, q \in B : q.seq < r.seq
Newer(A, B) == \A r \in A, q \in B : r.key = q.key => q.seq < r.seq

\* The key ranges of two tables do not meet.
Beside(s, t) == s.max.key < t.min.key \/ t.max.key < s.min.key

\* Tables of level 0 are newer than all others and were written one after the other; on
\* the levels below, a table is newer than those deeper down, and beside its neighbours.
TopLater    == \A t \in TablesAt(0) : \A l \in Levels \ {0} : \A s \in TablesAt(l) :
                 Later(FileRecords(t), FileRecords(s))
TopApart    == \A s, t \in TablesAt(0) :
                 s = t \/ Later(FileRecords(s), FileRecords(t)) \/ Later(FileRecords(t), FileRecords(s))
DeepOrdered == \A l, m \in Levels \ {0} : l < m => \A s \in TablesAt(l), t \in TablesAt(m) :
                 Newer(FileRecords(s), FileRecords(t))
DeepApart   == \A l \in Levels \ {0} : \A s, t \in TablesAt(l) : s = t \/ Beside(s, t)

\* A compaction: what has come to level 0 since it chose its inputs is newer, the tables
\* it found to overlap are all that do, and its outputs hold the newest versions of what
\* they replace, but for tombstones on the last level.
Meets(t, inputs) == ~(t.max.key < KeyRangeOf(inputs)[1] \/ t.min.key > KeyRangeOf(inputs)[2])
Replaced == UNION {FileRecords(t) : t \in ToSet(job.all)}
OutRecords == UNION {FileRecords(t) : t \in ToSet(job.outs)}
InputsOldest ==
  job.pc \in {"begin", "merge", "install"} =>
    /\ ToSet(job.inputs) \subseteq TablesAt(job.level)
    /\ job.level = 0 => \A t \in TablesAt(0) \ ToSet(job.inputs) : \A s \in ToSet(job.inputs) :
                          Later(FileRecords(t), FileRecords(s))
AllFound ==
  job.pc \in {"merge", "install"} =>
    ToSet(job.all) = ToSet(job.inputs) \cup
      (IF job.inputs = <<>> THEN {} ELSE {t \in TablesAt(job.level + 1) : Meets(t, job.inputs)})
OutsMerged ==
  job.pc = "install" =>
    /\ \A s, t \in ToSet(job.outs) : s = t \/ Beside(s, t)
    /\ OutRecords \subseteq Heads(Replaced)
    /\ \A r \in Heads(Replaced) \ OutRecords : r.del /\ job.level + 1 = Bottom

TreeOrder == /\ TopLater /\ TopApart /\ DeepOrdered /\ DeepApart
             /\ InputsOldest /\ AllFound /\ OutsMerged

\* The tasks are sent and flushed in the order they were frozen in.
Busy == fl.pc \in {"write", "install"}
QueueInOrder ==
  /\ \A i, j \in 1..Len(flushQ) : i < j => Later(flushQ[j].mt, flushQ[i].mt)
  /\ Busy => \A i \in 1..Len(flushQ) : Later(flushQ[i].mt, fl.task.mt)
CallInOrder(call) ==
  \A i \in Pending(call) :
    /\ \A j \in Pending(call) : i < j => Later(call.tasks[j].mt, call.tasks[i].mt)
    /\ \A j \in 1..Len(flushQ) : Later(call.tasks[i].mt, flushQ[j].mt)
    /\ Busy => Later(call.tasks[i].mt, fl.task.mt)
TasksInOrder == QueueInOrder /\ \A c \in Clients : CallInOrder(cl[c])

\* The memtable is newer than all of them, and they are newer than all tables.
FrozenOrder ==
  /\ \A t \in FrozenTasks : Later(t.mt, TableRecords) /\ Later(mt, t.mt)
  /\ Later(mt, TableRecords)

\* The records that are waiting to be inserted are nowhere yet, are newer than all that
\* have been inserted, and go in in the order of their numbers.
Held == mt \cup (UNION {t.mt : t \in FrozenTasks}) \cup TableRecords
Writing(call) == call.pc \in {"stall", "log", "append", "apply"}
InSeqOrder(call) ==
  Writing(call) => \A i, j \in call.i..Len(call.recs) : i < j => call.recs[i].seq < call.recs[j].seq
WaitingNewest ==
  /\ Held \subseteq Inserted
  /\ \A c \in Clients : \A r \in Waiting(cl[c]) : \A q \in Inserted : q.seq < r.seq
  /\ \A c \in Clients : InSeqOrder(cl[c])

MemOrder == TasksInOrder /\ FrozenOrder /\ WaitingNewest

OrderInv == starts <= 1 => TreeOrder /\ MemOrder

\* The log that is appended to has the largest number, and a call that is about to append
\* has that log; so it is not closed.
LogAhead ==
  /\ wal < nextFileNum /\ (wal = NoWal \/ CrashRecovery)
  /\ \A n \in closedWals : n < wal
  /\ \A t \in FrozenTasks : t.wal = NoWal \/ t.wal < wal
  /\ fl.pc = "cleanup" => fl.task.wal = NoWal \/ fl.task.wal < wal
  /\ \A c \in Clients : cl[c].pc = "append" => cl[c].wal = wal

\* What immt shows is still frozen, or its flush has just been installed.
ImmtShown ==
  /\ \A m \in immt : (\E t \in FrozenTasks : t.mt = m) \/ (fl.pc = "cleanup" /\ fl.task.mt = m)
  /\ fl.pc = "cleanup" => fl.task.mt \subseteq TableRecords

\* A record that was inserted is held, or a later one of its key is; or a later delete was
\* inserted and all that is held of the key is newer than that.
Survives(r) ==
  \/ \E q \in Held : q.key = r.key /\ r.seq <= q.seq
  \/ \E d \in Inserted : /\ d.del /\ d.key = r.key /\ r.seq <= d.seq
                         /\ \A q \in Held : q.key = r.key => d.seq < q.seq
InsertedSurvive == IsUp => \A r \in Inserted : Survives(r)

\* While Sync waits for the memtable it has frozen, no other is filled.
Froze(call) ==
  call.op = "sync" => \/ call.pc = "rotate"
                      \/ call.pc \in {"send", "wait"} /\ mt = {} /\ call.tasks # <<>>
SyncFroze == \A c \in Clients : Froze(cl[c])

\* Nobody calls an engine that is being opened.
OpenedAlone ==
  rv.pc # "idle" => CrashRecovery /\ phase = "recovering" /\ \A c \in Clients : cl[c] = Idle

\* Up to the second start and the first failing file operation, nothing that was inserted
\* is lost.
Keeps == /\ LogAhead /\ ImmtShown /\ InsertedSurvive /\ SyncFroze /\ OpenedAlone
         /\ acked \subseteq Inserted
Undisturbed == starts <= 1 /\ faults = 0
KeptInv == /\ Undisturbed => Keeps
           /\ starts = 0 => wal = NoWal

\* A step keeps what was inserted, and what it makes the engine hold that it did not hold
\* has only just been inserted: nothing that was dropped comes back.
Carries == Inserted \subseteq Inserted' /\ Held' \subseteq Held \cup (Inserted' \ Inserted)

\* A snapshot that was taken while no call was in progress: all that was written up to its
\* number has been inserted, and of what is held with such a number nothing is newer than
\* what the snapshot saw.
SnapKept(sn) ==
  /\ sn.seq \in Nat /\ sn.seq <= seqNum
  /\ \A r \in issued : r.seq <= sn.seq => r \in Inserted
  /\ \A k \in Keys :
       /\ \A q \in sn.view[k] : q.key = k /\ q.seq <= sn.seq /\ sn.view[k] = {q}
       /\ \A r \in Held : r.key = k /\ r.seq <= sn.seq => \E q \in sn.view[k] : r.seq <= q.seq
SnapInv ==
  Undisturbed =>
    /\ DOMAIN snaps = Snaps
    /\ phase \in {"up", "closing"} \/ \A s \in Snaps : snaps[s] = {}
    /\ \A s \in Snaps : \A sn \in snaps[s] : sn.quiet => SnapKept(sn)

----------------------------------------------------------------------------
\* The fields of records.
LEMMA RecordFields ==
  ASSUME TypeInv
  PROVE  /\ \A r \in issued : r.key \in Int /\ r.seq \in Nat /\ r.val \in Nat /\ r.del \in BOOLEAN
         /\ \A r, q \in issued : r.val = q.val => r = q
<1>1. issued \subseteq Records /\ \A r, q \in issued : r.val = q.val => r = q
  BY DEF TypeInv, History
<1>2. Keys \subseteq Int /\ MaxWrites \in Nat
  BY ConstantTypes
<1> SUFFICES ASSUME NEW r \in issued PROVE r.key \in Int /\ r.seq \in Nat /\ r.val \in Nat /\ r.del \in BOOLEAN
  BY <1>1
<1>3. r.key \in Keys /\ r.seq \in 1..MaxWrites /\ r.val \in 1..MaxWrites /\ r.del \in BOOLEAN
  BY <1>1 DEF Records
<1>4. r.seq \in Nat /\ r.val \in Nat
  BY <1>2, <1>3
<1>5. r.key \in Int
  BY <1>2, <1>3, Zenon
<1> QED
  BY <1>3, <1>4, <1>5

\* Every record of a file was issued.
LEMMA FilesIssued == ASSUME TypeInv PROVE \A t : FileRecords(t) \subseteq issued
<1>1. \A p \in DOMAIN files : files[p] \subseteq issued
  BY DEF TypeInv, FileTypes
<1> QED
  BY <1>1 DEF FileRecords, Readable

\* The key range of a table is that of its records.
LEMMA KeyBounds ==
  ASSUME TypeInv, NEW S \in (SUBSET issued) \ {{}}, NEW l, NEW n, NEW t, t = TableMeta(l, n, S)
  PROVE  /\ t.min.key \in Int /\ t.max.key \in Int
         /\ \A r \in S : t.min.key <= r.key /\ r.key <= t.max.key
         /\ \E r \in S : r.key = t.min.key
         /\ \E r \in S : r.key = t.max.key
<1>1. IsFiniteSet(S)
  BY FS_Subset DEF TypeInv, History
<1>2. Numbered(S)
  BY RecordFields DEF Numbered
<1>3. FirstOf(S) \in S /\ \A q \in S \ {FirstOf(S)} : Ahead(FirstOf(S), q)
  BY <1>1, <1>2, FirstIsAhead
<1>4. LastOf(S) \in S /\ \A q \in S \ {LastOf(S)} : Ahead(q, LastOf(S))
  BY <1>1, <1>2, LastIsBehind
<1>5. t.min.key = FirstOf(S).key /\ t.max.key = LastOf(S).key
  BY DEF TableMeta
<1>6. \A a, b \in S : Ahead(a, b) => a.key <= b.key
  BY <1>2 DEF Ahead, Compare, Numbered
<1>7. \A r \in S : FirstOf(S).key <= r.key /\ r.key <= LastOf(S).key
  <2> SUFFICES ASSUME NEW r \in S PROVE FirstOf(S).key <= r.key /\ r.key <= LastOf(S).key
    OBVIOUS
  <2>1. r = FirstOf(S) \/ Ahead(FirstOf(S), r)
    BY <1>3
  <2>2. r = LastOf(S) \/ Ahead(r, LastOf(S))
    BY <1>4
  <2>3. r.key \in Int
    BY <1>2 DEF Numbered
  <2> QED
    BY <1>3, <1>4, <1>6, <2>1, <2>2, <2>3
<1> QED
  BY <1>2, <1>3, <1>4, <1>5, <1>7 DEF Numbered

\* The same of a whole table; it is not empty.
LEMMA WholeBounds ==
  ASSUME TypeInv, NEW t, Whole(t)
  PROVE  /\ FileRecords(t) # {} /\ FileRecords(t) \subseteq issued
         /\ t.min.key \in Int /\ t.max.key \in Int
         /\ \A r \in FileRecords(t) : t.min.key <= r.key /\ r.key <= t.max.key
         /\ \E r \in FileRecords(t) : r.key = t.min.key
         /\ \E r \in FileRecords(t) : r.key = t.max.key
<1>1. FileRecords(t) = files[PathOf(t)] /\ FileRecords(t) # {}
  BY DEF Whole, FileRecords, Readable, PathOf
<1>2. FileRecords(t) \in (SUBSET issued) \ {{}}
  BY <1>1, FilesIssued
<1>3. t = TableMeta(t.level, t.num, FileRecords(t))
  BY <1>1 DEF Whole
<1> QED
  BY <1>1, <1>2, <1>3, KeyBounds

\* A step that keeps the file of a whole table keeps its records.
LEMMA SameRecords ==
  ASSUME NEW t, NEW P, KeepsFiles(P), PathOf(t) \in P, Whole(t)
  PROVE  FileRecords(t)' = FileRecords(t)
BY DEF Whole, KeepsFiles, Readable, FileRecords, PathOf

----------------------------------------------------------------------------
LevelOrder == TopLater /\ TopApart /\ DeepOrdered /\ DeepApart
JobOrder   == InputsOldest /\ AllFound /\ OutsMerged

\* The records of the live tables stay what they are.
KeepsTables == \A t \in LiveTables : FileRecords(t)' = FileRecords(t)

\* The levels of a version that a step leaves alone.
LEMMA LevelFrame ==
  ASSUME LevelOrder, levels' = levels, KeepsTables
  PROVE  LevelOrder' /\ LiveTables' = LiveTables /\ TableRecords' = TableRecords
<1>1. \A l \in Levels : TablesAt(l)' = TablesAt(l) /\ \A t \in TablesAt(l) : FileRecords(t)' = FileRecords(t)
  BY DEF KeepsTables, LiveTables, TablesAt
<1>2. LiveTables' = LiveTables
  BY DEF LiveTables, TablesAt
<1>3. TableRecords' = TableRecords
  BY <1>2 DEF KeepsTables, TableRecords
<1>4. 0 \in Levels
  BY ConstantTypes DEF Levels
<1>5. TopLater' /\ TopApart'
  BY <1>1, <1>4 DEF LevelOrder, TopLater, TopApart
<1>6. DeepOrdered'
  BY <1>1 DEF LevelOrder, DeepOrdered
<1>7. DeepApart'
  BY <1>1 DEF LevelOrder, DeepApart
<1> QED
  BY <1>2, <1>3, <1>5, <1>6, <1>7 DEF LevelOrder

\* A compaction that a step leaves alone, together with the tables it knows.
LEMMA CompactionFrame ==
  ASSUME TypeInv, JobInv, JobOrder, levels' = levels, job' = job, KeepsTables,
         job.pc = "install" => \A t \in ToSet(job.outs) : FileRecords(t)' = FileRecords(t)
  PROVE  JobOrder'
<1>1. \A l \in Levels : TablesAt(l)' = TablesAt(l) /\ \A t \in TablesAt(l) : FileRecords(t)' = FileRecords(t)
  BY DEF KeepsTables, LiveTables, TablesAt
<1>2. job.level \in Levels /\ job.level + 1 \in Levels /\ 0 \in Levels
  BY ConstantTypes DEF TypeInv, Jobs, Levels
<1>3. InputsOldest'
  <2>1. job.pc \in {"begin", "merge", "install"} =>
          /\ ToSet(job.inputs) \subseteq TablesAt(job.level)
          /\ job.level = 0 => \A t \in TablesAt(0) \ ToSet(job.inputs) : \A s \in ToSet(job.inputs) :
                                Later(FileRecords(t), FileRecords(s))
    BY DEF JobOrder, InputsOldest
  <2>2. TablesAt(job.level)' = TablesAt(job.level)
    BY DEF TablesAt
  <2> QED
    BY <1>1, <1>2, <2>1, <2>2 DEF InputsOldest
<1>4. AllFound'
  <2>1. TablesAt(job.level + 1)' = TablesAt(job.level + 1)
    BY DEF TablesAt
  <2> QED
    BY <2>1 DEF JobOrder, AllFound
<1>5. OutsMerged'
  <2> SUFFICES ASSUME job.pc = "install" PROVE OutsMerged'
    BY DEF OutsMerged
  <2>1. \A t \in ToSet(job.all) : FileRecords(t)' = FileRecords(t)
    BY DEF JobInv, KeepsTables
  <2>2. Replaced' = Replaced /\ OutRecords' = OutRecords
    BY <2>1 DEF Replaced, OutRecords
  <2> QED
    BY <2>2 DEF JobOrder, OutsMerged, Beside
<1> QED
  BY <1>3, <1>4, <1>5 DEF JobOrder

\* Both, where the files of the tables in question are kept.
LEMMA OrderFrame ==
  ASSUME TypeInv, FirstRun, TreeOrder, levels' = levels, job' = job, KeepsFiles({PathOf(t) : t \in Listed}),
         job.pc = "install" => KeepsFiles(Paths(job.outs))
  PROVE  TreeOrder' /\ TableRecords' = TableRecords
<1>1. LevelOrder /\ JobOrder
  BY DEF TreeOrder, LevelOrder, JobOrder
<1>2. KeepsTables
  <2> SUFFICES ASSUME NEW t \in LiveTables PROVE FileRecords(t)' = FileRecords(t)
    BY DEF KeepsTables
  <2>1. Whole(t) /\ PathOf(t) \in {PathOf(s) : s \in Listed}
    BY DEF FirstRun, WholeTables, Listed
  <2> QED
    BY <2>1, SameRecords
<1>3. ASSUME job.pc = "install", NEW t \in ToSet(job.outs) PROVE FileRecords(t)' = FileRecords(t)
  <2>1. job.outs \in Seq(Tables)
    BY DEF TypeInv, Jobs
  <2>2. Whole(t) /\ PathOf(t) \in Paths(job.outs)
    BY <1>3, <2>1, PathsOf DEF FirstRun, JobInv
  <2> QED
    BY <1>3, <2>2, SameRecords
<1>4. LevelOrder' /\ TableRecords' = TableRecords
  BY <1>1, <1>2, LevelFrame
<1>5. JobOrder'
  BY <1>1, <1>2, <1>3, CompactionFrame DEF FirstRun
<1> QED
  BY <1>4, <1>5 DEF TreeOrder, LevelOrder, JobOrder

\* Nothing is said of a compaction that has not begun or has been installed.
LEMMA NoCompaction == ASSUME job'.pc \notin {"begin", "merge", "install"} PROVE JobOrder'
BY DEF JobOrder, InputsOldest, AllFound, OutsMerged

\* A compaction that is scheduled has tables of its level as inputs; of level 0, all.
LEMMA CompactionChosen ==
  ASSUME TypeInv, levels' = levels, NEW l \in 0..(Bottom - 1), StartCompaction(l)
  PROVE  JobOrder'
<1>1. /\ job'.pc = "begin" /\ job'.level = l /\ job'.inputs = pickCompactionInputs(l)
      /\ ToSet(job'.inputs) \subseteq TablesAt(l)
  BY StartCompactionTypes
<1>2. TablesAt(job.level)' = TablesAt(l) /\ TablesAt(0)' = TablesAt(0)
  BY <1>1 DEF TablesAt
<1>3. l = 0 => ToSet(job'.inputs) = TablesAt(0)
  BY <1>1 DEF pickCompactionInputs, TablesAt
<1>4. InputsOldest'
  BY <1>1, <1>2, <1>3 DEF InputsOldest
<1> QED
  BY <1>1, <1>4 DEF JobOrder, AllFound, OutsMerged

\* The tables of the next level that a compaction finds are those that meet its inputs.
LEMMA CompactionBegun ==
  ASSUME TypeInv, FirstRun, JobOrder, CompactBegin
  PROVE  JobOrder'
<1> USE DEF ctlVars, memVars, walVars, vsVars, compVars, histVars
<1> DEFINE range == KeyRangeOf(job.inputs)
           over  == IF job.inputs = <<>> THEN <<>>
                    ELSE FindOverlapping(levels[job.level + 1], range[1], range[2])
<1>1. /\ job.pc = "begin" /\ job' = [job EXCEPT !.pc = "merge", !.all = job.inputs \o over]
      /\ UNCHANGED <<levels, files>>
  BY DEF CompactBegin
<1>2. job \in Jobs /\ job.inputs \in Seq(Tables) /\ job.level \in Levels /\ job.level + 1 \in Levels /\ 0 \in Levels
  BY ConstantTypes DEF TypeInv, Jobs, Levels
<1>3. levels[job.level + 1] \in Seq(Tables)
  BY <1>2 DEF TypeInv, TreeTypes, TreeOf
<1>4. /\ over \in Seq(Tables)
      /\ ToSet(over) = IF job.inputs = <<>> THEN {} ELSE {t \in TablesAt(job.level + 1) : Meets(t, job.inputs)}
  <2>1. CASE job.inputs = <<>>
    BY <2>1 DEF ToSet
  <2>2. CASE job.inputs # <<>>
    <3>1. ASSUME NEW s \in Seq(Tables), NEW K PROVE Filter(s, K) \in Seq(Tables) /\ ToSet(Filter(s, K)) = ToSet(s) \cap K
      BY FilterElements
    <3> DEFINE K == {t \in TablesAt(job.level + 1) : Meets(t, job.inputs)}
    <3>2. over = Filter(levels[job.level + 1], K)
      BY <2>2 DEF FindOverlapping, Meets, TablesAt
    <3>3. ToSet(levels[job.level + 1]) \cap K = K
      BY DEF TablesAt
    <3> HIDE DEF K, over
    <3>4. over \in Seq(Tables) /\ ToSet(over) = K
      BY <1>3, <3>1, <3>2, <3>3
    <3> QED
      BY <2>2, <3>4 DEF K
  <2> QED
    BY <2>1, <2>2
<1> HIDE DEF over
<1>5. /\ job'.pc = "merge" /\ job'.level = job.level /\ job'.inputs = job.inputs
      /\ ToSet(job'.all) = ToSet(job.inputs) \cup ToSet(over)
  <2>1. job'.all = job.inputs \o over /\ job'.pc = "merge" /\ job'.level = job.level /\ job'.inputs = job.inputs
    BY <1>1, <1>2 DEF Jobs
  <2> QED
    BY <1>2, <1>4, <2>1, ConcatElements
<1>6. \A l : TablesAt(l)' = TablesAt(l)
  BY <1>1 DEF TablesAt
<1>7. \A t : FileRecords(t)' = FileRecords(t)
  BY <1>1 DEF FileRecords, Readable
<1>8. TablesAt(job.level)' = TablesAt(job.level) /\ TablesAt(job.level + 1)' = TablesAt(job.level + 1)
  BY <1>1, <1>5 DEF TablesAt
<1>9. InputsOldest'
  <2>1. /\ ToSet(job.inputs) \subseteq TablesAt(job.level)
        /\ job.level = 0 => \A t \in TablesAt(0) \ ToSet(job.inputs) : \A s \in ToSet(job.inputs) :
                              Later(FileRecords(t), FileRecords(s))
    BY <1>1 DEF JobOrder, InputsOldest
  <2> QED
    BY <1>5, <1>6, <1>7, <1>8, <2>1 DEF InputsOldest
<1>10. AllFound'
  <2>1. ToSet(job'.all) = ToSet(job'.inputs) \cup
          (IF job'.inputs = <<>> THEN {} ELSE {t \in TablesAt(job.level + 1)' : Meets(t, job'.inputs)})
    BY <1>4, <1>5, <1>8
  <2>2. ASSUME NEW t PROVE Meets(t, job.inputs)' <=> Meets(t, job'.inputs)
    BY DEF Meets, KeyRangeOf
  <2> QED
    BY <2>1, <2>2 DEF AllFound
<1> QED
  BY <1>5, <1>9, <1>10 DEF JobOrder, OutsMerged

----------------------------------------------------------------------------
\* Rounding up is enough.
LEMMA DivUp ==
  ASSUME NEW a \in Nat, NEW b \in Nat \ {0}
  PROVE  (a + b - 1) \div b \in Nat /\ a <= ((a + b - 1) \div b) * b
<1> DEFINE d == (a + b - 1) \div b
           m == (a + b - 1) % b
<1>1. d \in Int /\ m \in 0..(b - 1) /\ a + b - 1 = b * d + m
  OBVIOUS
<1>2. d \in Nat
  <2>1. a + b - 1 \in Nat
    OBVIOUS
  <2> QED
    BY <2>1, DivBound
<1> QED
  BY <1>1, <1>2

\* The output tables hold all the records they are cut from, in key order: those of a
\* table are before those of the next.
LEMMA OutputsCover ==
  ASSUME NEW S, IsFiniteSet(S), \A r \in S : r.key \in Int, NEW outs, outs = Outputs(S)
  PROVE  /\ Len(outs) \in Nat
         /\ \A r \in S : \E i \in 1..Len(outs) : r \in outs[i]
         /\ \A i \in 1..Len(outs) : outs[i] \subseteq S
         /\ \A i, j \in 1..Len(outs) : i < j => \A r \in outs[i], q \in outs[j] : r.key < q.key
<1> DEFINE below(r) == {q \in S : q.key <= r.key}
           N == Cardinality(S)
           M == MaxSSTableSize
           n == (N + M - 1) \div M
           part(i) == {r \in S : Cardinality(below(r)) \in ((i - 1) * M + 1)..(i * M)}
<1>1. N \in Nat /\ M \in Nat \ {0}
  BY FS_CardinalityType, ConstantTypes
<1>2. n \in Nat /\ N <= n * M
  BY <1>1, DivUp
<1>3. outs = [i \in 1..n |-> part(i)]
  BY DEF Outputs
<1>4. ASSUME NEW r \in S PROVE IsFiniteSet(below(r)) /\ Cardinality(below(r)) \in 1..N
  <2>1. below(r) \in SUBSET S /\ r \in below(r)
    OBVIOUS
  <2> HIDE DEF below
  <2>2. IsFiniteSet(below(r)) /\ Cardinality(below(r)) <= N
    BY <2>1, FS_Subset
  <2>3. Cardinality(below(r)) \in Nat /\ Cardinality(below(r)) # 0
    BY <2>1, <2>2, FS_CardinalityType, FS_EmptySet
  <2> QED
    BY <1>1, <2>2, <2>3
<1>5. ASSUME NEW r \in S, NEW q \in S, q.key <= r.key PROVE Cardinality(below(q)) <= Cardinality(below(r))
  <2>1. below(q) \in SUBSET below(r)
    BY <1>5
  <2>2. IsFiniteSet(below(r))
    BY <1>4
  <2> HIDE DEF below
  <2> QED
    BY <2>1, <2>2, FS_Subset
<1> HIDE DEF below, n, N, M
<1>6. Len(outs) = n /\ \A i \in 1..n : outs[i] = part(i)
  <2> HIDE DEF part
  <2> QED
    BY <1>2, <1>3
<1>7. ASSUME NEW r \in S PROVE \E i \in 1..n : r \in part(i)
  <2> DEFINE k == Cardinality(below(r))
             T == {i \in 0..n : k <= i * M}
  <2>1. k \in 1..N
    BY <1>4
  <2> HIDE DEF k
  <2>2. n \in T /\ T \in SUBSET Nat
    BY <1>1, <1>2, <2>1
  <2>3. PICK i \in T : \A j \in T : i <= j
    BY <2>2, LeastNat
  <2>4. i \in 0..n /\ k <= i * M
    OBVIOUS
  <2>5. i # 0
    BY <1>1, <2>1, <2>4
  <2>6. i - 1 \in 0..n /\ i - 1 \notin T
    BY <1>2, <2>3, <2>4, <2>5
  <2>7. ~(k <= (i - 1) * M)
    BY <2>6
  <2>8. i \in 1..n /\ i * M \in Int /\ (i - 1) * M \in Int
    BY <1>1, <1>2, <2>4, <2>5
  <2>9. k \in ((i - 1) * M + 1)..(i * M)
    BY <1>1, <2>1, <2>4, <2>7, <2>8
  <2> QED
    BY <2>8, <2>9 DEF k
<1>8. ASSUME NEW i \in 1..n, NEW j \in 1..n, i < j, NEW r \in part(i), NEW q \in part(j) PROVE r.key < q.key
  <2>1. Cardinality(below(r)) <= i * M /\ (j - 1) * M + 1 <= Cardinality(below(q))
    BY <1>1, <1>2
  <2>2. i * M <= (j - 1) * M /\ i * M \in Int /\ (j - 1) * M \in Int
    <3>1. i \in Nat /\ j - 1 \in Nat /\ i <= j - 1
      BY <1>2, <1>8
    <3> QED
      BY <1>1, <3>1, TimesMonotonic
  <2>3. Cardinality(below(r)) \in Int /\ Cardinality(below(q)) \in Int
    BY <1>1, <1>4
  <2>4. ~(q.key <= r.key)
    BY <1>5, <2>1, <2>2, <2>3
  <2> QED
    BY <2>4
<1> QED
  BY <1>2, <1>6, <1>7, <1>8

\* Until the first restart no two records have the same sequence number, so that the
\* newest version of a key is one record.
LEMMA OneHead ==
  ASSUME TypeInv, NumberedInOrder, NEW R \in SUBSET issued, NEW heads \in OnePerKey(Heads(R))
  PROVE  heads = Heads(R) /\ \A r, q \in heads : r.key = q.key => r = q
<1>1. \A r, q \in issued : r.seq = q.seq => r = q
  BY RecordFields DEF NumberedInOrder
<1>2. \A r \in issued : r.seq \in Nat
  BY RecordFields
<1>3. \A r, q \in Heads(R) : r.key = q.key => r = q
  BY <1>1, <1>2 DEF Heads
<1>4. heads \subseteq Heads(R)
  BY DEF OnePerKey
<1>5. \A r \in Heads(R) : \E q \in heads : q.key = r.key
  BY DEF OnePerKey
<1> QED
  BY <1>3, <1>4, <1>5

\* What a merge that reaches its installation has written.
LEMMA MergedOutputs ==
  ASSUME TypeInv, CompactMerge, job'.pc = "install"
  PROVE  \E heads \in OnePerKey(Heads(Replaced)) : \E outs, scratch :
           /\ outs = Outputs(Survivors(heads, job.level + 1 = Bottom, oldest))
           /\ outs \in Seq(FullTables(issued))
           /\ scratch \in {{}, {<<job.level + 1, OutNum(Len(outs) + 1)>>}}
           /\ Merged(outs, scratch)
<1> DEFINE next == job.level + 1
           S(heads) == Survivors(heads, next = Bottom, oldest)
           outs(heads) == Outputs(S(heads))
           full(heads) == Len(outs(heads)) * MaxSSTableSize = Cardinality(S(heads))
           scratch(heads) == IF full(heads) THEN {<<next, OutNum(Len(outs(heads)) + 1)>>} ELSE {}
<1>1. job' # NoJob
  BY DEF NoJob
<1>2. PICK heads \in OnePerKey(Heads(Replaced)) : Merged(outs(heads), scratch(heads))
  BY <1>1 DEF CompactMerge, Replaced, Merged, Written, OutNum, OutMetas
<1>3. outs(heads) \in Seq(FullTables(issued))
  BY SurvivorTypes DEF Replaced
<1> HIDE DEF outs, full
<1>4. scratch(heads) \in {{}, {<<next, OutNum(Len(outs(heads)) + 1)>>}}
  OBVIOUS
<1> HIDE DEF scratch
<1> QED
  BY <1>2, <1>3, <1>4 DEF outs

\* A merge touches no file of a listed table.
LEMMA MergeKeepsUsed ==
  ASSUME TypeInv, FirstRun, CompactMerge
  PROVE  KeepsFiles({PathOf(t) : t \in Listed})
<1>1. PICK fault : job.pc = "merge" /\ MergeOutcome(fault)
  BY MergeSteps
<1>2. CASE UNCHANGED files
  BY <1>2 DEF KeepsFiles
<1>3. ASSUME NEW outs, IsSeq(outs, FullTables(issued)),
             NEW scratch \in {{}, {<<job.level + 1, OutNum(Len(outs) + 1)>>}}, Merged(outs, scratch)
      PROVE  KeepsFiles(Used)
  <2>1. Len(outs) \in 0..Len(outs)
    BY <1>3 DEF IsSeq
  <2>2. files' = Unlink(Overlay(files, Written(outs, Len(outs))), scratch)
    BY <1>3 DEF Merged
  <2> QED
    BY <1>1, <1>3, <2>1, <2>2, MergeKeeps
<1>4. ASSUME NEW outs, IsSeq(outs, FullTables(issued)), NEW k \in 0..Len(outs), Broken(outs, k) PROVE KeepsFiles(Used)
  <2>1. files' = Create(Overlay(files, Written(outs, k)), <<job.level + 1, OutNum(k + 1)>>, {})
    BY <1>4 DEF Broken
  <2> QED
    BY <1>1, <1>4, <2>1, MergeKeeps
<1>5. UNCHANGED files \/ KeepsFiles(Used)
  BY <1>1, <1>3, <1>4 DEF MergeOutcome, IsSeq
<1>6. {PathOf(t) : t \in Listed} \subseteq Used
  BY InUse
<1> QED
  BY <1>2, <1>5, <1>6 DEF KeepsFiles

\* The outputs of a merge hold the newest versions of what the compaction replaces.
LEMMA MergedOuts ==
  ASSUME TypeInv, TypeInv', FirstRun, NumberedInOrder, CompactMerge, job'.pc = "install"
  PROVE  /\ OutsMerged' /\ KeepsTables
         /\ job'.all = job.all /\ job'.inputs = job.inputs /\ job'.level = job.level
<1> USE DEF ctlVars, memVars, walVars, vsVars, compVars, histVars
<1>1. job.pc = "merge" /\ UNCHANGED <<levels, manifest>>
  BY MergeSteps
<1>2. PICK heads \in OnePerKey(Heads(Replaced)) : \E outs, scratch :
           /\ outs = Outputs(Survivors(heads, job.level + 1 = Bottom, oldest))
           /\ outs \in Seq(FullTables(issued))
           /\ scratch \in {{}, {<<job.level + 1, OutNum(Len(outs) + 1)>>}}
           /\ Merged(outs, scratch)
  BY MergedOutputs
<1>3. PICK S : S = Survivors(heads, job.level + 1 = Bottom, oldest)
  OBVIOUS
<1>4. PICK outs, scratch : /\ outs = Outputs(S) /\ outs \in Seq(FullTables(issued))
                           /\ scratch \in {{}, {<<job.level + 1, OutNum(Len(outs) + 1)>>}}
                           /\ Merged(outs, scratch)
  BY <1>2, <1>3
<1>5. Replaced \subseteq issued
  BY FilesIssued DEF Replaced
<1>6. heads = Heads(Replaced) /\ \A r, q \in heads : r.key = q.key => r = q
  BY <1>5, OneHead
<1>7. S \subseteq Heads(Replaced) /\ \A r \in Heads(Replaced) \ S : r.del /\ job.level + 1 = Bottom
  BY <1>3, <1>6 DEF Survivors
<1>8. S \subseteq issued /\ IsFiniteSet(S) /\ \A r \in S : r.key \in Int
  <2>1. S \subseteq issued
    BY <1>5, <1>7 DEF Heads
  <2> QED
    BY <2>1, FS_Subset, RecordFields DEF TypeInv, History
<1>9. /\ Len(outs) \in Nat
      /\ \A r \in S : \E i \in 1..Len(outs) : r \in outs[i]
      /\ \A i \in 1..Len(outs) : outs[i] \subseteq S
      /\ \A i, j \in 1..Len(outs) : i < j => \A r \in outs[i], q \in outs[j] : r.key < q.key
  BY <1>4, <1>8, OutputsCover
<1>10. PICK metas : metas = OutMetas(outs)
  OBVIOUS
<1>11. IsSeq(outs, FullTables(issued)) /\ \A i \in 1..Len(outs) : outs[i] \in (SUBSET issued) \ {{}}
  BY <1>4 DEF IsSeq, FullTables
<1>12. /\ metas \in Seq(Tables) /\ Len(metas) = Len(outs)
       /\ \A i \in 1..Len(outs) : metas[i] = TableMeta(job.level + 1, OutNum(i), outs[i])
  BY <1>10, <1>11, MetaSeqTypes
<1>13. \A i \in 1..Len(outs) : \A t : t = metas[i] => FileRecords(t)' = outs[i]
  BY <1>1, <1>4, <1>10, <1>11, MergedJob
<1>14. job'.outs = metas /\ job'.all = job.all /\ job'.inputs = job.inputs /\ job'.level = job.level
  <2>1. job' = [job EXCEPT !.pc = "install", !.next = nextFileNum + Len(outs), !.outs = metas]
    BY <1>4, <1>10 DEF Merged
  <2> QED
    BY <2>1 DEF TypeInv, Jobs
<1>15. ASSUME NEW i \in 1..Len(outs), NEW j \in 1..Len(outs), i < j PROVE metas[i].max.key < metas[j].min.key
  <2>1. PICK s : s = metas[i]
    OBVIOUS
  <2>2. PICK t : t = metas[j]
    OBVIOUS
  <2>3. (\E r \in outs[i] : r.key = s.max.key) /\ (\E q \in outs[j] : q.key = t.min.key)
    BY <1>11, <1>12, <2>1, <2>2, KeyBounds
  <2>4. \A r \in outs[i], q \in outs[j] : r.key < q.key
    BY <1>9, <1>15
  <2> QED
    BY <2>1, <2>2, <2>3, <2>4
<1>16. \A s, t \in ToSet(metas) : s = t \/ Beside(s, t)
  <2> SUFFICES ASSUME NEW s \in ToSet(metas), NEW t \in ToSet(metas) PROVE s = t \/ Beside(s, t)
    OBVIOUS
  <2>1. PICK i \in 1..Len(outs) : metas[i] = s
    BY <1>12, InToSet
  <2>2. PICK j \in 1..Len(outs) : metas[j] = t
    BY <1>12, InToSet
  <2>3. i = j \/ i < j \/ j < i
    BY <1>9
  <2> QED
    BY <1>15, <2>1, <2>2, <2>3 DEF Beside
<1>17. OutRecords' = S
  <2>1. OutRecords' = UNION {FileRecords(t)' : t \in ToSet(metas)}
    BY <1>14 DEF OutRecords
  <2>2. ASSUME NEW t \in ToSet(metas) PROVE \E i \in 1..Len(outs) : FileRecords(t)' = outs[i]
    BY <1>12, <1>13, InToSet
  <2>3. ASSUME NEW i \in 1..Len(outs) PROVE \E t \in ToSet(metas) : FileRecords(t)' = outs[i]
    BY <1>12, <1>13, InToSet
  <2> QED
    BY <1>9, <2>1, <2>2, <2>3
<1>18. KeepsTables
  <2> SUFFICES ASSUME NEW t \in LiveTables PROVE FileRecords(t)' = FileRecords(t)
    BY DEF KeepsTables
  <2>1. Whole(t) /\ PathOf(t) \in {PathOf(s) : s \in Listed}
    BY DEF FirstRun, WholeTables, Listed
  <2> QED
    BY <2>1, MergeKeepsUsed, SameRecords
<1>19. Replaced' = Replaced
  <2>1. \A t \in ToSet(job.all) : FileRecords(t)' = FileRecords(t)
    BY <1>1, <1>18 DEF KeepsTables, FirstRun, JobInv
  <2> QED
    BY <1>14, <2>1 DEF Replaced
<1>20. OutsMerged'
  <2>1. \A s, t \in ToSet(job'.outs) : s = t \/ Beside(s, t)
    BY <1>14, <1>16
  <2> QED
    BY <1>7, <1>14, <1>17, <1>19, <2>1 DEF OutsMerged, Heads, Beside
<1> QED
  BY <1>14, <1>18, <1>20

\* The compaction after a merge.
LEMMA CompactionMerged ==
  ASSUME TypeInv, TypeInv', FirstRun, NumberedInOrder, JobOrder, CompactMerge
  PROVE  JobOrder'
<1> USE DEF ctlVars, memVars, walVars, vsVars, compVars, histVars
<1>1. job.pc = "merge" /\ UNCHANGED <<levels, manifest>>
  BY MergeSteps
<1>2. SUFFICES ASSUME job'.pc = "install" PROVE JobOrder'
  <2>1. job'.pc = "install" \/ job' = NoJob
    BY DEF CompactMerge, TypeInv, Jobs
  <2> QED
    BY <2>1, NoCompaction DEF NoJob
<1>3. OutsMerged' /\ KeepsTables /\ job'.all = job.all /\ job'.inputs = job.inputs /\ job'.level = job.level
  BY <1>2, MergedOuts
<1>4. InputsOldest' /\ AllFound'
  <2>1. job.level \in Levels /\ 0 \in Levels /\ job.level + 1 \in Levels
    BY ConstantTypes DEF TypeInv, Jobs, Levels
  <2>2. TablesAt(job.level)' = TablesAt(job.level) /\ TablesAt(0)' = TablesAt(0)
        /\ TablesAt(job.level + 1)' = TablesAt(job.level + 1)
    BY <1>1, <1>3 DEF TablesAt
  <2>3. \A t \in TablesAt(0) \cup TablesAt(job.level) : FileRecords(t)' = FileRecords(t)
    BY <1>3, <2>1 DEF KeepsTables, LiveTables
  <2>4. /\ ToSet(job.inputs) \subseteq TablesAt(job.level)
        /\ job.level = 0 => \A t \in TablesAt(0) \ ToSet(job.inputs) : \A s \in ToSet(job.inputs) :
                              Later(FileRecords(t), FileRecords(s))
    BY <1>1 DEF JobOrder, InputsOldest
  <2>5. InputsOldest'
    BY <1>3, <2>2, <2>3, <2>4 DEF InputsOldest
  <2>6. ToSet(job.all) = ToSet(job.inputs) \cup
          (IF job.inputs = <<>> THEN {} ELSE {t \in TablesAt(job.level + 1) : Meets(t, job.inputs)})
    BY <1>1 DEF JobOrder, AllFound
  <2>7. AllFound'
    BY <1>3, <2>2, <2>6 DEF AllFound, Meets
  <2> QED
    BY <2>5, <2>7
<1> QED
  BY <1>3, <1>4 DEF JobOrder

----------------------------------------------------------------------------
\* The levels after an edit that could be logged.
LEMMA EditedTables ==
  ASSUME TypeInv, NEW edit \in Edits, levels' = apply(levels, edit), NEW l \in Levels
  PROVE  \A t : t \in TablesAt(l)' <=> \/ t \in TablesAt(l) /\ PathOf(t) \notin edit.dels
                                       \/ t \in ToSet(edit.adds) /\ t.level = l
<1>1. levels \in TreeOf /\ OnLevels(levels) /\ levels[l] \in Seq(Tables)
  BY DEF TypeInv, TreeTypes, OnLevels, TreeOf
<1>2. levels'[l] = Applied(levels[l], edit, l)
  BY <1>1, ApplyTypes
<1>3. TablesAt(l)' = ToSet(Applied(levels[l], edit, l))
  BY <1>2 DEF TablesAt
<1> QED
  BY <1>1, <1>3, AppliedTable DEF TablesAt

\* What installing a flush does to the levels: the memtable becomes a table of level 0,
\* unless the manifest cannot be written.
LEMMA FlushInstalled ==
  ASSUME TypeInv, FirstRun, FlushInstall
  PROVE  /\ fl.pc = "install" /\ fl'.pc = "cleanup" /\ fl.task \in Tasks(issued)
         /\ UNCHANGED <<files, job, flushQ, cl, rv, mt, immt, issued, acked, starts, phase, wals, wal, closedWals,
                        nextFileNum>>
         /\ \/ faults' # faults /\ levels' = levels
            \/ /\ faults' = faults
               /\ \E t : /\ Whole(t) /\ t.level = 0 /\ FileRecords(t) = fl.task.mt /\ t \notin LiveTables
                         /\ TablesAt(0)' = TablesAt(0) \cup {t}
                         /\ \A l \in Levels \ {0} : TablesAt(l)' = TablesAt(l)
<1> USE DEF ctlVars, memVars, walVars, compVars, histVars
<1> DEFINE n == fl.task.num
           q == <<0, n>>
<1>1. PICK fault \in Faults({"manifest"}) :
        /\ fl.pc = "install" /\ Count(fault) /\ LogAndApply(FlushEdit, fault)
        /\ fl' = [fl EXCEPT !.pc = "cleanup"]
        /\ UNCHANGED <<files, job, flushQ, cl, rv, mt, immt, issued, acked, starts, phase, wals, wal, closedWals,
                       nextFileNum>>
  BY DEF FlushInstall
<1>2. fl \in Flushers(issued) /\ fl.task \in Tasks(issued) /\ faults \in Nat /\ History
  BY <1>1 DEF TypeInv, FlusherTypes, Counters
<1>3. fl'.pc = "cleanup"
  BY <1>1, <1>2 DEF Flushers
<1>4. CASE fault = "manifest"
  <2>1. levels' = levels /\ faults' # faults
    BY <1>1, <1>2, <1>4 DEF LogAndApply, Count
  <2> QED
    BY <1>1, <1>2, <1>3, <2>1
<1>5. fault = "none" \/ fault = "manifest"
  BY DEF Faults
<1>6. CASE fault = "none"
  <2>1. levels' = apply(levels, FlushEdit) /\ faults' = faults
    BY <1>1, <1>6 DEF LogAndApply, Count
  <2>2. PICK t : t = TableMeta(0, n, fl.task.mt)
    OBVIOUS
  <2>3. fl.task.mt \in (SUBSET issued) \ {{}} /\ n \in Nat /\ 0 \in Levels
    BY <1>2, ConstantTypes DEF Tasks, Levels
  <2>4. t \in Tables /\ t.level = 0 /\ t.num = n /\ PathOf(t) = q
    BY <1>2, <2>2, <2>3, MetaTypes DEF PathOf
  <2>5. FlushEdit \in Edits /\ FlushEdit.dels = {} /\ FlushEdit.adds = <<t>>
    BY <1>1, <2>2, FlushEditTypes
  <2>6. ToSet(FlushEdit.adds) = {t}
    BY <2>5 DEF ToSet
  <2>7. q \in DOMAIN files /\ files[q] = fl.task.mt
    BY <1>1 DEF FirstRun, FlushedWhole
  <2>8. Whole(t) /\ FileRecords(t) = fl.task.mt
    BY <2>2, <2>3, <2>4, <2>7 DEF Whole, Readable, FileRecords, PathOf
  <2>9. t \notin LiveTables
    <3>1. n \in FlNums
      BY <1>1 DEF FlNums
    <3>2. q \notin Used
      BY <3>1, TaskNumTypes, Holders
    <3> QED
      BY <2>4, <3>2, InUse DEF Listed
  <2>10. \A l \in Levels : \A s : s \in TablesAt(l)' <=> s \in TablesAt(l) \/ (s = t /\ l = 0)
    BY <2>1, <2>4, <2>5, <2>6, EditedTables
  <2> QED
    BY <1>1, <1>2, <1>3, <2>1, <2>3, <2>4, <2>8, <2>9, <2>10
<1> QED
  BY <1>4, <1>5, <1>6

\* The levels with that table.
LEMMA FlushedTree ==
  ASSUME TypeInv, FirstRun, TreeOrder, Later(fl.task.mt, TableRecords), FlushInstall
  PROVE  TreeOrder' /\ TableRecords' \subseteq TableRecords \cup fl.task.mt
<1>1. UNCHANGED <<files, job>>
  BY FlushInstalled
<1>2. \A t : FileRecords(t)' = FileRecords(t)
  BY <1>1 DEF FileRecords, Readable
<1>3. CASE levels' = levels
  <2>1. KeepsFiles({PathOf(t) : t \in Listed}) /\ KeepsFiles(Paths(job.outs))
    BY <1>1 DEF KeepsFiles
  <2> QED
    BY <1>1, <1>3, <2>1, OrderFrame
<1>4. ASSUME NEW t, t.level = 0, FileRecords(t) = fl.task.mt, t \notin LiveTables,
             TablesAt(0)' = TablesAt(0) \cup {t}, \A l \in Levels \ {0} : TablesAt(l)' = TablesAt(l)
      PROVE  TreeOrder' /\ TableRecords' \subseteq TableRecords \cup fl.task.mt
  <2>1. 0 \in Levels /\ job.level \in Levels /\ job.level + 1 \in Levels \ {0}
    BY ConstantTypes DEF TypeInv, Jobs, Levels
  <2>2. ASSUME NEW l \in Levels, NEW s \in TablesAt(l)
        PROVE  s \in LiveTables /\ s # t /\ Later(FileRecords(t), FileRecords(s))
    <3>1. s \in LiveTables
      BY DEF LiveTables
    <3>2. FileRecords(s) \subseteq TableRecords
      BY <3>1 DEF TableRecords
    <3> QED
      BY <1>4, <3>1, <3>2 DEF Later
  <2>3. TopLater' /\ TopApart'
    BY <1>2, <1>4, <2>1, <2>2 DEF TreeOrder, TopLater, TopApart
  <2>4. DeepOrdered' /\ DeepApart'
    BY <1>2, <1>4 DEF TreeOrder, DeepOrdered, DeepApart
  <2>5. TablesAt(job.level) \subseteq TablesAt(job.level)' /\ TablesAt(job.level + 1)' = TablesAt(job.level + 1)
    <3>1. TablesAt(job.level)' = ToSet(levels'[job.level]) /\ TablesAt(job.level + 1)' = ToSet(levels'[job.level + 1])
      BY <1>1 DEF TablesAt
    <3>2. \A l \in Levels : TablesAt(l) \subseteq ToSet(levels'[l]) /\ (l # 0 => ToSet(levels'[l]) = TablesAt(l))
      BY <1>4 DEF TablesAt
    <3> QED
      BY <2>1, <3>1, <3>2
  <2>6. InputsOldest'
    <3>1. job.pc \in {"begin", "merge", "install"} =>
            /\ ToSet(job.inputs) \subseteq TablesAt(job.level)
            /\ job.level = 0 => \A u \in TablesAt(0) \ ToSet(job.inputs) : \A s \in ToSet(job.inputs) :
                                  Later(FileRecords(u), FileRecords(s))
      BY DEF TreeOrder, InputsOldest
    <3> QED
      BY <1>1, <1>2, <1>4, <2>1, <2>2, <2>5, <3>1 DEF InputsOldest
  <2>7. AllFound'
    BY <1>1, <2>5 DEF TreeOrder, AllFound
  <2>8. Replaced' = Replaced /\ OutRecords' = OutRecords
    BY <1>1, <1>2 DEF Replaced, OutRecords
  <2>9. OutsMerged'
    BY <1>1, <2>8 DEF TreeOrder, OutsMerged, Beside
  <2>10. LiveTables' \subseteq LiveTables \cup {t}
    <3>1. \A l \in Levels : TablesAt(l)' \subseteq TablesAt(l) \cup {t}
      BY <1>4, <2>1
    <3> QED
      BY <3>1 DEF LiveTables
  <2>11. TableRecords' \subseteq TableRecords \cup fl.task.mt
    BY <1>2, <1>4, <2>10 DEF TableRecords
  <2> QED
    BY <2>3, <2>4, <2>6, <2>7, <2>9, <2>11 DEF TreeOrder
<1> QED
  BY <1>3, <1>4, FlushInstalled

\* What installing a compaction does to the levels: the inputs and the tables they meet
\* are replaced by the outputs.
LEMMA CompactInstalled ==
  ASSUME TypeInv, FirstRun, TreeOrder, CompactInstall
  PROVE  /\ job.pc = "install" /\ job'.pc \notin {"begin", "merge", "install"}
         /\ UNCHANGED <<files, fl, flushQ, cl, rv, mt, immt, issued, acked, starts, phase, wals, wal, closedWals,
                        nextFileNum>>
         /\ \/ faults' # faults /\ levels' = levels
            \/ /\ faults' = faults
               /\ \A l \in Levels : \A t :
                    t \in TablesAt(l)' <=> \/ t \in TablesAt(l) /\ t \notin ToSet(job.all)
                                           \/ t \in ToSet(job.outs) /\ l = job.level + 1
<1> USE DEF ctlVars, memVars, walVars, compVars, histVars
<1>1. PICK fault \in Faults({"manifest"}) :
        /\ job.pc = "install" /\ Count(fault) /\ LogAndApply(CompactionEdit, fault)
        /\ job' = NoJob \/ job' = [job EXCEPT !.pc = "remove"]
        /\ UNCHANGED <<files, fl, flushQ, cl, rv, mt, immt, issued, acked, starts, phase, wals, wal, closedWals,
                       nextFileNum>>
  BY DEF CompactInstall
<1>2. job \in Jobs /\ faults \in Nat /\ job.all \in Seq(Tables) /\ job.outs \in Seq(Tables)
  BY DEF TypeInv, Counters, Jobs
<1>3. job'.pc \notin {"begin", "merge", "install"}
  BY <1>1, <1>2 DEF Jobs, NoJob
<1>4. fault = "none" \/ fault = "manifest"
  BY DEF Faults
<1>5. CASE fault = "manifest"
  <2>1. levels' = levels /\ faults' # faults
    BY <1>1, <1>2, <1>5 DEF LogAndApply, Count
  <2> QED
    BY <1>1, <1>3, <2>1
<1>6. CASE fault = "none"
  <2>1. levels' = apply(levels, CompactionEdit) /\ faults' = faults
    BY <1>1, <1>6 DEF LogAndApply, Count
  <2>2. CompactionEdit \in Edits /\ CompactionEdit.dels = Paths(job.all) /\ CompactionEdit.adds = job.outs
    BY CompactionEditTypes
  <2>3. ASSUME NEW l \in Levels, NEW t \in TablesAt(l) PROVE PathOf(t) \in Paths(job.all) <=> t \in ToSet(job.all)
    <3>1. ASSUME NEW u \in ToSet(job.all), PathOf(t) = PathOf(u) PROVE t = u
      <4>1. u \in LiveTables
        BY <1>1 DEF FirstRun, JobInv
      <4>2. u \in ToSet(levels[u.level]) /\ t \in ToSet(levels[l]) /\ t.level = l /\ levels[l] \in Seq(Tables)
        BY <4>1, ListedTables DEF TypeInv, TablesAt, TreeTypes, TreeOf
      <4>3. u.level = l /\ u.num = t.num
        BY <3>1, <4>2 DEF PathOf
      <4>4. Apart(levels[l])
        BY DEF FirstRun, LevelsApart
      <4> QED
        BY <4>2, <4>3, <4>4, InToSet DEF Apart
    <3> QED
      BY <1>2, <3>1, PathsOf
  <2>4. \A t \in ToSet(job.outs) : t.level = job.level + 1
    BY <1>1 DEF FirstRun, JobInv
  <2>5. ASSUME NEW l \in Levels, NEW t
        PROVE  t \in TablesAt(l)' <=> \/ t \in TablesAt(l) /\ t \notin ToSet(job.all)
                                      \/ t \in ToSet(job.outs) /\ l = job.level + 1
    BY <2>1, <2>2, <2>3, <2>4, EditedTables
  <2> QED
    BY <1>1, <1>3, <2>1, <2>5
<1> QED
  BY <1>4, <1>5, <1>6

----------------------------------------------------------------------------
\* A finite set of keys has a least and a greatest.
LEMMA LeastKey ==
  ASSUME NEW S \in SUBSET Int, IsFiniteSet(S), S # {}
  PROVE  /\ Min(S) \in S /\ \A x \in S : Min(S) <= x
         /\ Max(S) \in S /\ \A x \in S : x <= Max(S)
<1>1. \E x \in S : \A y \in S : x <= y
  <2> DEFINE R == {p \in S \X S : p[1] < p[2]}
  <2>1. \A a \in S : <<a, a>> \notin R
    OBVIOUS
  <2>2. \A a, b, c \in S : <<a, b>> \in R /\ <<b, c>> \in R => <<a, c>> \in R
    OBVIOUS
  <2>3. \A a, b \in S : <<a, b>> \notin R => b <= a
    OBVIOUS
  <2> HIDE DEF R
  <2>4. \E x \in S : \A y \in S : <<y, x>> \notin R
    BY <2>1, <2>2, LeastOf
  <2> QED
    BY <2>3, <2>4
<1>2. \E x \in S : \A y \in S : x >= y
  <2> DEFINE R == {p \in S \X S : p[1] > p[2]}
  <2>1. \A a \in S : <<a, a>> \notin R
    OBVIOUS
  <2>2. \A a, b, c \in S : <<a, b>> \in R /\ <<b, c>> \in R => <<a, c>> \in R
    OBVIOUS
  <2>3. \A a, b \in S : <<a, b>> \notin R => b >= a
    OBVIOUS
  <2> HIDE DEF R
  <2>4. \E x \in S : \A y \in S : <<y, x>> \notin R
    BY <2>1, <2>2, LeastOf
  <2> QED
    BY <2>3, <2>4
<1>3. Min(S) \in S /\ \A x \in S : Min(S) <= x
  BY <1>1 DEF Min
<1>4. Max(S) \in S /\ \A x \in S : Max(S) >= x
  BY <1>2 DEF Max
<1> QED
  BY <1>3, <1>4

\* The keys of finitely many elements, by a function of them.
LEMMA FiniteImage ==
  ASSUME NEW n \in Nat, NEW f
  PROVE  IsFiniteSet({f[i] : i \in 1..n})
<1> DEFINE g == [i \in 1..n |-> f[i]]
           T == {f[i] : i \in 1..n}
<1>1. g \in Surjection(1..n, T)
  BY DEF Surjection
<1> QED
  BY <1>1, FS_Surjection, FS_Interval

\* The key range of the inputs of a compaction spans all of them and no more.
LEMMA InputRange ==
  ASSUME NEW s \in Seq(Tables), s # <<>>, \A t \in ToSet(s) : t.min.key \in Int /\ t.max.key \in Int
  PROVE  /\ KeyRangeOf(s)[1] \in Int /\ KeyRangeOf(s)[2] \in Int
         /\ \A t \in ToSet(s) : KeyRangeOf(s)[1] <= t.min.key /\ t.max.key <= KeyRangeOf(s)[2]
         /\ \E t \in ToSet(s) : t.min.key = KeyRangeOf(s)[1]
         /\ \E t \in ToSet(s) : t.max.key = KeyRangeOf(s)[2]
<1> DEFINE mins == {t.min.key : t \in ToSet(s)}
           maxs == {t.max.key : t \in ToSet(s)}
           f == [i \in 1..Len(s) |-> s[i].min.key]
           g == [i \in 1..Len(s) |-> s[i].max.key]
<1>1. Len(s) \in Nat /\ 1 \in 1..Len(s) /\ \A x : x \in ToSet(s) <=> \E i \in 1..Len(s) : x = s[i]
  BY InToSet
<1>2. mins = {f[i] : i \in 1..Len(s)} /\ maxs = {g[i] : i \in 1..Len(s)}
  BY <1>1
<1>3. mins \in SUBSET Int /\ maxs \in SUBSET Int /\ mins # {} /\ maxs # {}
  BY <1>1
<1> HIDE DEF f, g
<1>4. IsFiniteSet(mins) /\ IsFiniteSet(maxs)
  <2>1. IsFiniteSet({f[i] : i \in 1..Len(s)}) /\ IsFiniteSet({g[i] : i \in 1..Len(s)})
    BY <1>1, FiniteImage
  <2> QED
    BY <1>2, <2>1, Zenon
<1>5. /\ \A t \in ToSet(s) : t.min.key \in mins /\ t.max.key \in maxs
      /\ \A x \in mins : \E t \in ToSet(s) : t.min.key = x
      /\ \A x \in maxs : \E t \in ToSet(s) : t.max.key = x
  OBVIOUS
<1>6. KeyRangeOf(s)[1] = Min(mins) /\ KeyRangeOf(s)[2] = Max(maxs)
  BY DEF KeyRangeOf
<1> HIDE DEF mins, maxs
<1>7. /\ Min(mins) \in mins /\ \A x \in mins : Min(mins) <= x
      /\ Max(maxs) \in maxs /\ \A x \in maxs : x <= Max(maxs)
  BY <1>3, <1>4, LeastKey
<1> QED
  BY <1>3, <1>5, <1>6, <1>7

\* What a compaction replaces: its inputs, on their level, and the tables of the next one
\* that meet them; the records of its outputs are theirs.
LEMMA ReplacedTables ==
  ASSUME TypeInv, FirstRun, TreeOrder, job.pc = "install"
  PROVE  /\ job.level \in Levels /\ job.level + 1 \in Levels \ {0} /\ job.inputs \in Seq(Tables)
         /\ ToSet(job.inputs) \subseteq TablesAt(job.level) /\ ToSet(job.inputs) \subseteq ToSet(job.all)
         /\ \A t \in ToSet(job.all) : Whole(t)
         /\ \A t \in ToSet(job.all) : \/ t \in ToSet(job.inputs)
                                      \/ /\ t \in TablesAt(job.level + 1) /\ Meets(t, job.inputs)
                                         /\ job.inputs # <<>>
         /\ job.inputs = <<>> => ToSet(job.all) = {}
         /\ job.inputs # <<>> => \A t \in TablesAt(job.level + 1) : Meets(t, job.inputs) => t \in ToSet(job.all)
         /\ \A o \in ToSet(job.outs) : Whole(o) /\ \A r \in FileRecords(o) : \E t \in ToSet(job.all) : r \in FileRecords(t)
<1>1. job.level \in Levels /\ job.level + 1 \in Levels \ {0} /\ job.inputs \in Seq(Tables)
  BY ConstantTypes DEF TypeInv, Jobs, Levels
<1>2. /\ ToSet(job.inputs) \subseteq TablesAt(job.level)
      /\ ToSet(job.all) = ToSet(job.inputs) \cup
          (IF job.inputs = <<>> THEN {} ELSE {t \in TablesAt(job.level + 1) : Meets(t, job.inputs)})
      /\ OutRecords \subseteq Heads(Replaced)
  BY DEF TreeOrder, InputsOldest, AllFound, OutsMerged
<1>3. /\ ToSet(job.all) \subseteq LiveTables /\ \A t \in ToSet(job.outs) : Whole(t)
      /\ \A t \in LiveTables : Whole(t)
  BY DEF FirstRun, JobInv, WholeTables, Listed
<1>4. job.inputs = <<>> => ToSet(job.inputs) = {}
  BY DEF ToSet
<1>5. \A o \in ToSet(job.outs) : \A r \in FileRecords(o) : \E t \in ToSet(job.all) : r \in FileRecords(t)
  BY <1>2 DEF OutRecords, Replaced, Heads
<1> QED
  BY <1>1, <1>2, <1>3, <1>4, <1>5

\* A table of the next level that does not meet the inputs is beside the outputs: it is
\* beside the inputs' range and beside every table that meets it.
LEMMA Bystander ==
  ASSUME TypeInv, FirstRun, TreeOrder, job.pc = "install",
         NEW s \in TablesAt(job.level + 1), s \notin ToSet(job.all), NEW o \in ToSet(job.outs)
  PROVE  Beside(s, o)
<1> DEFINE lo == KeyRangeOf(job.inputs)[1]
           hi == KeyRangeOf(job.inputs)[2]
<1>1. \A t \in ToSet(job.all) \cup {s, o} : Whole(t)
  BY ReplacedTables DEF FirstRun, WholeTables, Listed, LiveTables
<1>2. \A t \in ToSet(job.all) \cup {s, o} :
        /\ FileRecords(t) # {} /\ FileRecords(t) \subseteq issued
        /\ t.min.key \in Int /\ t.max.key \in Int
        /\ \A r \in FileRecords(t) : t.min.key <= r.key /\ r.key <= t.max.key
        /\ \E r \in FileRecords(t) : r.key = t.min.key
        /\ \E r \in FileRecords(t) : r.key = t.max.key
  BY <1>1, WholeBounds
<1>3. job.inputs # <<>>
  BY <1>2, ReplacedTables
<1>4. lo \in Int /\ hi \in Int /\ \A t \in ToSet(job.inputs) : lo <= t.min.key /\ t.max.key <= hi
  <2>1. \A t \in ToSet(job.inputs) : t.min.key \in Int /\ t.max.key \in Int
    BY <1>2, ReplacedTables
  <2> QED
    BY <1>3, <2>1, ReplacedTables, InputRange
<1>5. s.max.key < lo \/ s.min.key > hi
  BY <1>3, ReplacedTables DEF Meets
<1>6. ASSUME NEW t \in ToSet(job.all), t \notin ToSet(job.inputs) PROVE Beside(s, t) /\ ~(t.max.key < lo \/ t.min.key > hi)
  BY <1>6, ReplacedTables DEF TreeOrder, DeepApart, Meets
<1>7. \A r \in FileRecords(o) : r.key \in Int
  BY <1>2, RecordFields
<1>8. CASE s.max.key < lo
  <2>1. ASSUME NEW t \in ToSet(job.all) PROVE s.max.key < t.min.key
    <3>1. CASE t \in ToSet(job.inputs)
      BY <1>2, <1>4, <1>8, <3>1
    <3>2. CASE t \notin ToSet(job.inputs)
      <4>1. ~(t.max.key < s.min.key)
        <5>1. s.min.key <= s.max.key
          BY <1>2
        <5>2. ~(t.max.key < lo)
          BY <1>6, <3>2
        <5> QED
          BY <1>2, <1>4, <1>8, <5>1, <5>2
      <4> QED
        BY <1>6, <3>2, <4>1 DEF Beside
    <3> QED
      BY <3>1, <3>2
  <2>2. \A r \in FileRecords(o) : s.max.key < r.key
    <3> SUFFICES ASSUME NEW r \in FileRecords(o) PROVE s.max.key < r.key
      OBVIOUS
    <3>1. PICK t \in ToSet(job.all) : r \in FileRecords(t)
      BY ReplacedTables
    <3> QED
      BY <1>2, <1>7, <2>1, <3>1
  <2> QED
    BY <1>2, <2>2 DEF Beside
<1>9. CASE s.min.key > hi
  <2>1. ASSUME NEW t \in ToSet(job.all) PROVE t.max.key < s.min.key
    <3>1. CASE t \in ToSet(job.inputs)
      BY <1>2, <1>4, <1>9, <3>1
    <3>2. CASE t \notin ToSet(job.inputs)
      <4>1. ~(s.max.key < t.min.key)
        <5>1. s.min.key <= s.max.key
          BY <1>2
        <5>2. ~(t.min.key > hi)
          BY <1>6, <3>2
        <5> QED
          BY <1>2, <1>4, <1>9, <5>1, <5>2
      <4> QED
        BY <1>6, <3>2, <4>1 DEF Beside
    <3> QED
      BY <3>1, <3>2
  <2>2. \A r \in FileRecords(o) : r.key < s.min.key
    <3> SUFFICES ASSUME NEW r \in FileRecords(o) PROVE r.key < s.min.key
      OBVIOUS
    <3>1. PICK t \in ToSet(job.all) : r \in FileRecords(t)
      BY ReplacedTables
    <3> QED
      BY <1>2, <1>7, <2>1, <3>1
  <2> QED
    BY <1>2, <2>2 DEF Beside
<1> QED
  BY <1>5, <1>8, <1>9

\* Tables beside each other have no key in common.
LEMMA NoCommonKey ==
  ASSUME TypeInv, NEW s, NEW t, Whole(s), Whole(t), Beside(s, t)
  PROVE  \A r \in FileRecords(s), q \in FileRecords(t) : r.key # q.key
<1> SUFFICES ASSUME NEW r \in FileRecords(s), NEW q \in FileRecords(t) PROVE r.key # q.key
  OBVIOUS
<1>1. s.min.key \in Int /\ s.max.key \in Int /\ s.min.key <= r.key /\ r.key <= s.max.key
  BY WholeBounds
<1>2. t.min.key \in Int /\ t.max.key \in Int /\ t.min.key <= q.key /\ q.key <= t.max.key
  BY WholeBounds
<1>3. r.key \in Int /\ q.key \in Int
  BY FilesIssued, RecordFields
<1> QED
  BY <1>1, <1>2, <1>3 DEF Beside

\* How the tables a compaction leaves alone relate to those it replaces: the ones of
\* level 0 are newer than all of them, the ones up to its level have newer versions of
\* their keys, and the ones below the next level have older versions.
LEMMA UntouchedTables ==
  ASSUME TypeInv, FirstRun, TreeOrder, job.pc = "install",
         NEW m \in Levels, NEW s \in TablesAt(m), s \notin ToSet(job.all), NEW u \in ToSet(job.all)
  PROVE  /\ m = 0 => Later(FileRecords(s), FileRecords(u))
         /\ m # 0 /\ m <= job.level => Newer(FileRecords(s), FileRecords(u))
         /\ job.level + 1 < m => Newer(FileRecords(u), FileRecords(s))
<1> DEFINE l == job.level
<1>1. l \in Levels /\ l + 1 \in Levels \ {0} /\ ToSet(job.inputs) \subseteq TablesAt(l) /\ s \notin ToSet(job.inputs)
  BY ReplacedTables
<1>2. u \in ToSet(job.inputs) \/ u \in TablesAt(l + 1)
  BY ReplacedTables
<1>3. m \in Nat /\ l \in Nat /\ 0 \in Levels
  BY <1>1, ConstantTypes DEF Levels
<1>4. Whole(s) /\ Whole(u)
  BY ReplacedTables DEF FirstRun, WholeTables, Listed, LiveTables
<1>5. CASE m = 0
  <2>1. u \in TablesAt(l + 1) => Later(FileRecords(s), FileRecords(u))
    BY <1>1, <1>5 DEF TreeOrder, TopLater
  <2>2. u \in ToSet(job.inputs) /\ l # 0 => Later(FileRecords(s), FileRecords(u))
    BY <1>1, <1>5 DEF TreeOrder, TopLater
  <2>3. u \in ToSet(job.inputs) /\ l = 0 => Later(FileRecords(s), FileRecords(u))
    BY <1>1, <1>5 DEF TreeOrder, InputsOldest
  <2> QED
    BY <1>1, <1>2, <1>3, <1>5, <2>1, <2>2, <2>3
<1>6. CASE m # 0 /\ m <= l
  <2>1. m \in Levels \ {0} /\ l \in Levels \ {0} /\ m < l + 1
    BY <1>1, <1>3, <1>6 DEF Levels
  <2>2. u \in TablesAt(l + 1) => Newer(FileRecords(s), FileRecords(u))
    BY <1>1, <2>1 DEF TreeOrder, DeepOrdered
  <2>3. u \in ToSet(job.inputs) /\ m < l => Newer(FileRecords(s), FileRecords(u))
    BY <1>1, <2>1 DEF TreeOrder, DeepOrdered
  <2>4. u \in ToSet(job.inputs) /\ m = l => Beside(s, u)
    BY <1>1, <2>1 DEF TreeOrder, DeepApart
  <2>5. Beside(s, u) => Newer(FileRecords(s), FileRecords(u))
    BY <1>4, NoCommonKey DEF Newer
  <2>6. m < l \/ m = l
    BY <1>1, <1>3, <1>6
  <2>7. ~(l + 1 < m)
    BY <1>1, <1>3, <1>6
  <2> QED
    BY <1>2, <1>6, <2>2, <2>3, <2>4, <2>5, <2>6, <2>7
<1>7. CASE l + 1 < m
  <2>1. m \in Levels \ {0} /\ l < m /\ ~(m <= l) /\ m # 0
    BY <1>1, <1>3, <1>7 DEF Levels
  <2>2. u \in TablesAt(l + 1) => Newer(FileRecords(u), FileRecords(s))
    BY <1>1, <1>7, <2>1 DEF TreeOrder, DeepOrdered
  <2>3. u \in ToSet(job.inputs) /\ l # 0 => Newer(FileRecords(u), FileRecords(s))
    BY <1>1, <2>1 DEF TreeOrder, DeepOrdered
  <2>4. u \in ToSet(job.inputs) /\ l = 0 => Newer(FileRecords(u), FileRecords(s))
    BY <1>1, <2>1 DEF TreeOrder, TopLater, Later, Newer
  <2> QED
    BY <1>2, <2>1, <2>2, <2>3, <2>4
<1> QED
  BY <1>5, <1>6, <1>7

\* The levels with the outputs of a compaction in the place of what they replace.
LEMMA CompactedTree ==
  ASSUME TypeInv, FirstRun, TreeOrder, CompactInstall
  PROVE  TreeOrder' /\ TableRecords' \subseteq TableRecords
<1> DEFINE l == job.level
<1>1. job.pc = "install" /\ job'.pc \notin {"begin", "merge", "install"} /\ files' = files
  BY CompactInstalled
<1>2. JobOrder' /\ \A t : FileRecords(t)' = FileRecords(t)
  BY <1>1, NoCompaction DEF FileRecords, Readable
<1>3. CASE levels' = levels
  <2>1. KeepsTables /\ LevelOrder
    BY <1>2 DEF KeepsTables, TreeOrder, LevelOrder
  <2> QED
    BY <1>2, <1>3, <2>1, LevelFrame DEF LevelOrder, JobOrder, TreeOrder
<1>4. ASSUME \A m \in Levels : \A t :
               t \in TablesAt(m)' <=> \/ t \in TablesAt(m) /\ t \notin ToSet(job.all)
                                      \/ t \in ToSet(job.outs) /\ m = l + 1
      PROVE  TreeOrder' /\ TableRecords' \subseteq TableRecords
  <2>1. l \in Levels /\ l + 1 \in Levels \ {0} /\ 0 \in Levels /\ l \in Nat
    BY <1>1, ReplacedTables, ConstantTypes DEF Levels
  <2>2. \A o \in ToSet(job.outs) : \A r \in FileRecords(o) : \E u \in ToSet(job.all) : r \in FileRecords(u)
    BY <1>1, ReplacedTables
  <2>3. ASSUME NEW m \in Levels, NEW s \in TablesAt(m), s \notin ToSet(job.all), NEW o \in ToSet(job.outs)
        PROVE  /\ m = 0 => Later(FileRecords(s), FileRecords(o))
               /\ m # 0 /\ m <= l => Newer(FileRecords(s), FileRecords(o))
               /\ l + 1 < m => Newer(FileRecords(o), FileRecords(s))
    <3>1. \A u \in ToSet(job.all) :
               /\ m = 0 => Later(FileRecords(s), FileRecords(u))
               /\ m # 0 /\ m <= l => Newer(FileRecords(s), FileRecords(u))
               /\ l + 1 < m => Newer(FileRecords(u), FileRecords(s))
      BY <1>1, <2>3, UntouchedTables
    <3> QED
      BY <2>2, <3>1 DEF Later, Newer
  <2>4. TopLater'
    <3> SUFFICES ASSUME NEW t \in TablesAt(0)', NEW m \in Levels \ {0}, NEW s \in TablesAt(m)'
                 PROVE  Later(FileRecords(t), FileRecords(s))
      BY <1>2 DEF TopLater
    <3>1. t \in TablesAt(0) /\ t \notin ToSet(job.all)
      BY <1>4, <2>1
    <3>2. s \in TablesAt(m) \/ s \in ToSet(job.outs)
      BY <1>4
    <3> QED
      BY <2>1, <2>3, <3>1, <3>2 DEF TreeOrder, TopLater
  <2>5. TopApart'
    <3>1. TablesAt(0)' \subseteq TablesAt(0)
      BY <1>4, <2>1
    <3> QED
      BY <1>2, <3>1 DEF TreeOrder, TopApart
  <2>6. DeepOrdered'
    <3> SUFFICES ASSUME NEW a \in Levels \ {0}, NEW b \in Levels \ {0}, a < b,
                        NEW s \in TablesAt(a)', NEW t \in TablesAt(b)'
                 PROVE  Newer(FileRecords(s), FileRecords(t))
      BY <1>2 DEF DeepOrdered
    <3>1. CASE s \in TablesAt(a) /\ t \in TablesAt(b)
      BY <3>1 DEF TreeOrder, DeepOrdered
    <3>2. CASE s \in ToSet(job.outs) /\ a = l + 1 /\ t \in TablesAt(b) /\ t \notin ToSet(job.all)
      BY <2>3, <3>2
    <3>3. CASE t \in ToSet(job.outs) /\ b = l + 1 /\ s \in TablesAt(a) /\ s \notin ToSet(job.all)
      <4>1. a <= l
        BY <2>1, <3>3, ConstantTypes DEF Levels
      <4> QED
        BY <2>3, <3>3, <4>1
    <3>4. ~(a = l + 1 /\ b = l + 1)
      BY <2>1
    <3> QED
      BY <1>4, <3>1, <3>2, <3>3, <3>4
  <2>7. DeepApart'
    <3> SUFFICES ASSUME NEW m \in Levels \ {0}, NEW s \in TablesAt(m)', NEW t \in TablesAt(m)'
                 PROVE  s = t \/ Beside(s, t)
      BY DEF DeepApart, Beside
    <3>1. CASE s \in TablesAt(m) /\ t \in TablesAt(m)
      BY <3>1 DEF TreeOrder, DeepApart
    <3>2. CASE s \in ToSet(job.outs) /\ t \in ToSet(job.outs)
      BY <1>1, <3>2 DEF TreeOrder, OutsMerged
    <3>3. ASSUME m = l + 1, NEW x \in TablesAt(m), x \notin ToSet(job.all), NEW o \in ToSet(job.outs) PROVE Beside(x, o)
      BY <1>1, <3>3, Bystander
    <3> QED
      BY <1>4, <3>1, <3>2, <3>3 DEF Beside
  <2>8. TableRecords' \subseteq TableRecords
    <3>1. \A t \in LiveTables' : t \in LiveTables \/ t \in ToSet(job.outs)
      BY <1>4 DEF LiveTables
    <3>2. ToSet(job.all) \subseteq LiveTables
      BY <1>1 DEF FirstRun, JobInv
    <3> QED
      BY <1>2, <2>2, <3>1, <3>2 DEF TableRecords
  <2> QED
    BY <1>2, <2>4, <2>5, <2>6, <2>7, <2>8 DEF TreeOrder, JobOrder
<1> QED
  BY <1>3, <1>4, CompactInstalled

----------------------------------------------------------------------------
\* Who has a frozen memtable: a call, the channel or the flusher; recovery has none.
Frozen(t) ==
  \/ \E c \in Clients : \E i \in Pending(cl[c]) : t = cl[c].tasks[i]
  \/ \E i \in 1..Len(flushQ) : t = flushQ[i]
  \/ Busy /\ t = fl.task
LEMMA FrozenParts ==
  /\ TypeInv /\ NoReplay => \A t : t \in FrozenTasks <=> Frozen(t)
  /\ (TypeInv /\ NoReplay)' => \A t : (t \in FrozenTasks)' <=> Frozen(t)'
<1>1. ASSUME TypeInv, NoReplay PROVE \A t : t \in FrozenTasks <=> Frozen(t)
  <2>1. rv.tasks = <<>> /\ flushQ \in Seq(Tasks(issued))
    BY <1>1 DEF TypeInv, RecoveryTypes, NoReplay, FlusherTypes
  <2>2. ToSet(rv.tasks) = {} /\ \A t : t \in ToSet(flushQ) <=> \E i \in 1..Len(flushQ) : t = flushQ[i]
    BY <2>1 DEF ToSet
  <2> QED
    BY <2>2 DEF FrozenTasks, UnsentTasks, Frozen, Busy
<1>2. ASSUME TypeInv', NoReplay' PROVE \A t : (t \in FrozenTasks)' <=> Frozen(t)'
  <2>1. rv'.tasks = <<>> /\ flushQ' \in Seq(Tasks(issued'))
    BY <1>2 DEF TypeInv, RecoveryTypes, NoReplay, FlusherTypes
  <2>2. ToSet(rv'.tasks) = {} /\ \A t : t \in ToSet(flushQ') <=> \E i \in 1..Len(flushQ') : t = flushQ'[i]
    BY <2>1 DEF ToSet
  <2> QED
    BY <2>2 DEF FrozenTasks, UnsentTasks, Frozen, Busy
<1> QED
  BY <1>1, <1>2

\* The tasks hold records that were issued.
LEMMA FrozenTypes == ASSUME TypeInv, NoReplay, NEW t \in FrozenTasks PROVE t \in Tasks(issued)
<1>1. flushQ \in Seq(Tasks(issued)) /\ (fl.pc # "idle" => fl.task \in Tasks(issued))
      /\ \A c \in Clients : cl[c] \in Calls(issued) /\ CallShape(cl[c])
  BY DEF TypeInv, FlusherTypes, CallTypes
<1>2. \A c \in Clients : \A i \in Pending(cl[c]) : cl[c].tasks[i] \in Tasks(issued)
  BY <1>1, PendingTasks
<1> QED
  BY <1>1, <1>2, FrozenParts DEF Frozen, Busy

\* Steps that leave the calls, the channel and the memtable alone, where the flusher
\* takes no task: memtables and tables only become fewer.
LEMMA MemoryFrame ==
  ASSUME TypeInv, TypeInv', NoReplay, NoReplay', MemOrder, UNCHANGED <<flushQ, cl, mt, issued>>,
         Busy' => Busy /\ fl'.task = fl.task, TableRecords' \subseteq TableRecords
  PROVE  MemOrder'
<1>1. FrozenTasks' \subseteq FrozenTasks
  BY FrozenParts DEF Frozen
<1>2. TasksInOrder'
  BY DEF MemOrder, TasksInOrder, QueueInOrder, CallInOrder
<1>3. FrozenOrder'
  BY <1>1 DEF MemOrder, FrozenOrder, Later
<1>4. Held' \subseteq Held /\ Inserted' = Inserted
  BY <1>1 DEF Held, Inserted
<1>5. WaitingNewest'
  BY <1>4 DEF MemOrder, WaitingNewest
<1> QED
  BY <1>2, <1>3, <1>5 DEF MemOrder

\* Nothing is in memory, and no table is listed.
LEMMA NothingHeld ==
  ASSUME TypeInv', NoReplay', levels' = NoLevels, job'.pc = "none", mt' = {}, flushQ' = <<>>, ~Busy',
         \A c \in Clients : cl'[c] = Idle
  PROVE  TreeOrder' /\ MemOrder'
<1>1. \A l \in Levels : TablesAt(l)' = {}
  BY DEF TablesAt, NoLevels, ToSet
<1>2. 0 \in Levels /\ LiveTables' = {}
  BY <1>1, ConstantTypes DEF LiveTables, Levels
<1>3. TableRecords' = {}
  BY <1>2 DEF TableRecords
<1>4. TreeOrder'
  BY <1>1, <1>2 DEF TreeOrder, TopLater, TopApart, DeepOrdered, DeepApart, InputsOldest, AllFound, OutsMerged
<1>5. Len(flushQ') = 0 /\ \A c \in Clients : Pending(cl'[c]) = {} /\ Waiting(cl'[c]) = {} /\ ~Writing(cl'[c])
  BY DEF Pending, Waiting, Writing, Idle
<1>6. FrozenTasks' = {}
  BY <1>5, FrozenParts DEF Frozen
<1>7. Held' = {}
  BY <1>3, <1>6 DEF Held
<1>8. TasksInOrder'
  BY <1>5 DEF TasksInOrder, QueueInOrder, CallInOrder
<1>9. FrozenOrder'
  BY <1>3, <1>6 DEF FrozenOrder, Later
<1>10. WaitingNewest'
  BY <1>5, <1>7 DEF WaitingNewest, InSeqOrder
<1> QED
  BY <1>4, <1>8, <1>9, <1>10 DEF MemOrder

\* A call that is not in the middle of anything has no tasks and no records.
LEMMA IdleCall == Pending(Idle) = {} /\ Waiting(Idle) = {} /\ ~Writing(Idle)
BY DEF Pending, Waiting, Writing, Idle

\* The largest of some numbers, and one below all.
Largest(i, S) == \A j \in S : ~(i < j)
Before(i, S)  == \A j \in S : i < j

\* A step of the only call: it puts the first of the records that wait into the
\* memtable, and may freeze that.
LEMMA CallMoves ==
  ASSUME TypeInv, TypeInv', NoReplay, NoReplay', MemOrder, NEW c \in Clients,
         \A d \in Clients : d # c => cl[d] = Idle, NEW r, Become(c, r),
         UNCHANGED <<flushQ, fl, issued>>, TableRecords' = TableRecords,
         NEW X \in SUBSET Waiting(cl[c]), mt' \in {mt \cup X, {}},
         Waiting(r) \subseteq Waiting(cl[c]) \ X, Later(Waiting(r), Waiting(cl[c]) \ Waiting(r)),
         InSeqOrder(r),
         \A i \in Pending(r) : \/ i \in Pending(cl[c]) /\ r.tasks[i] = cl[c].tasks[i]
                               \/ mt' = {} /\ r.tasks[i].mt = mt \cup X /\ Largest(i, Pending(r))
  PROVE  MemOrder'
<1>1. \A d \in Clients : cl'[d] = IF d = c THEN r ELSE Idle
  BY DEF Become, TypeInv, CallTypes
<1>2. Inserted = issued \ Waiting(cl[c]) /\ Inserted' = issued \ Waiting(r)
  BY <1>1, IdleCall DEF Inserted
<1>3. \A q \in Inserted, p \in Waiting(cl[c]) : q.seq < p.seq
  BY DEF MemOrder, WaitingNewest
<1>4. Held \subseteq Inserted
  BY DEF MemOrder, WaitingNewest
<1>5. \A t \in FrozenTasks : t.mt \subseteq Held
  BY DEF Held
<1>6. \A t \in FrozenTasks' : t \in FrozenTasks \/ (mt' = {} /\ t.mt = mt \cup X)
  <2> SUFFICES ASSUME NEW t \in FrozenTasks' PROVE t \in FrozenTasks \/ (mt' = {} /\ t.mt = mt \cup X)
    OBVIOUS
  <2>1. Frozen(t)'
    BY FrozenParts
  <2>2. CASE \E d \in Clients : \E i \in Pending(cl'[d]) : t = cl'[d].tasks[i]
    <3>1. \E i \in Pending(r) : t = r.tasks[i]
      BY <1>1, <2>2, IdleCall
    <3> QED
      BY <3>1, FrozenParts DEF Frozen
  <2>3. CASE (\E i \in 1..Len(flushQ') : t = flushQ'[i]) \/ (Busy' /\ t = fl'.task)
    BY <2>3, FrozenParts DEF Frozen, Busy
  <2> QED
    BY <2>1, <2>2, <2>3 DEF Frozen
<1>7. Later(mt \cup X, TableRecords) /\ \A t \in FrozenTasks : Later(mt \cup X, t.mt)
  <2>1. Later(X, Held)
    BY <1>3, <1>4 DEF Later
  <2> QED
    BY <1>5, <2>1 DEF MemOrder, FrozenOrder, Later, Held
<1>8. FrozenOrder'
  <2>1. Later(mt', TableRecords)
    BY <1>7 DEF Later
  <2>2. ASSUME NEW t \in FrozenTasks' PROVE Later(t.mt, TableRecords) /\ Later(mt', t.mt)
    BY <1>6, <1>7 DEF Later, MemOrder, FrozenOrder
  <2> QED
    BY <2>1, <2>2 DEF FrozenOrder, Later
<1>9. /\ \A i \in Pending(cl[c]) : cl[c].tasks[i] \in FrozenTasks
      /\ \A i \in 1..Len(flushQ) : flushQ[i] \in FrozenTasks
      /\ Busy => fl.task \in FrozenTasks
  BY FrozenParts DEF Frozen
<1>10. TasksInOrder'
  <2>1. QueueInOrder'
    BY DEF MemOrder, TasksInOrder, QueueInOrder, Busy
  <2>2. ASSUME NEW i \in Pending(r)
        PROVE  /\ \A j \in Pending(r) : i < j => Later(r.tasks[j].mt, r.tasks[i].mt)
               /\ \A j \in 1..Len(flushQ) : Later(r.tasks[i].mt, flushQ[j].mt)
               /\ Busy => Later(r.tasks[i].mt, fl.task.mt)
    BY <1>7, <1>9 DEF MemOrder, TasksInOrder, CallInOrder, Largest
  <2>3. \A d \in Clients : CallInOrder(cl[d])'
    BY <1>1, <2>2, IdleCall DEF CallInOrder, Busy
  <2> QED
    BY <2>1, <2>3 DEF TasksInOrder
<1>11. Held' \subseteq Held \cup X
  BY <1>6 DEF Held
<1>12. WaitingNewest'
  <2>1. Held' \subseteq Inserted'
    <3>1. X \subseteq issued
      <4>1. Waiting(cl[c]) \subseteq issued
        <5>1. cl[c].recs \in Seq(issued) /\ cl[c].i \in Nat /\ CallShape(cl[c])
          BY DEF TypeInv, CallTypes, Calls
        <5> QED
          BY <5>1 DEF Waiting, CallShape
      <4> QED
        BY <4>1
    <3> QED
      BY <1>2, <1>4, <1>11, <3>1
  <2>2. \A p \in Waiting(r) : \A q \in Inserted' : q.seq < p.seq
    BY <1>2, <1>3 DEF Later
  <2>3. \A d \in Clients : \A p \in Waiting(cl'[d]) : \A q \in Inserted' : q.seq < p.seq
    BY <1>1, <2>2, IdleCall
  <2>4. \A d \in Clients : InSeqOrder(cl'[d])
    <3>1. InSeqOrder(Idle)
      BY IdleCall DEF InSeqOrder
    <3> QED
      BY <1>1, <3>1
  <2> QED
    BY <2>1, <2>3, <2>4 DEF WaitingNewest
<1> QED
  BY <1>8, <1>10, <1>12 DEF MemOrder

\* The calls that do not move are between calls.
LEMMA OthersIdle ==
  ASSUME TypeInv, OneCall, OneCall', NEW c \in Clients, NEW r, Become(c, r), cl[c] # Idle \/ r # Idle
  PROVE  \A d \in Clients : d # c => cl[d] = Idle
<1>1. \A d \in Clients : cl'[d] = IF d = c THEN r ELSE cl[d]
  BY DEF Become, TypeInv, CallTypes
<1> QED
  BY <1>1 DEF OneCall

\* A step of the only call that leaves the memtable and all tables alone.
LEMMA CallWaits ==
  ASSUME TypeInv, TypeInv', FirstRun, NoReplay', TreeOrder, MemOrder, NEW c \in Clients,
         \A d \in Clients : d # c => cl[d] = Idle, NEW r, Become(c, r),
         Pending(r) = {}, Writing(r) => Writing(cl[c]) /\ r.recs = cl[c].recs /\ r.i = cl[c].i,
         UNCHANGED <<levels, job, files, flushQ, fl, mt, issued>>
  PROVE  TreeOrder' /\ MemOrder'
<1>1. TreeOrder' /\ TableRecords' = TableRecords
  BY OrderFrame DEF KeepsFiles
<1>2. Waiting(r) = {} \/ Waiting(r) = Waiting(cl[c])
  BY DEF Waiting, Writing
<1>3. InSeqOrder(r)
  BY DEF MemOrder, WaitingNewest, InSeqOrder
<1>4. PICK X : X = {}
  OBVIOUS
<1>5. X \in SUBSET Waiting(cl[c]) /\ mt' \in {mt \cup X, {}} /\ Waiting(r) \subseteq Waiting(cl[c]) \ X
      /\ Later(Waiting(r), Waiting(cl[c]) \ Waiting(r))
  BY <1>2, <1>4 DEF Later
<1>6. NoReplay
  BY DEF FirstRun
<1>7. MemOrder'
  BY <1>1, <1>3, <1>5, <1>6, CallMoves
<1> QED
  BY <1>1, <1>7

\* The memtable becomes m and stays; or it is frozen, as the last task of the call.
Grows(call, r, m) ==
  /\ mt' = m /\ UNCHANGED <<immt, wal, closedWals, nextFileNum>>
  /\ Pending(r) = Pending(call) /\ \A i \in Pending(r) : r.tasks[i] = call.tasks[i]
Freezes(call, r, m) ==
  /\ mt' = {} /\ immt' = {m} /\ nextFileNum' = TableNum + 1 /\ closedWals' = closedWals
  /\ wal' = IF CrashRecovery THEN nextFileNum ELSE wal
  /\ \E n : /\ n \notin Pending(call) /\ Pending(r) = Pending(call) \cup {n}
            /\ Largest(n, Pending(r)) /\ r.tasks[n] = RotateTask(m)
            /\ \A i \in Pending(call) : r.tasks[i] = call.tasks[i]

\* What inserting a record does: it leaves the records that wait for the memtable, and
\* a full memtable becomes the last of the call's tasks.
LEMMA Insertion ==
  ASSUME TypeInv, FirstRun, MemOrder, NEW c \in Clients, Apply(c)
  PROVE  \E r, x, m :
    /\ cl[c].pc = "apply" /\ Become(c, r) /\ x \in Waiting(cl[c]) /\ m = mt \cup {x}
    /\ UNCHANGED <<flushQ, fl, job, rv, issued, starts, phase, levels>>
    /\ KeepsFiles({PathOf(t) : t \in Listed}) /\ (job.pc = "install" => KeepsFiles(Paths(job.outs)))
    /\ acked' = acked \/ (r = Idle /\ acked' = acked \cup ToSet(cl[c].recs))
    /\ \/ r = Idle /\ faults' # faults /\ mt' \in {m, {}}
       \/ /\ faults' = faults \/ CrashRecovery
          /\ Waiting(r) = Waiting(cl[c]) \ {x} /\ Later(Waiting(r), {x})
          /\ Writing(r) => r.recs = cl[c].recs /\ r.i = cl[c].i + 1
          /\ Grows(cl[c], r, m) \/ Freezes(cl[c], r, m)
<1> USE DEF ctlVars, memVars, walVars, vsVars, compVars, histVars
<1> DEFINE call == cl[c]
           x    == call.recs[call.i]
           m    == mt \cup {x}
           full == Cardinality(m) >= MemtableSize
           last == call.i = Len(call.recs)
           tasks == IF full THEN Append(call.tasks, RotateTask(m)) ELSE call.tasks
           r1 == [call EXCEPT !.i = @ + 1, !.tasks = tasks]
           r2 == [call EXCEPT !.pc = "send", !.i = 1, !.tasks = tasks]
<1>1. PICK fault \in Faults(RotateFaults) :
        /\ call.pc = "apply" /\ Count(fault) /\ (~full => fault = "none")
        /\ IF full THEN rotate(m, fault)
           ELSE mt' = m /\ UNCHANGED <<immt, walVars, vsVars, nextFileNum, files>>
        /\ Become(c, IF fault \in {"wal", "table"} THEN Idle
                     ELSE IF ~last THEN r1 ELSE IF tasks = <<>> THEN Idle ELSE r2)
        /\ acked' = IF fault \in {"wal", "table"} THEN AckedOnError(call)
                    ELSE IF last /\ tasks = <<>> THEN acked \cup ToSet(call.recs) ELSE acked
        /\ UNCHANGED <<ctlVars, seqNum, flushQ, fl, compVars, snaps, rv, issued>>
  BY Zenon DEF Apply
<1>2. call \in Calls(issued) /\ CallShape(call) /\ IsUp
  BY <1>1, UpFacts DEF TypeInv, CallTypes
<1>3. call.recs \in Seq(issued) /\ call.i \in 1..Len(call.recs) /\ mt \subseteq issued /\ call.tasks \in Seq(Tasks(issued))
  BY <1>1, <1>2 DEF Calls, CallShape, TypeInv, MemTypes
<1>4. m \in (SUBSET issued) \ {{}}
  BY <1>3
<1>5. x \in Waiting(call)
  BY <1>1, <1>3 DEF Waiting
<1>6. /\ UNCHANGED <<flushQ, fl, job, rv, issued, starts, phase, levels>>
      /\ KeepsFiles({PathOf(t) : t \in Listed}) /\ (job.pc = "install" => KeepsFiles(Paths(job.outs)))
  <2> HIDE DEF m, full, last, tasks, call, r1, r2
  <2>1. UNCHANGED <<flushQ, fl, job, rv, issued, starts, phase>>
    BY <1>1
  <2>2. CASE full
    BY <1>1, <1>2, <1>4, <2>1, <2>2, RotateKeeps
  <2>3. CASE ~full
    BY <1>1, <2>1, <2>3 DEF KeepsFiles
  <2> QED
    BY <2>1, <2>2, <2>3
<1>7. PICK r : /\ Become(c, r) /\ (acked' = acked \/ (r = Idle /\ acked' = acked \cup ToSet(call.recs)))
               /\ \/ fault \in {"wal", "table"} /\ r = Idle
                  \/ fault \notin {"wal", "table"} /\ ~last /\ r = r1
                  \/ fault \notin {"wal", "table"} /\ last /\ tasks = <<>> /\ r = Idle
                  \/ fault \notin {"wal", "table"} /\ last /\ tasks # <<>> /\ r = r2
  <2>1. AckedOnError(call) \in {acked, acked \cup ToSet(call.recs)}
    BY DEF AckedOnError
  <2> HIDE DEF m, full, last, tasks, call, r1, r2
  <2> QED
    BY <1>1, <2>1
<1>8. faults \in Nat
  BY DEF TypeInv, Counters
<1>9. CASE fault \in {"wal", "table"}
  <2>1. faults' # faults
    BY <1>1, <1>8, <1>9 DEF Count
  <2>2. full
    BY <1>1, <1>9
  <2>3. mt' \in {m, {}}
    <3> HIDE DEF m, full, last, tasks, call, r1, r2
    <3> QED
      BY <1>1, <2>2 DEF rotate
  <2>4. r = Idle
    BY <1>7, <1>9
  <2> HIDE DEF m, x, full, last, tasks, r1, r2
  <2> QED
    BY <1>1, <1>5, <1>6, <1>7, <2>1, <2>3, <2>4 DEF m
<1>10. CASE fault \notin {"wal", "table"}
  <2>1. /\ r1.pc = "apply" /\ r1.tasks = tasks /\ r1.recs = call.recs /\ r1.i = call.i + 1
        /\ r2.pc = "send" /\ r2.i = 1 /\ r2.tasks = tasks
    <3> HIDE DEF tasks
    <3> QED
      BY <1>1, <1>2 DEF Calls
  <2>2. Pending(call) = 1..Len(call.tasks)
    BY <1>1 DEF Pending
  <2>3. Pending(r) = 1..Len(tasks) /\ r.tasks = tasks
    <3> HIDE DEF m, x, full, last, tasks, r1, r2
    <3>1. CASE r = Idle /\ tasks = <<>>
      <4>1. Idle.tasks = <<>> /\ Len(tasks) = 0 /\ 1..0 = {}
        BY <3>1 DEF Idle
      <4> QED
        BY <3>1, <4>1, IdleCall
    <3>2. CASE r = r1 \/ r = r2
      BY <2>1, <3>2 DEF Pending
    <3> QED
      BY <1>7, <1>10, <3>1, <3>2
  <2>4. \A i, j \in call.i..Len(call.recs) : i < j => call.recs[i].seq < call.recs[j].seq
    BY <1>1 DEF MemOrder, WaitingNewest, Writing, InSeqOrder
  <2>5. \A j \in (call.i + 1)..Len(call.recs) : x.seq < call.recs[j].seq /\ call.recs[j] \in issued
    BY <1>3, <2>4
  <2>6. Waiting(call) = {call.recs[j] : j \in call.i..Len(call.recs)}
    BY <1>1 DEF Waiting
  <2>7. x \in issued /\ x.seq \in Nat
    BY <1>3, RecordFields
  <2>8. Waiting(r) = Waiting(call) \ {x} /\ Later(Waiting(r), {x})
    <3>1. CASE last
      <4>1. Waiting(r) = {}
        <5>1. r # r1 => r = Idle \/ r = r2
          BY <1>7
        <5>2. r = Idle \/ r = r2
          BY <1>7, <1>9, <1>10, <3>1
        <5> HIDE DEF m, x, full, last, tasks, r1, r2
        <5> QED
          BY <2>1, <5>2, IdleCall DEF Waiting
      <4>2. call.i..Len(call.recs) = {call.i}
        BY <1>3, <3>1
      <4>3. Waiting(call) = {x}
        BY <2>6, <4>2
      <4> QED
        BY <4>1, <4>3 DEF Later
    <3>2. CASE ~last
      <4>1. r = r1
        BY <1>7, <1>10, <3>2
      <4>2. Waiting(r) = {call.recs[j] : j \in (call.i + 1)..Len(call.recs)}
        <5> HIDE DEF m, x, full, last, tasks, r1, r2
        <5> QED
          BY <2>1, <4>1 DEF Waiting
      <4>3. \A j \in (call.i + 1)..Len(call.recs) : call.recs[j] # x
        BY <2>5, <2>7
      <4>4. call.i..Len(call.recs) = {call.i} \cup ((call.i + 1)..Len(call.recs))
        BY <1>3
      <4>5. Waiting(r) \subseteq Waiting(call) \ {x}
        <5> HIDE DEF x
        <5> QED
          BY <2>6, <4>2, <4>3, <4>4
      <4>6. Waiting(call) \ {x} \subseteq Waiting(r)
        BY <2>6, <4>2, <4>4
      <4>7. Later(Waiting(r), {x})
        BY <2>5, <4>2 DEF Later
      <4> QED
        BY <4>5, <4>6, <4>7
    <3> QED
      BY <3>1, <3>2
  <2>9. Writing(r) => r.recs = call.recs /\ r.i = call.i + 1
    <3> HIDE DEF m, x, full, last, tasks, r1, r2
    <3> QED
      BY <1>7, <1>10, <2>1, IdleCall DEF Writing
  <2>10. faults' = faults \/ CrashRecovery
    BY <1>1, <1>10 DEF Count, Faults, RotateFaults
  <2>11. CASE ~full
    <3>1. tasks = call.tasks
      BY <2>11
    <3>2. mt' = m /\ UNCHANGED <<immt, wal, closedWals, nextFileNum>>
      BY <1>1, <2>11
    <3>3. Pending(r) = Pending(call) /\ \A i \in Pending(r) : r.tasks[i] = call.tasks[i]
      BY <2>2, <2>3, <3>1
    <3> HIDE DEF m, x, full, last, tasks, r1, r2
    <3>4. Grows(call, r, m)
      BY <3>2, <3>3 DEF Grows
    <3> QED
      BY <1>1, <1>5, <1>6, <1>7, <2>8, <2>9, <2>10, <3>4 DEF m
  <2>12. CASE full
    <3>1. tasks = Append(call.tasks, RotateTask(m))
      BY <2>12
    <3>2. /\ mt' = {} /\ immt' = {m} /\ nextFileNum' = TableNum + 1 /\ closedWals' = closedWals
          /\ wal' = IF CrashRecovery THEN nextFileNum ELSE wal
      <4> HIDE DEF m, x, full, last, tasks, r1, r2
      <4> QED
        BY <1>1, <1>10, <2>12 DEF rotate
    <3> HIDE DEF m, x, full, last, tasks, r1, r2
    <3>3. PICK n : n = Len(call.tasks) + 1
      OBVIOUS
    <3>4. Len(tasks) = n /\ tasks[n] = RotateTask(m) /\ \A i \in 1..Len(call.tasks) : tasks[i] = call.tasks[i]
      BY <1>3, <3>1, <3>3
    <3>5. n \notin 1..Len(call.tasks) /\ 1..n = 1..Len(call.tasks) \cup {n} /\ \A i \in 1..n : ~(n < i)
      BY <1>3, <3>3
    <3>6. /\ n \notin Pending(call) /\ Pending(r) = Pending(call) \cup {n}
          /\ Largest(n, Pending(r)) /\ r.tasks[n] = RotateTask(m)
          /\ \A i \in Pending(call) : r.tasks[i] = call.tasks[i]
      BY <2>2, <2>3, <3>4, <3>5 DEF Largest
    <3>7. Freezes(call, r, m)
      BY <3>2, <3>6 DEF Freezes
    <3> QED
      BY <1>1, <1>5, <1>6, <1>7, <2>8, <2>9, <2>10, <3>7 DEF m
  <2> QED
    BY <2>11, <2>12
<1> QED
  BY <1>9, <1>10

\* What Sync and Close do with the memtable: one that holds anything is frozen.
LEMMA Rotation ==
  ASSUME TypeInv, FirstRun, NEW c \in Clients, RotateForSync(c)
  PROVE  \E r :
    /\ cl[c].pc = "rotate" /\ Become(c, r) /\ ~Writing(r) /\ Waiting(cl[c]) = {} /\ Pending(cl[c]) = {}
    /\ UNCHANGED <<flushQ, fl, job, rv, issued, acked, starts, levels>>
    /\ KeepsFiles({PathOf(t) : t \in Listed}) /\ (job.pc = "install" => KeepsFiles(Paths(job.outs)))
    /\ \/ mt' = mt /\ Pending(r) = {} /\ faults' = faults /\ UNCHANGED <<immt, wal, closedWals, nextFileNum, phase>>
       \/ r = Idle /\ faults' # faults /\ mt' \in {mt, {}} /\ phase' = "up"
       \/ mt # {} /\ phase' = phase /\ r.op = cl[c].op /\ (faults' = faults \/ CrashRecovery) /\ Freezes(cl[c], r, mt)
<1> USE DEF ctlVars, memVars, walVars, vsVars, compVars, histVars
<1> DEFINE call == cl[c]
           r1 == [call EXCEPT !.pc = "wait"]
           r2 == [call EXCEPT !.pc = "send", !.tasks = <<RotateTask(mt)>>]
<1>1. PICK fault \in Faults(RotateFaults) :
        /\ call.pc = "rotate" /\ Count(fault)
        /\ mt = {} => fault = "none"
        /\ \/ /\ mt = {} /\ (Become(c, Idle) \/ Become(c, r1))
              /\ UNCHANGED <<phase, memVars, walVars, vsVars, nextFileNum, files>>
           \/ /\ mt # {} /\ rotate(mt, fault)
              /\ \/ fault \in {"wal", "table"} /\ Become(c, Idle) /\ phase' = "up"
                 \/ fault \notin {"wal", "table"} /\ Become(c, r2) /\ UNCHANGED phase
        /\ UNCHANGED <<starts, flushQ, fl, job, rv, issued, acked>>
  BY DEF RotateForSync
<1>2. call \in Calls(issued) /\ CallShape(call) /\ IsUp /\ faults \in Nat
  BY <1>1, UpFacts DEF TypeInv, CallTypes, Counters
<1>3. Waiting(call) = {} /\ Pending(call) = {}
  BY <1>1 DEF Waiting, Pending
<1>4. /\ r1.pc = "wait" /\ r2.pc = "send" /\ r2.i = 1 /\ r2.tasks = <<RotateTask(mt)>> /\ r2.op = call.op
      /\ r1.op = call.op
  BY <1>1, <1>2 DEF Calls, CallShape
<1> HIDE DEF r1, r2
<1>5. CASE /\ mt = {} /\ (Become(c, Idle) \/ Become(c, r1))
           /\ UNCHANGED <<phase, memVars, walVars, vsVars, nextFileNum, files>>
  <2>1. PICK r : Become(c, r) /\ Pending(r) = {} /\ ~Writing(r)
    <3>1. Pending(r1) = {} /\ ~Writing(r1)
      BY <1>4 DEF Pending, Writing
    <3> QED
      BY <1>5, <3>1, IdleCall
  <2>2. faults' = faults
    BY <1>1, <1>5 DEF Count
  <2> QED
    BY <1>1, <1>3, <1>5, <2>1, <2>2 DEF KeepsFiles
<1>6. CASE /\ mt # {} /\ rotate(mt, fault)
           /\ \/ fault \in {"wal", "table"} /\ Become(c, Idle) /\ phase' = "up"
              \/ fault \notin {"wal", "table"} /\ Become(c, r2) /\ UNCHANGED phase
  <2>1. mt \in (SUBSET issued) \ {{}}
    BY <1>6 DEF TypeInv, MemTypes
  <2>2. /\ levels' = levels /\ KeepsFiles({PathOf(t) : t \in Listed})
        /\ job.pc = "install" => KeepsFiles(Paths(job.outs))
    BY <1>1, <1>2, <1>6, <2>1, RotateKeeps
  <2>3. CASE fault \in {"wal", "table"}
    <3>1. faults' # faults
      BY <1>1, <1>2, <2>3 DEF Count
    <3>2. mt' \in {mt, {}}
      BY <1>6 DEF rotate
    <3> QED
      BY <1>1, <1>3, <1>6, <2>2, <2>3, <3>1, <3>2, IdleCall
  <2>4. CASE fault \notin {"wal", "table"}
    <3>1. /\ mt' = {} /\ immt' = {mt} /\ nextFileNum' = TableNum + 1 /\ closedWals' = closedWals
          /\ wal' = IF CrashRecovery THEN nextFileNum ELSE wal
      BY <1>6, <2>4 DEF rotate
    <3>2. Pending(r2) = {1} /\ r2.tasks[1] = RotateTask(mt) /\ ~Writing(r2)
      <4>1. Len(r2.tasks) = 1 /\ r2.tasks[1] = RotateTask(mt)
        BY <1>4
      <4> QED
        BY <1>4, <4>1 DEF Pending, Writing
    <3>3. Freezes(call, r2, mt)
      BY <1>3, <3>1, <3>2 DEF Freezes, Largest
    <3>4. faults' = faults \/ CrashRecovery
      BY <1>1, <2>4 DEF Count, Faults, RotateFaults
    <3>5. PICK r : r = r2
      OBVIOUS
    <3> QED
      BY <1>1, <1>3, <1>4, <1>6, <2>2, <2>4, <3>2, <3>3, <3>4, <3>5
  <2> QED
    BY <2>3, <2>4
<1> QED
  BY <1>1, <1>5, <1>6

\* The order of everything, after the steps of the only call.
LEMMA ApplyOrder ==
  ASSUME TypeInv, TypeInv', FirstRun, NoReplay', TreeOrder, MemOrder, NEW c \in Clients,
         \A d \in Clients : d # c => cl[d] = Idle, Apply(c)
  PROVE  TreeOrder' /\ MemOrder'
<1>1. PICK r, x, m :
        /\ cl[c].pc = "apply" /\ Become(c, r) /\ x \in Waiting(cl[c]) /\ m = mt \cup {x}
        /\ UNCHANGED <<flushQ, fl, job, rv, issued, starts, phase, levels>>
        /\ KeepsFiles({PathOf(t) : t \in Listed}) /\ (job.pc = "install" => KeepsFiles(Paths(job.outs)))
        /\ \/ r = Idle /\ faults' # faults /\ mt' \in {m, {}}
           \/ /\ Waiting(r) = Waiting(cl[c]) \ {x} /\ Later(Waiting(r), {x})
              /\ Writing(r) => r.recs = cl[c].recs /\ r.i = cl[c].i + 1
              /\ Grows(cl[c], r, m) \/ Freezes(cl[c], r, m)
  BY Insertion
<1>2. TreeOrder' /\ TableRecords' = TableRecords
  BY <1>1, OrderFrame
<1>3. PICK X : X = {x}
  OBVIOUS
<1>4. NoReplay /\ X \in SUBSET Waiting(cl[c]) /\ m = mt \cup X
  BY <1>1, <1>3 DEF FirstRun
<1>5. CASE r = Idle /\ faults' # faults /\ mt' \in {m, {}}
  <2>1. Later(Waiting(r), Waiting(cl[c]) \ Waiting(r))
    BY <1>5, IdleCall DEF Later
  <2> QED
    BY <1>1, <1>2, <1>4, <1>5, <2>1, IdleCall, CallMoves DEF InSeqOrder
<1>6. CASE /\ Waiting(r) = Waiting(cl[c]) \ {x} /\ Later(Waiting(r), {x})
           /\ Writing(r) => r.recs = cl[c].recs /\ r.i = cl[c].i + 1
           /\ Grows(cl[c], r, m) \/ Freezes(cl[c], r, m)
  <2>1. Waiting(r) \subseteq Waiting(cl[c]) \ X /\ Later(Waiting(r), Waiting(cl[c]) \ Waiting(r))
    BY <1>3, <1>6 DEF Later
  <2>2. InSeqOrder(r)
    <3>1. cl[c].i \in Nat
      BY DEF TypeInv, CallTypes, Calls
    <3>2. \A i, j \in cl[c].i..Len(cl[c].recs) : i < j => cl[c].recs[i].seq < cl[c].recs[j].seq
      BY <1>1 DEF MemOrder, WaitingNewest, Writing, InSeqOrder
    <3>3. \A i \in (cl[c].i + 1)..Len(cl[c].recs) : i \in cl[c].i..Len(cl[c].recs)
      BY <3>1
    <3> QED
      BY <1>6, <3>2, <3>3 DEF InSeqOrder
  <2>3. \A i \in Pending(r) : \/ i \in Pending(cl[c]) /\ r.tasks[i] = cl[c].tasks[i]
                              \/ mt' = {} /\ r.tasks[i].mt = m /\ Largest(i, Pending(r))
    BY <1>6 DEF Grows, Freezes, RotateTask, Task
  <2>4. mt' \in {m, {}}
    BY <1>6 DEF Grows, Freezes
  <2> QED
    <3>1. Become(c, r) /\ UNCHANGED <<flushQ, fl, issued>> /\ mt' \in {mt \cup X, {}}
      BY <1>1, <1>4, <2>4
    <3>2. \A i \in Pending(r) : \/ i \in Pending(cl[c]) /\ r.tasks[i] = cl[c].tasks[i]
                                \/ mt' = {} /\ r.tasks[i].mt = mt \cup X /\ Largest(i, Pending(r))
      BY <1>4, <2>3
    <3>3. MemOrder'
      BY <1>2, <1>4, <2>1, <2>2, <3>1, <3>2, CallMoves
    <3> QED
      BY <1>2, <3>3
<1> QED
  BY <1>1, <1>5, <1>6

\* Sync and Close.
LEMMA RotateForSyncOrder ==
  ASSUME TypeInv, TypeInv', FirstRun, NoReplay', TreeOrder, MemOrder, NEW c \in Clients,
         \A d \in Clients : d # c => cl[d] = Idle, RotateForSync(c)
  PROVE  TreeOrder' /\ MemOrder'
<1>1. PICK r :
        /\ cl[c].pc = "rotate" /\ Become(c, r) /\ ~Writing(r) /\ Waiting(cl[c]) = {} /\ Pending(cl[c]) = {}
        /\ UNCHANGED <<flushQ, fl, job, rv, issued, acked, starts, levels>>
        /\ KeepsFiles({PathOf(t) : t \in Listed}) /\ (job.pc = "install" => KeepsFiles(Paths(job.outs)))
        /\ \/ mt' = mt /\ Pending(r) = {}
           \/ r = Idle /\ mt' \in {mt, {}}
           \/ Freezes(cl[c], r, mt)
  BY Rotation
<1>2. TreeOrder' /\ TableRecords' = TableRecords
  BY <1>1, OrderFrame
<1>3. PICK X : X = {}
  OBVIOUS
<1>4. /\ NoReplay /\ X \in SUBSET Waiting(cl[c]) /\ mt' \in {mt \cup X, {}}
      /\ Waiting(r) \subseteq Waiting(cl[c]) \ X /\ Later(Waiting(r), Waiting(cl[c]) \ Waiting(r))
  <2>1. Waiting(r) = {}
    BY <1>1 DEF Waiting, Writing
  <2> QED
    BY <1>1, <1>3, <2>1 DEF FirstRun, Later, Freezes
<1>5. \A i \in Pending(r) : \/ i \in Pending(cl[c]) /\ r.tasks[i] = cl[c].tasks[i]
                            \/ mt' = {} /\ r.tasks[i].mt = mt \cup X /\ Largest(i, Pending(r))
  BY <1>1, <1>3, IdleCall DEF Freezes, RotateTask, Task
<1>6. Become(c, r) /\ InSeqOrder(r) /\ UNCHANGED <<flushQ, fl, issued>>
  BY <1>1 DEF InSeqOrder
<1>7. MemOrder'
  BY <1>2, <1>4, <1>5, <1>6, CallMoves
<1> QED
  BY <1>2, <1>7

\* A call that writes begins: its records have larger numbers than all before.
LEMMA StartOrder ==
  ASSUME TypeInv, TypeInv', FirstRun, NoReplay', NumberedInOrder, TreeOrder, MemOrder, NEW c \in Clients,
         \A d \in Clients : d # c => cl[d] = Idle, Put(c) \/ Delete(c) \/ WriteBatch(c)
  PROVE  TreeOrder' /\ MemOrder' /\ FrozenTasks' = FrozenTasks /\ Inserted' = Inserted /\ TableRecords' = TableRecords
<1> USE DEF ctlVars, memVars, walVars, vsVars, compVars, histVars
<1>1. PICK n \in Nat \ {0} : \E ks \in [1..n -> Keys], ds \in [1..n -> BOOLEAN] : Starts(c, ks, ds)
  BY WriteStarts
<1>2. PICK ks \in [1..n -> Keys], ds \in [1..n -> BOOLEAN] : Starts(c, ks, ds)
  BY <1>1
<1>3. PICK op \in {"write", "batch"}, pc \in {"stall", "log", "apply"} : Start(c, op, pc, NewRecords(ks, ds))
  BY <1>2 DEF Starts
<1>4. PICK recs : recs = NewRecords(ks, ds)
  OBVIOUS
<1>5. PICK r : r = [Idle EXCEPT !.op = op, !.pc = pc, !.recs = recs]
  OBVIOUS
<1>6. /\ phase = "up" /\ cl[c] = Idle /\ Cardinality(issued) + Len(recs) <= MaxWrites
      /\ issued' = issued \cup ToSet(recs) /\ Become(c, r)
      /\ UNCHANGED <<levels, job, files, flushQ, fl, mt>>
  BY <1>3, <1>4, <1>5 DEF Start
<1>7. r.pc = pc /\ r.recs = recs /\ r.i = 1 /\ r.tasks = <<>>
  BY <1>5 DEF Idle
<1>8. History /\ IsUp
  BY <1>6 DEF TypeInv, IsUp
<1>9. recs \in Seq(issued \cup ToSet(recs)) /\ Len(recs) = n
  BY <1>4, <1>6, <1>8, NewIssued
<1>10. \A i \in 1..n : recs[i].seq = seqNum + i /\ recs[i].val = Cardinality(issued) + i
  <2>1. Len(ks) = n
    OBVIOUS
  <2> QED
    BY <1>4, <2>1 DEF NewRecords
<1>11. /\ Cardinality(issued) \in Nat /\ seqNum = Cardinality(issued)
       /\ \A q \in issued : q.seq \in Nat /\ q.seq <= Cardinality(issued)
  BY <1>8, RecordFields, FS_CardinalityType DEF History, NumberedInOrder
<1>12. Waiting(r) = ToSet(recs) /\ ToSet(recs) = {recs[i] : i \in 1..n}
  BY <1>7, <1>9 DEF Waiting, ToSet
<1>13. \A p \in Waiting(r), q \in issued : q.seq < p.seq
  BY <1>10, <1>11, <1>12
<1>14. Waiting(r) \cap issued = {}
  <2> SUFFICES ASSUME NEW p \in Waiting(r), p \in issued PROVE FALSE
    OBVIOUS
  <2>1. p.seq \in Nat /\ p.seq < p.seq
    BY <1>11, <1>13
  <2> QED
    BY <2>1
<1>15. InSeqOrder(r)
  BY <1>7, <1>9, <1>10, <1>11 DEF InSeqOrder
<1>16. Pending(r) = {}
  BY <1>7 DEF Pending
<1>17. \A d \in Clients : cl[d] = Idle /\ cl'[d] = IF d = c THEN r ELSE Idle
  BY <1>6 DEF Become, TypeInv, CallTypes
<1>18. Inserted = issued /\ Inserted' = issued
  <2>1. Inserted = issued
    BY <1>17, IdleCall DEF Inserted
  <2>2. UNION {Waiting(cl[d])' : d \in Clients} = Waiting(r)
    BY <1>17, IdleCall
  <2>3. Inserted' = issued' \ Waiting(r)
    BY <2>2 DEF Inserted
  <2> QED
    BY <1>6, <1>12, <1>14, <2>1, <2>3
<1>19. TreeOrder' /\ TableRecords' = TableRecords
  BY <1>6, OrderFrame DEF KeepsFiles
<1>20. FrozenTasks' = FrozenTasks
  <2>1. \A t : Frozen(t)' <=> Frozen(t)
    BY <1>6, <1>16, <1>17, IdleCall DEF Frozen, Busy
  <2>2. NoReplay
    BY DEF FirstRun
  <2> QED
    BY <2>1, <2>2, FrozenParts
<1>21. TasksInOrder'
  <2>1. QueueInOrder'
    BY <1>6 DEF MemOrder, TasksInOrder, QueueInOrder, Busy
  <2>2. \A d \in Clients : CallInOrder(cl[d])'
    BY <1>16, <1>17, IdleCall DEF CallInOrder
  <2> QED
    BY <2>1, <2>2 DEF TasksInOrder
<1>22. FrozenOrder'
  BY <1>6, <1>19, <1>20 DEF MemOrder, FrozenOrder
<1>23. WaitingNewest'
  <2>1. Held' = Held
    BY <1>6, <1>19, <1>20 DEF Held
  <2>2. \A d \in Clients : InSeqOrder(cl'[d])
    <3>1. InSeqOrder(Idle)
      BY IdleCall DEF InSeqOrder
    <3> QED
      BY <1>15, <1>17, <3>1
  <2>3. \A d \in Clients : \A p \in Waiting(cl'[d]) : \A q \in Inserted' : q.seq < p.seq
    BY <1>13, <1>17, <1>18, IdleCall
  <2>4. Held' \subseteq Inserted'
    BY <1>18, <2>1 DEF MemOrder, WaitingNewest
  <2> QED
    BY <2>2, <2>3, <2>4 DEF WaitingNewest
<1> QED
  BY <1>18, <1>19, <1>20, <1>21, <1>22, <1>23 DEF MemOrder

\* The steps of a call up to the memtable, and the beginning and end of Sync and Close.
LEMMA WaitOrder ==
  ASSUME TypeInv, TypeInv', FirstRun, NoReplay', TreeOrder, MemOrder, NEW c \in Clients, OneCall, OneCall',
         Stall(c) \/ ReadWal(c) \/ AppendWal(c) \/ Sync(c) \/ Close(c) \/ SyncReturn(c)
  PROVE  TreeOrder' /\ MemOrder'
<1> USE DEF ctlVars, memVars, walVars, vsVars, compVars, histVars
<1>1. cl[c] \in Calls(issued) /\ CallShape(cl[c])
  BY DEF TypeInv, CallTypes
<1>2. UNCHANGED <<levels, job, files, flushQ, fl, mt, issued>>
  BY DEF Stall, ReadWal, AppendWal, Sync, Close, SyncReturn
<1>3. PICK r : /\ Become(c, r) /\ Pending(r) = {}
               /\ Writing(r) => Writing(cl[c]) /\ r.recs = cl[c].recs /\ r.i = cl[c].i
               /\ cl[c] # Idle \/ r = Idle \/ r.pc = "rotate"
  <2>1. CASE Stall(c) \/ ReadWal(c) \/ AppendWal(c)
    <3>1. PICK p \in {"apply", "log", "append"}, w \in {wal, cl[c].wal} :
            Become(c, Idle) \/ Become(c, [cl[c] EXCEPT !.pc = p, !.wal = w])
      <4>1. CASE Stall(c)
        <5>1. [cl[c] EXCEPT !.pc = AfterStall] = [cl[c] EXCEPT !.pc = AfterStall, !.wal = cl[c].wal]
          BY <1>1 DEF Calls
        <5>2. AfterStall \in {"apply", "log", "append"}
          BY DEF AfterStall
        <5> QED
          BY <4>1, <5>1, <5>2 DEF Stall
      <4>2. CASE ReadWal(c)
        BY <4>2 DEF ReadWal
      <4>3. CASE AppendWal(c)
        <5>1. [cl[c] EXCEPT !.pc = "apply"] = [cl[c] EXCEPT !.pc = "apply", !.wal = cl[c].wal]
          BY <1>1 DEF Calls
        <5>2. Become(c, Idle) \/ Become(c, [cl[c] EXCEPT !.pc = "apply"])
          BY <4>3 DEF AppendWal
        <5> QED
          BY <5>1, <5>2
      <4> QED
        BY <2>1, <4>1, <4>2, <4>3
    <3>2. cl[c].pc \in {"stall", "log", "append"} /\ cl[c] # Idle
      <4>1. cl[c].pc \in {"stall", "log", "append"}
        BY <2>1 DEF Stall, ReadWal, AppendWal
      <4> QED
        BY <4>1 DEF Idle
    <3>3. PICK r : r = [cl[c] EXCEPT !.pc = p, !.wal = w]
      OBVIOUS
    <3>4. r.pc = p /\ r.recs = cl[c].recs /\ r.i = cl[c].i /\ r.tasks = <<>>
      BY <1>1, <3>2, <3>3 DEF Calls, CallShape
    <3>5. Pending(r) = {} /\ Writing(cl[c])
      BY <3>1, <3>2, <3>4 DEF Pending, Writing
    <3> QED
      BY <3>1, <3>2, <3>3, <3>4, <3>5, IdleCall
  <2>2. CASE Sync(c) \/ Close(c)
    <3>1. PICK o \in {"sync", "close"} : Become(c, Idle) \/ Become(c, [Idle EXCEPT !.op = o, !.pc = "rotate"])
      BY <2>2 DEF Sync, Close
    <3>2. PICK r : r = [Idle EXCEPT !.op = o, !.pc = "rotate"]
      OBVIOUS
    <3>3. r.pc = "rotate"
      BY <3>2 DEF Idle
    <3>4. Pending(r) = {} /\ ~Writing(r)
      BY <3>3 DEF Pending, Writing
    <3> QED
      BY <3>1, <3>2, <3>3, <3>4, IdleCall
  <2>3. CASE SyncReturn(c)
    BY <2>3, IdleCall DEF SyncReturn
  <2> QED
    BY <2>1, <2>2, <2>3
<1>4. CASE cl[c] # Idle \/ r # Idle
  <2>1. \A d \in Clients : d # c => cl[d] = Idle
    BY <1>3, <1>4, OthersIdle
  <2> QED
    BY <1>2, <1>3, <2>1, CallWaits
<1>5. CASE cl[c] = Idle /\ r = Idle
  <2>1. cl' = cl
    BY <1>3, <1>5 DEF Become, TypeInv, CallTypes
  <2>2. TreeOrder' /\ TableRecords' = TableRecords
    BY <1>2, OrderFrame DEF KeepsFiles
  <2>3. MemOrder'
    BY <1>2, <2>1, <2>2, MemoryFrame DEF FirstRun, Busy
  <2> QED
    BY <2>2, <2>3
<1> QED
  BY <1>4, <1>5

\* Sending a task: the first that is pending joins the channel.
LEMMA Sending ==
  ASSUME TypeInv, NEW c \in Clients, Send(c)
  PROVE  \E r, i :
    /\ cl[c].pc = "send" /\ cl[c] # Idle /\ Become(c, r) /\ ~Writing(r) /\ Waiting(cl[c]) = {}
    /\ Pending(cl[c]) = Pending(r) \cup {i} /\ Before(i, Pending(r))
    /\ \A j \in Pending(r) : r.tasks[j] = cl[c].tasks[j]
    /\ flushQ' = Append(flushQ, cl[c].tasks[i]) /\ cl[c].tasks[i] \in Tasks(issued)
    /\ acked' = acked \/ (r = Idle /\ acked' = acked \cup ToSet(cl[c].recs))
    /\ r.op = cl[c].op \/ (r = Idle /\ cl[c].op \in {"write", "batch"})
    /\ UNCHANGED <<levels, job, files, fl, mt, immt, issued, rv, starts, phase, faults, wal, wals, closedWals,
                   nextFileNum, manifest>>
<1> USE DEF ctlVars, memVars, walVars, vsVars, compVars, histVars
<1> DEFINE call == cl[c]
           last == call.i = Len(call.tasks)
           done == last /\ call.op \in {"write", "batch"}
<1>1. /\ call.pc = "send" /\ flushQ' = Append(flushQ, call.tasks[call.i])
      /\ Become(c, IF done THEN Idle
                   ELSE [call EXCEPT !.i = @ + 1, !.pc = IF last THEN "wait" ELSE "send"])
      /\ acked' = IF done THEN acked \cup ToSet(call.recs) ELSE acked
      /\ UNCHANGED <<levels, job, files, fl, mt, immt, issued, rv, starts, phase, faults, wal, wals, closedWals,
                     nextFileNum, manifest>>
  BY DEF Send
<1>2. call \in Calls(issued) /\ CallShape(call)
  BY DEF TypeInv, CallTypes
<1>3. call.tasks \in Seq(Tasks(issued)) /\ call.i \in 1..Len(call.tasks) /\ Len(call.tasks) \in Nat
  BY <1>1, <1>2 DEF Calls, CallShape
<1>4. PICK r2 : r2 = [call EXCEPT !.i = @ + 1, !.pc = IF last THEN "wait" ELSE "send"]
  OBVIOUS
<1>5. r2.i = call.i + 1 /\ r2.pc = (IF last THEN "wait" ELSE "send") /\ r2.tasks = call.tasks /\ r2.op = call.op
  BY <1>2, <1>4 DEF Calls
<1>6. Pending(call) = call.i..Len(call.tasks) /\ Waiting(call) = {} /\ call # Idle
  <2>1. call # Idle
    BY <1>1 DEF Idle
  <2> QED
    BY <1>1, <2>1 DEF Pending, Waiting
<1>7. PICK i : i = call.i
  OBVIOUS
<1>8. ~last => call.i..Len(call.tasks) = ((call.i + 1)..Len(call.tasks)) \cup {call.i}
  BY <1>3
<1>9. last => call.i..Len(call.tasks) = {call.i}
  BY <1>3
<1>10. /\ ~Writing(r2) /\ Pending(call) = Pending(r2) \cup {i} /\ Before(i, Pending(r2))
       /\ \A j \in Pending(r2) : r2.tasks[j] = call.tasks[j]
  <2>1. CASE last
    <3>1. r2.pc = "wait"
      BY <1>5, <2>1
    <3>2. Pending(r2) = {} /\ ~Writing(r2)
      BY <3>1 DEF Pending, Writing
    <3> QED
      BY <1>6, <1>7, <1>9, <2>1, <3>2 DEF Before
  <2>2. CASE ~last
    <3>1. r2.pc = "send"
      BY <1>5, <2>2
    <3>2. Pending(r2) = (call.i + 1)..Len(call.tasks) /\ ~Writing(r2)
      BY <1>5, <3>1 DEF Pending, Writing
    <3> QED
      BY <1>3, <1>5, <1>6, <1>7, <1>8, <2>2, <3>2 DEF Before
  <2> QED
    BY <2>1, <2>2
<1>11. done => Pending(call) = Pending(Idle) \cup {i} /\ Before(i, Pending(Idle))
  BY <1>6, <1>7, <1>9, IdleCall DEF Before
<1>12. call.tasks[i] \in Tasks(issued) /\ flushQ' = Append(flushQ, call.tasks[i])
  BY <1>1, <1>3, <1>7
<1>13. CASE done
  BY <1>1, <1>6, <1>11, <1>12, <1>13, IdleCall
<1>14. CASE ~done
  <2>1. Become(c, r2) /\ acked' = acked
    BY <1>1, <1>4, <1>14
  <2>2. /\ call.pc = "send" /\ r2.op = call.op
        /\ UNCHANGED <<levels, job, files, fl, mt, immt, issued, rv, starts, phase, faults, wal, wals, closedWals,
                       nextFileNum, manifest>>
    BY <1>1, <1>5
  <2> HIDE DEF last, done
  <2> WITNESS r2, i
  <2> QED
    BY <1>6, <1>10, <1>12, <2>1, <2>2
<1> QED
  BY <1>13, <1>14

\* The channel with one task more.
LEMMA Longer ==
  ASSUME NEW S, NEW s \in Seq(S), NEW x \in S
  PROVE  /\ Len(Append(s, x)) = Len(s) + 1 /\ Len(s) \in Nat
         /\ \A i \in 1..Len(Append(s, x)) : Append(s, x)[i] = IF i = Len(s) + 1 THEN x ELSE s[i]
         /\ \A i \in 1..Len(Append(s, x)) : i # Len(s) + 1 => i \in 1..Len(s)
         /\ \A i \in 1..Len(s) : i \in 1..Len(Append(s, x))
OBVIOUS

\* The tasks are the same ones, and in order.
LEMMA SendOrder ==
  ASSUME TypeInv, TypeInv', FirstRun, NoReplay', TreeOrder, MemOrder, NEW c \in Clients,
         \A d \in Clients : d # c => cl[d] = Idle, Send(c)
  PROVE  TreeOrder' /\ MemOrder' /\ FrozenTasks' = FrozenTasks /\ Inserted' = Inserted /\ TableRecords' = TableRecords
<1>1. PICK r, i :
        /\ Become(c, r) /\ ~Writing(r) /\ Waiting(cl[c]) = {}
        /\ Pending(cl[c]) = Pending(r) \cup {i} /\ Before(i, Pending(r))
        /\ \A j \in Pending(r) : r.tasks[j] = cl[c].tasks[j]
        /\ flushQ' = Append(flushQ, cl[c].tasks[i]) /\ cl[c].tasks[i] \in Tasks(issued)
        /\ UNCHANGED <<levels, job, files, fl, mt, issued, rv>>
  BY Sending
<1>2. PICK x : x = cl[c].tasks[i]
  OBVIOUS
<1>3. flushQ \in Seq(Tasks(issued)) /\ x \in Tasks(issued) /\ flushQ' = Append(flushQ, x)
  BY <1>1, <1>2 DEF TypeInv, FlusherTypes
<1>4. /\ Len(flushQ') = Len(flushQ) + 1 /\ Len(flushQ) \in Nat
      /\ \A k \in 1..Len(flushQ') : flushQ'[k] = IF k = Len(flushQ) + 1 THEN x ELSE flushQ[k]
      /\ \A k \in 1..Len(flushQ') : k # Len(flushQ) + 1 => k \in 1..Len(flushQ)
      /\ \A k \in 1..Len(flushQ) : k \in 1..Len(flushQ')
  BY <1>3, Longer
<1>5. \A d \in Clients : cl'[d] = IF d = c THEN r ELSE Idle
  BY <1>1 DEF Become, TypeInv, CallTypes
<1>6. Waiting(r) = {}
  BY <1>1 DEF Waiting, Writing
<1>7. TreeOrder' /\ TableRecords' = TableRecords
  BY <1>1, OrderFrame DEF KeepsFiles
<1>8. FrozenTasks' = FrozenTasks
  <2>1. ASSUME NEW t, Frozen(t)' PROVE Frozen(t)
    <3>1. CASE \E d \in Clients : \E j \in Pending(cl'[d]) : t = cl'[d].tasks[j]
      <4>1. \E j \in Pending(r) : t = r.tasks[j]
        BY <1>5, <3>1, IdleCall
      <4> QED
        BY <1>1, <4>1 DEF Frozen
    <3>2. CASE \E j \in 1..Len(flushQ') : t = flushQ'[j]
      BY <1>1, <1>2, <1>4, <3>2 DEF Frozen
    <3>3. CASE Busy' /\ t = fl'.task
      BY <1>1, <3>3 DEF Frozen, Busy
    <3> QED
      BY <2>1, <3>1, <3>2, <3>3 DEF Frozen
  <2>2. ASSUME NEW t, Frozen(t) PROVE Frozen(t)'
    <3>1. CASE \E d \in Clients : \E j \in Pending(cl[d]) : t = cl[d].tasks[j]
      <4>1. PICK j \in Pending(cl[c]) : t = cl[c].tasks[j]
        BY <3>1, IdleCall
      <4>2. CASE j \in Pending(r)
        <5>1. \E k \in Pending(cl'[c]) : t = cl'[c].tasks[k]
          BY <1>1, <1>5, <4>1, <4>2
        <5> QED
          BY <5>1 DEF Frozen
      <4>3. CASE j = i
        <5>1. Len(flushQ) + 1 \in 1..Len(flushQ') /\ flushQ'[Len(flushQ) + 1] = t
          BY <1>2, <1>4, <4>1, <4>3
        <5>2. \E k \in 1..Len(flushQ') : t = flushQ'[k]
          BY <5>1
        <5> QED
          BY <5>2 DEF Frozen
      <4> QED
        BY <1>1, <4>1, <4>2, <4>3
    <3>2. CASE \E j \in 1..Len(flushQ) : t = flushQ[j]
      <4>1. PICK j \in 1..Len(flushQ) : t = flushQ[j]
        BY <3>2
      <4>2. j \in 1..Len(flushQ') /\ flushQ'[j] = t
        BY <1>4, <4>1
      <4> QED
        BY <4>2 DEF Frozen
    <3>3. CASE Busy /\ t = fl.task
      BY <1>1, <3>3 DEF Frozen, Busy
    <3> QED
      BY <2>2, <3>1, <3>2, <3>3 DEF Frozen
  <2>3. NoReplay
    BY DEF FirstRun
  <2> QED
    BY <2>1, <2>2, <2>3, FrozenParts
<1>9. Inserted' = Inserted
  <2>1. \A d \in Clients : Waiting(cl'[d]) = Waiting(cl[d])
    BY <1>1, <1>5, <1>6
  <2> QED
    BY <1>1, <2>1 DEF Inserted
<1>10. TasksInOrder'
  <2>1. CallInOrder(cl[c]) /\ QueueInOrder /\ i \in Pending(cl[c])
    BY <1>1 DEF MemOrder, TasksInOrder
  <2>2. /\ \A j \in 1..Len(flushQ) : Later(x.mt, flushQ[j].mt)
        /\ Busy => Later(x.mt, fl.task.mt)
        /\ \A j \in Pending(r) : Later(r.tasks[j].mt, x.mt)
    BY <1>1, <1>2, <2>1 DEF CallInOrder, Before
  <2>3. QueueInOrder'
    <3>1. ASSUME NEW j \in 1..Len(flushQ'), NEW k \in 1..Len(flushQ'), j < k PROVE Later(flushQ'[k].mt, flushQ'[j].mt)
      <4>1. j \in 1..Len(flushQ) /\ flushQ'[j] = flushQ[j]
        BY <1>4, <3>1
      <4>2. CASE k = Len(flushQ) + 1
        BY <1>4, <2>2, <4>1, <4>2
      <4>3. CASE k # Len(flushQ) + 1
        BY <1>4, <2>1, <3>1, <4>1, <4>3 DEF QueueInOrder
      <4> QED
        BY <4>2, <4>3
    <3>2. ASSUME Busy, NEW j \in 1..Len(flushQ') PROVE Later(flushQ'[j].mt, fl.task.mt)
      BY <1>4, <2>1, <2>2, <3>2 DEF QueueInOrder
    <3> QED
      BY <1>1, <3>1, <3>2 DEF QueueInOrder, Busy
  <2>4. ASSUME NEW j \in Pending(r)
        PROVE  /\ \A k \in Pending(r) : j < k => Later(r.tasks[k].mt, r.tasks[j].mt)
               /\ \A k \in 1..Len(flushQ') : Later(r.tasks[j].mt, flushQ'[k].mt)
               /\ Busy => Later(r.tasks[j].mt, fl.task.mt)
    <3>1. j \in Pending(cl[c]) /\ r.tasks[j] = cl[c].tasks[j]
      BY <1>1
    <3>2. \A k \in Pending(r) : j < k => Later(r.tasks[k].mt, r.tasks[j].mt)
      BY <1>1, <2>1, <3>1 DEF CallInOrder
    <3>3. \A k \in 1..Len(flushQ') : Later(r.tasks[j].mt, flushQ'[k].mt)
      BY <1>4, <2>1, <2>2, <3>1 DEF CallInOrder
    <3>4. Busy => Later(r.tasks[j].mt, fl.task.mt)
      BY <2>1, <3>1 DEF CallInOrder
    <3> QED
      BY <3>2, <3>3, <3>4
  <2>5. \A d \in Clients : CallInOrder(cl[d])'
    BY <1>1, <1>5, <2>4, IdleCall DEF CallInOrder, Busy
  <2> QED
    BY <2>3, <2>5 DEF TasksInOrder
<1>11. FrozenOrder'
  BY <1>1, <1>7, <1>8 DEF MemOrder, FrozenOrder
<1>12. WaitingNewest'
  <2>1. Held' = Held
    BY <1>1, <1>7, <1>8 DEF Held
  <2>2. \A d \in Clients : InSeqOrder(cl'[d]) /\ Waiting(cl'[d]) = {}
    BY <1>1, <1>5, <1>6, IdleCall DEF InSeqOrder
  <2> QED
    BY <1>9, <2>1, <2>2 DEF MemOrder, WaitingNewest
<1> QED
  BY <1>7, <1>8, <1>9, <1>10, <1>11, <1>12 DEF MemOrder

----------------------------------------------------------------------------
\* The flusher takes the task that was sent first.
LEMMA FlushTakeOrder ==
  ASSUME TypeInv, TypeInv', FirstRun, NoReplay', TreeOrder, MemOrder, FlushTake
  PROVE  TreeOrder' /\ MemOrder' /\ FrozenTasks' = FrozenTasks /\ TableRecords' = TableRecords
<1> USE DEF ctlVars, memVars, walVars, vsVars, compVars, histVars
<1>1. /\ fl.pc = "idle" /\ flushQ # <<>> /\ flushQ' = Tail(flushQ)
      /\ fl' = [FlIdle EXCEPT !.pc = "write", !.task = Head(flushQ)]
      /\ UNCHANGED <<levels, job, files, cl, mt, issued>>
  BY DEF FlushTake
<1>2. flushQ \in Seq(Tasks(issued)) /\ ~Busy
  BY <1>1 DEF TypeInv, FlusherTypes, Busy
<1>3. fl'.pc = "write" /\ fl'.task = Head(flushQ)
  BY <1>1 DEF FlIdle
<1>4. Busy' /\ fl'.task = flushQ[1] /\ 1 \in 1..Len(flushQ) /\ Len(flushQ') = Len(flushQ) - 1 /\ Len(flushQ) \in Nat
  BY <1>1, <1>2, <1>3 DEF Busy
<1>5. \A i \in 1..Len(flushQ') : flushQ'[i] = flushQ[i + 1] /\ i + 1 \in 1..Len(flushQ)
  BY <1>1, <1>2, <1>4
<1>6. \A i \in 1..Len(flushQ) : i # 1 => i - 1 \in 1..Len(flushQ') /\ flushQ'[i - 1] = flushQ[i]
  BY <1>1, <1>2, <1>4
<1>7. TreeOrder' /\ TableRecords' = TableRecords
  BY <1>1, OrderFrame DEF KeepsFiles
<1>8. \A t : Frozen(t)' <=> Frozen(t)
  <2> SUFFICES ASSUME NEW t PROVE Frozen(t)' <=> Frozen(t)
    OBVIOUS
  <2>1. (\E c \in Clients : \E i \in Pending(cl'[c]) : t = cl'[c].tasks[i])
          <=> (\E c \in Clients : \E i \in Pending(cl[c]) : t = cl[c].tasks[i])
    BY <1>1
  <2>2. (\E i \in 1..Len(flushQ) : t = flushQ[i]) <=> (\E i \in 1..Len(flushQ') : t = flushQ'[i]) \/ t = flushQ[1]
    BY <1>4, <1>5, <1>6
  <2> QED
    BY <1>2, <1>4, <2>1, <2>2 DEF Frozen
<1>9. FrozenTasks' = FrozenTasks
  <2>1. NoReplay
    BY DEF FirstRun
  <2> QED
    BY <1>8, <2>1, FrozenParts
<1>10. TasksInOrder'
  <2>1. QueueInOrder /\ \A c \in Clients : CallInOrder(cl[c])
    BY DEF MemOrder, TasksInOrder
  <2>2. QueueInOrder'
    <3>1. ASSUME NEW i \in 1..Len(flushQ'), NEW j \in 1..Len(flushQ'), i < j PROVE Later(flushQ'[j].mt, flushQ'[i].mt)
      <4>1. i + 1 < j + 1
        BY <3>1
      <4> QED
        BY <1>5, <2>1, <4>1 DEF QueueInOrder
    <3>2. ASSUME NEW i \in 1..Len(flushQ') PROVE Later(flushQ'[i].mt, fl'.task.mt)
      <4>1. 1 < i + 1 /\ i + 1 \in 1..Len(flushQ)
        BY <1>5
      <4> QED
        BY <1>4, <1>5, <2>1, <4>1 DEF QueueInOrder
    <3> QED
      BY <3>1, <3>2 DEF QueueInOrder
  <2>3. \A c \in Clients : CallInOrder(cl[c])'
    BY <1>1, <1>4, <1>5, <2>1 DEF CallInOrder
  <2> QED
    BY <2>2, <2>3 DEF TasksInOrder
<1>11. FrozenOrder' /\ WaitingNewest'
  BY <1>1, <1>7, <1>9 DEF MemOrder, FrozenOrder, WaitingNewest, Held, Inserted
<1> QED
  BY <1>7, <1>9, <1>10, <1>11 DEF MemOrder

\* A flush writes a file that no list and no output of a compaction has.
LEMMA WriteKeeps ==
  ASSUME TypeInv, FirstRun, FlushWrite
  PROVE  KeepsFiles({PathOf(t) : t \in Listed}) /\ (job.pc = "install" => KeepsFiles(Paths(job.outs)))
<1> DEFINE q == <<0, fl.task.num>>
<1>1. fl.pc = "write" /\ (UNCHANGED files \/ files' = Create(files, q, fl.task.mt))
  BY DEF FlushWrite
<1>2. FlNums = {fl.task.num}
  BY <1>1 DEF FlNums
<1>3. q \notin Used
  BY <1>2, TaskNumTypes, Holders
<1>4. q \notin {PathOf(t) : t \in Listed}
  BY <1>3, InUse
<1>5. job.pc = "install" => q \notin Paths(job.outs)
  <2> SUFFICES ASSUME job.pc = "install", q \in Paths(job.outs) PROVE FALSE
    OBVIOUS
  <2>1. job.outs \in Seq(Tables) /\ job.level \in Nat
    BY ConstantTypes DEF TypeInv, Jobs
  <2>2. PICK t \in ToSet(job.outs) : q = PathOf(t)
    BY <2>1, PathsOf
  <2>3. t.level = job.level + 1
    BY DEF FirstRun, JobInv
  <2> QED
    BY <2>1, <2>2, <2>3 DEF PathOf
<1> HIDE DEF q
<1>6. CASE files' = files
  BY <1>6 DEF KeepsFiles
<1>7. CASE files' = Create(files, q, fl.task.mt)
  BY <1>4, <1>5, <1>7, CreateKeeps
<1> QED
  BY <1>1, <1>6, <1>7

\* The flusher writes a table that nobody lists.
LEMMA FlushWriteOrder ==
  ASSUME TypeInv, TypeInv', FirstRun, NoReplay', TreeOrder, MemOrder, FlushWrite
  PROVE  /\ TreeOrder' /\ MemOrder' /\ TableRecords' = TableRecords
         /\ faults' = faults => FrozenTasks' = FrozenTasks
         /\ KeepsFiles({PathOf(t) : t \in Listed})
         /\ UNCHANGED <<levels, manifest, flushQ, job, cl, mt, immt, issued, acked, starts, phase, wal, wals, closedWals>>
<1> USE DEF ctlVars, memVars, walVars, vsVars, compVars, histVars
<1> DEFINE q == <<0, fl.task.num>>
<1>1. PICK fault :
        /\ fl.pc = "write" /\ Count(fault)
        /\ \/ fault = "table" /\ fl' = FlIdle /\ UNCHANGED files
           \/ /\ files' = Create(files, q, fl.task.mt)
              /\ fl' = [fl EXCEPT !.pc = "install", !.next = nextFileNum]
        /\ UNCHANGED <<levels, manifest, flushQ, job, rv, cl, mt, immt, issued, acked, starts, phase, wal, wals,
                       closedWals>>
  BY DEF FlushWrite
<1>2. fl \in Flushers(issued) /\ faults \in Nat
  BY DEF TypeInv, FlusherTypes, Counters
<1>3. KeepsFiles({PathOf(t) : t \in Listed}) /\ (job.pc = "install" => KeepsFiles(Paths(job.outs)))
  BY WriteKeeps
<1>4. TreeOrder' /\ TableRecords' = TableRecords
  BY <1>1, <1>3, OrderFrame
<1>5. Busy /\ (Busy' => fl'.task = fl.task) /\ (faults' = faults => Busy')
  <2>1. CASE fault = "table" /\ fl' = FlIdle
    BY <1>1, <1>2, <2>1 DEF Busy, FlIdle, Count
  <2>2. CASE fl' = [fl EXCEPT !.pc = "install", !.next = nextFileNum]
    BY <1>1, <1>2, <2>2 DEF Busy, Flushers
  <2> QED
    BY <1>1, <2>1, <2>2
<1>6. NoReplay
  BY DEF FirstRun
<1>7. MemOrder'
  BY <1>1, <1>4, <1>5, <1>6, MemoryFrame
<1>8. faults' = faults => FrozenTasks' = FrozenTasks
  <2>1. faults' = faults => \A t : Frozen(t)' <=> Frozen(t)
    BY <1>1, <1>5 DEF Frozen
  <2> QED
    BY <1>6, <2>1, FrozenParts
<1> QED
  BY <1>1, <1>3, <1>4, <1>7, <1>8

\* Every other memtable is later than the one the flusher has, and none is the same.
LEMMA FlushedFirst ==
  ASSUME TypeInv, NoReplay, MemOrder, Busy, NEW t, Frozen(t),
         ~(\E c \in Clients : \E i \in Pending(cl[c]) : t = cl[c].tasks[i]) => (\E i \in 1..Len(flushQ) : t = flushQ[i])
  PROVE  Later(t.mt, fl.task.mt) /\ t # fl.task
<1>1. Later(t.mt, fl.task.mt)
  BY DEF MemOrder, TasksInOrder, QueueInOrder, CallInOrder
<1>2. t \in Tasks(issued)
  BY FrozenParts, FrozenTypes
<1>3. PICK x \in t.mt : x \in issued
  BY <1>2 DEF Tasks
<1>4. x.seq \in Nat
  BY <1>3, RecordFields
<1> QED
  BY <1>1, <1>3, <1>4 DEF Later

\* A flush is installed: its memtable becomes the newest table.
LEMMA FlushInstallOrder ==
  ASSUME TypeInv, TypeInv', FirstRun, NoReplay', TreeOrder, MemOrder, FlushInstall
  PROVE  TreeOrder' /\ MemOrder' /\ fl.task \in FrozenTasks /\ FrozenTasks' = FrozenTasks \ {fl.task}
<1>1. /\ fl.pc = "install" /\ fl'.pc = "cleanup" /\ UNCHANGED <<flushQ, cl, mt, issued>>
  BY FlushInstalled
<1>2. NoReplay /\ Busy /\ ~Busy'
  BY <1>1 DEF FirstRun, Busy
<1>3. Frozen(fl.task) /\ fl.task \in FrozenTasks
  BY <1>2, FrozenParts DEF Frozen
<1>4. TreeOrder' /\ TableRecords' \subseteq TableRecords \cup fl.task.mt
  BY <1>3, FlushedTree DEF MemOrder, FrozenOrder
<1>5. ASSUME NEW t, Frozen(t)' PROVE Frozen(t) /\ Later(t.mt, fl.task.mt) /\ t # fl.task
  <2>1. (\E c \in Clients : \E i \in Pending(cl[c]) : t = cl[c].tasks[i]) \/ (\E i \in 1..Len(flushQ) : t = flushQ[i])
    BY <1>1, <1>2, <1>5 DEF Frozen
  <2>2. Frozen(t)
    BY <2>1 DEF Frozen
  <2> QED
    BY <1>2, <2>1, <2>2, FlushedFirst
<1>6. ASSUME NEW t, Frozen(t), t # fl.task PROVE Frozen(t)'
  BY <1>1, <1>6 DEF Frozen
<1>7. FrozenTasks' = FrozenTasks \ {fl.task}
  BY <1>2, <1>5, <1>6, FrozenParts
<1>8. TasksInOrder'
  BY <1>1, <1>2 DEF MemOrder, TasksInOrder, QueueInOrder, CallInOrder
<1>9. FrozenOrder'
  <2>1. \A t \in FrozenTasks' : t \in FrozenTasks /\ Later(t.mt, fl.task.mt)
    BY <1>2, <1>5, FrozenParts
  <2>2. FrozenOrder
    BY DEF MemOrder
  <2>3. \A t \in FrozenTasks' : Later(t.mt, TableRecords') /\ Later(mt, t.mt)
    BY <1>4, <2>1, <2>2 DEF FrozenOrder, Later
  <2>4. Later(mt, TableRecords')
    BY <1>3, <1>4, <2>2 DEF FrozenOrder, Later
  <2> QED
    BY <1>1, <2>3, <2>4 DEF FrozenOrder, Later
<1>10. WaitingNewest'
  <2>1. Held' \subseteq Held
    <3>1. fl.task.mt \subseteq Held
      BY <1>3 DEF Held
    <3>2. TableRecords' \subseteq Held
      BY <1>4, <3>1 DEF Held
    <3>3. UNION {t.mt : t \in FrozenTasks'} \subseteq Held
      BY <1>7 DEF Held
    <3> QED
      BY <1>1, <3>2, <3>3 DEF Held
  <2>2. Inserted' = Inserted
    BY <1>1 DEF Inserted
  <2> QED
    BY <1>1, <2>1, <2>2 DEF MemOrder, WaitingNewest
<1> QED
  BY <1>3, <1>4, <1>7, <1>8, <1>9, <1>10 DEF MemOrder

\* A step of another goroutine that leaves memtables and tables alone.
LEMMA BackgroundStep ==
  ASSUME TypeInv, TypeInv', FirstRun, NoReplay', TreeOrder, MemOrder, levels' = levels,
         KeepsFiles({PathOf(t) : t \in Listed}), JobOrder', UNCHANGED <<flushQ, cl, mt, issued>>,
         Busy' <=> Busy, Busy => fl'.task = fl.task
  PROVE  TreeOrder' /\ MemOrder' /\ FrozenTasks' = FrozenTasks /\ TableRecords' = TableRecords
<1>1. LevelOrder /\ NoReplay
  BY DEF TreeOrder, LevelOrder, FirstRun
<1>2. KeepsTables
  <2> SUFFICES ASSUME NEW t \in LiveTables PROVE FileRecords(t)' = FileRecords(t)
    BY DEF KeepsTables
  <2>1. Whole(t) /\ PathOf(t) \in {PathOf(s) : s \in Listed}
    BY DEF FirstRun, WholeTables, Listed
  <2> QED
    BY <2>1, SameRecords
<1>3. LevelOrder' /\ TableRecords' = TableRecords
  BY <1>1, <1>2, LevelFrame
<1>4. TreeOrder'
  BY <1>3 DEF TreeOrder, LevelOrder, JobOrder
<1>5. MemOrder'
  BY <1>1, <1>3, MemoryFrame
<1>6. \A t : Frozen(t)' <=> Frozen(t)
  BY DEF Frozen
<1>7. FrozenTasks' = FrozenTasks
  BY <1>1, <1>6, FrozenParts
<1> QED
  BY <1>3, <1>4, <1>5, <1>7

\* The steps of the flusher, the compactor and recovery that do so.
LEMMA BackgroundOrder ==
  ASSUME TypeInv, TypeInv', FirstRun, NoReplay', NumberedInOrder, TreeOrder, MemOrder,
         \/ FlushCleanup \/ CompactBegin \/ CompactMerge \/ CompactRemove
         \/ CompactDone \/ Reschedule \/ RescheduleClear \/ SnapshotNext \/ RecoverFinish \/ UNCHANGED vars
  PROVE  /\ TreeOrder' /\ MemOrder' /\ FrozenTasks' = FrozenTasks /\ TableRecords' = TableRecords
         /\ KeepsFiles({PathOf(t) : t \in Listed}) /\ UNCHANGED <<levels, cl, mt, issued, acked>>
<1> USE DEF ctlVars, memVars, walVars, vsVars, compVars, histVars
<1>1. JobOrder
  BY DEF TreeOrder, JobOrder
<1>2. CASE UNCHANGED <<levels, job, files, flushQ, fl, cl, mt, issued, acked>>
  <2>1. KeepsFiles({PathOf(t) : t \in Listed}) /\ KeepsFiles(Paths(job.outs))
    BY <1>2 DEF KeepsFiles
  <2>2. JobOrder'
    BY <1>2, <2>1, OrderFrame DEF TreeOrder, JobOrder
  <2> QED
    BY <1>2, <2>1, <2>2, BackgroundStep DEF Busy
<1>3. CASE SnapshotNext \/ RecoverFinish \/ UNCHANGED vars
  <2>1. UNCHANGED <<levels, job, files, flushQ, fl, cl, mt, issued, acked>>
    BY <1>3 DEF SnapshotNext, NewSnapshot, Release, RecoverFinish, vars
  <2> QED
    BY <1>2, <2>1
<1>4. CASE CompactDone \/ Reschedule \/ RescheduleClear
  <2>1. /\ UNCHANGED <<levels, files, flushQ, fl, cl, mt, issued, acked>>
        /\ \/ job' = NoJob \/ job' = [NoJob EXCEPT !.pc = "clear"] \/ job' = job
           \/ \E l \in CompactionLevel : StartCompaction(l)
    BY <1>4 DEF CompactDone, Reschedule, RescheduleClear
  <2>2. CASE job' = job
    BY <1>2, <2>1, <2>2
  <2>3. CASE job' = NoJob \/ job' = [NoJob EXCEPT !.pc = "clear"]
    <3>1. job'.pc \notin {"begin", "merge", "install"}
      BY <2>3 DEF NoJob
    <3>2. JobOrder'
      BY <3>1, NoCompaction
    <3>3. KeepsFiles({PathOf(t) : t \in Listed})
      BY <2>1 DEF KeepsFiles
    <3> QED
      BY <2>1, <3>2, <3>3, BackgroundStep DEF Busy
  <2>4. CASE \E l \in CompactionLevel : StartCompaction(l)
    <3>1. PICK l \in 0..(Bottom - 1) : StartCompaction(l)
      BY <2>4, LevelPicked
    <3>2. JobOrder'
      BY <2>1, <3>1, CompactionChosen
    <3>3. KeepsFiles({PathOf(t) : t \in Listed})
      BY <2>1 DEF KeepsFiles
    <3> QED
      BY <2>1, <3>2, <3>3, BackgroundStep DEF Busy
  <2> QED
    BY <2>1, <2>2, <2>3, <2>4
<1>5. CASE FlushCleanup
  <2>1. /\ fl.pc = "cleanup" /\ fl' = FlIdle /\ UNCHANGED <<levels, files, flushQ, cl, mt, issued, acked>>
        /\ job' = job \/ StartCompaction(0)
    BY <1>5 DEF FlushCleanup
  <2>2. ~Busy /\ ~Busy'
    BY <2>1 DEF Busy, FlIdle
  <2>3. KeepsFiles({PathOf(t) : t \in Listed}) /\ KeepsFiles(Paths(job.outs))
    BY <2>1 DEF KeepsFiles
  <2>4. JobOrder'
    <3>1. CASE job' = job
      BY <2>1, <2>3, <3>1, OrderFrame DEF TreeOrder, JobOrder
    <3>2. CASE StartCompaction(0)
      <4>1. 0 \in 0..(Bottom - 1)
        BY ConstantTypes
      <4> QED
        BY <2>1, <3>2, <4>1, CompactionChosen
    <3> QED
      BY <2>1, <3>1, <3>2
  <2> QED
    BY <2>1, <2>2, <2>3, <2>4, BackgroundStep
<1>6. CASE CompactBegin
  <2>1. UNCHANGED <<levels, files, flushQ, fl, cl, mt, issued, acked>>
    BY <1>6 DEF CompactBegin
  <2>2. KeepsFiles({PathOf(t) : t \in Listed})
    BY <2>1 DEF KeepsFiles
  <2>3. JobOrder'
    BY <1>1, <1>6, CompactionBegun
  <2> QED
    BY <2>1, <2>2, <2>3, BackgroundStep DEF Busy
<1>7. CASE CompactMerge
  <2>1. UNCHANGED <<levels, flushQ, fl, cl, mt, issued, acked>>
    BY <1>7 DEF CompactMerge
  <2>2. KeepsFiles({PathOf(t) : t \in Listed})
    BY <1>7, MergeKeepsUsed
  <2>3. JobOrder'
    BY <1>1, <1>7, CompactionMerged
  <2> QED
    BY <2>1, <2>2, <2>3, BackgroundStep DEF Busy
<1>8. CASE CompactRemove
  <2>1. /\ job.pc = "remove" /\ files' = Unlink(files, Paths(job.all)) /\ job' = [NoJob EXCEPT !.pc = "done"]
        /\ UNCHANGED <<levels, flushQ, fl, cl, mt, issued, acked>>
    BY <1>8 DEF CompactRemove
  <2>2. \A t \in Listed : PathOf(t) \notin Paths(job.all)
    BY <2>1 DEF FirstRun, JobInv
  <2>3. KeepsFiles({PathOf(t) : t \in Listed})
    BY <2>1, <2>2 DEF KeepsFiles, Unlink
  <2>4. job'.pc = "done"
    BY <2>1 DEF NoJob
  <2>5. JobOrder'
    BY <2>4, NoCompaction
  <2> QED
    BY <2>1, <2>3, <2>5, BackgroundStep DEF Busy
<1> QED
  BY <1>3, <1>4, <1>5, <1>6, <1>7, <1>8

\* A compaction is installed: the memtables stay newer than all tables.
LEMMA CompactInstallOrder ==
  ASSUME TypeInv, TypeInv', FirstRun, NoReplay', TreeOrder, MemOrder, CompactInstall
  PROVE  TreeOrder' /\ MemOrder' /\ FrozenTasks' = FrozenTasks
<1>1. TreeOrder' /\ TableRecords' \subseteq TableRecords
  BY CompactedTree
<1>2. UNCHANGED <<flushQ, fl, cl, mt, issued>> /\ NoReplay
  BY CompactInstalled DEF FirstRun
<1>3. MemOrder'
  BY <1>1, <1>2, MemoryFrame DEF Busy
<1>4. \A t : Frozen(t)' <=> Frozen(t)
  BY <1>2 DEF Frozen, Busy
<1>5. FrozenTasks' = FrozenTasks
  BY <1>2, <1>4, FrozenParts
<1> QED
  BY <1>1, <1>3, <1>5

\* A process that ends has lost its memory, and one that starts for the first time has
\* found no table.
LEMMA EmptyOrder ==
  ASSUME TypeInv, TypeInv', FirstRun, NoReplay', starts' <= 1,
         Crash \/ (\E c \in Clients : CloseReturn(c)) \/ RecoverFails \/ New
  PROVE  TreeOrder' /\ MemOrder'
<1>1. CASE Crash \/ (\E c \in Clients : CloseReturn(c)) \/ RecoverFails
  <2>1. LoseMemory
    BY <1>1 DEF Crash, CloseReturn, RecoverFails
  <2> QED
    BY <2>1, NothingHeld DEF LoseMemory, NoJob, FlIdle, Busy
<1>2. CASE New
  <2>1. starts = 0
    BY <1>2 DEF New, TypeInv, Counters
  <2>2. phase = "down" /\ manifest = NoManifest
    BY <2>1 DEF FirstRun, Fresh
  <2>3. levels' = NoLevels /\ UNCHANGED <<mt, flushQ, fl, job, cl>>
    BY <1>2, <2>2 DEF New, memVars, compVars, NoManifest
  <2>4. mt = {} /\ flushQ = <<>> /\ fl = FlIdle /\ job = NoJob /\ cl = [c \in Clients |-> Idle]
    BY <2>2 DEF TypeInv, Lost
  <2> QED
    BY <2>3, <2>4, NothingHeld DEF NoJob, FlIdle, Busy
<1> QED
  BY <1>1, <1>2

\* The calls of one client.
LEMMA ClientOrder ==
  ASSUME TypeInv, TypeInv', FirstRun, NoReplay', NumberedInOrder, TreeOrder, MemOrder, OneCall, OneCall',
         NEW c \in Clients, ClientNext(c)
  PROVE  TreeOrder' /\ MemOrder'
<1>1. CASE Put(c) \/ Delete(c) \/ WriteBatch(c)
  <2>1. PICK n \in Nat \ {0} : \E ks \in [1..n -> Keys], ds \in [1..n -> BOOLEAN] : Starts(c, ks, ds)
    BY <1>1, WriteStarts
  <2>2. \E op \in {"write", "batch"}, pc \in {"stall", "log", "apply"} : \E recs : Start(c, op, pc, recs)
    BY <2>1 DEF Starts
  <2> PICK op \in {"write", "batch"}, pc \in {"stall", "log", "apply"} : \E recs : Start(c, op, pc, recs)
    BY <2>2
  <2> PICK recs : Start(c, op, pc, recs)
    OBVIOUS
  <2>3. PICK r : r = [Idle EXCEPT !.op = op, !.pc = pc, !.recs = recs]
    OBVIOUS
  <2>4. r.pc = pc /\ Idle.pc = "idle" /\ Become(c, r)
    BY <2>3 DEF Idle, Start
  <2>5. \A d \in Clients : d # c => cl[d] = Idle
    BY <2>4, OthersIdle
  <2> QED
    BY <1>1, <2>5, StartOrder
<1>2. CASE Apply(c) \/ Send(c) \/ RotateForSync(c)
  <2>1. cl[c].pc \in {"apply", "send", "rotate"} /\ Idle.pc = "idle"
    BY <1>2 DEF Apply, Send, RotateForSync, Idle
  <2>2. \A d \in Clients : d # c => cl[d] = Idle
    BY <2>1 DEF OneCall
  <2> QED
    BY <1>2, <2>2, ApplyOrder, SendOrder, RotateForSyncOrder
<1>3. CASE Stall(c) \/ ReadWal(c) \/ AppendWal(c) \/ Sync(c) \/ Close(c) \/ SyncReturn(c)
  BY <1>3, WaitOrder
<1> QED
  BY <1>1, <1>2, <1>3 DEF ClientNext

\* Every step of calls that do not overlap keeps the order, up to the second start.
LEMMA NextOrder ==
  ASSUME IInv, IInv', OneCall, OneCall', OrderInv, [Next]_vars
  PROVE  OrderInv'
<1> SUFFICES ASSUME starts' <= 1 PROVE TreeOrder' /\ MemOrder'
  BY DEF OrderInv
<1>1. TypeInv /\ TypeInv' /\ starts \in Nat
  BY DEF IInv, TypeInv, Counters
<1>2. starts <= 1
  BY <1>1, StartsCounted DEF TypeInv, Counters
<1>3. FirstRun /\ NumberedInOrder /\ NoReplay' /\ TreeOrder /\ MemOrder
  BY <1>2 DEF IInv, FirstRun, OrderInv
<1>4. ASSUME NEW c \in Clients, ClientNext(c) PROVE TreeOrder' /\ MemOrder'
  BY <1>1, <1>3, <1>4, ClientOrder
<1>5. CASE FlusherNext
  BY <1>1, <1>3, <1>5, FlushTakeOrder, FlushWriteOrder, FlushInstallOrder, BackgroundOrder DEF FlusherNext
<1>6. CASE CompactorNext
  BY <1>1, <1>3, <1>6, CompactInstallOrder, BackgroundOrder DEF CompactorNext
<1>7. CASE SnapshotNext \/ UNCHANGED vars
  BY <1>1, <1>3, <1>7, BackgroundOrder
<1>8. CASE Crash \/ (\E c \in Clients : CloseReturn(c)) \/ RecoverFails \/ New
  BY <1>1, <1>3, <1>8, EmptyOrder
<1>9. CASE RecoverFinish
  BY <1>1, <1>3, <1>9, BackgroundOrder
<1>10. CASE RecoverOpen \/ RecoverRecord \/ RecoverSend \/ RecoverLogDone
  BY <1>3, <1>10 DEF RecoverOpen, RecoverRecord, RecoverSend, RecoverLogDone, FirstRun, NoReplay
<1>11. CASE Quiet
  BY <1>7, <1>11 DEF Quiet
<1> QED
  BY <1>1, <1>3, <1>4, <1>5, <1>6, <1>7, <1>8, <1>9, <1>10, <1>11, NotTornFirst DEF Next, RecoveryNext

\* An engine that was never started is in order.
LEMMA InitOrder == ASSUME Init, TypeInv, NoReplay PROVE OrderInv
<1>1. \A l \in Levels : TablesAt(l) = {}
  BY DEF Init, TablesAt, NoLevels, ToSet
<1>2. LiveTables = {} /\ TableRecords = {} /\ 0 \in Levels
  BY <1>1, ConstantTypes DEF LiveTables, TableRecords, Levels
<1>3. job.pc = "none" /\ ~Busy /\ flushQ = <<>> /\ mt = {} /\ issued = {} /\ \A c \in Clients : cl[c] = Idle
  BY DEF Init, NoJob, FlIdle, Busy
<1>4. TreeOrder
  BY <1>1, <1>2, <1>3 DEF TreeOrder, TopLater, TopApart, DeepOrdered, DeepApart, InputsOldest, AllFound, OutsMerged
<1>5. FrozenTasks = {}
  BY <1>3, IdleCall, FrozenParts DEF Frozen
<1>6. Held = {}
  BY <1>2, <1>3, <1>5 DEF Held
<1>7. MemOrder
  BY <1>2, <1>3, <1>5, <1>6, IdleCall
     DEF MemOrder, TasksInOrder, QueueInOrder, CallInOrder, FrozenOrder, WaitingNewest, InSeqOrder, Later
<1> QED
  BY <1>4, <1>7 DEF OrderInv

\* What the levels have in order is LevelsOrdered.
LEMMA OrderedLevels == ASSUME TypeInv, TreeOrder PROVE LevelsOrdered
<1> SUFFICES ASSUME NEW l \in Levels, NEW m \in Levels, l < m, NEW s \in TablesAt(l), NEW t \in TablesAt(m),
                    NEW r \in FileRecords(s), NEW q \in FileRecords(t), r.key = q.key
             PROVE  r.seq > q.seq
  BY DEF LevelsOrdered
<1>1. l \in Nat /\ m \in Nat /\ m # 0
  BY ConstantTypes DEF Levels
<1>2. r \in issued /\ q \in issued
  BY FilesIssued
<1>3. r.seq \in Nat /\ q.seq \in Nat
  BY <1>2, RecordFields
<1>4. q.seq < r.seq
  <2>1. CASE l = 0
    BY <1>1, <2>1 DEF TreeOrder, TopLater, Later
  <2>2. CASE l # 0
    BY <1>1, <2>2 DEF TreeOrder, DeepOrdered, Newer
  <2> QED
    BY <2>1, <2>2
<1> QED
  BY <1>3, <1>4

----------------------------------------------------------------------------
\* Memtables, channel, flusher and levels of an engine whose clients make one call at a
\* time are in the order of writing, until the engine is opened again: what a call, the
\* flusher and the compactor move stays newer than what it passes.
THEOREM TreeIsOrdered == Spec /\ []OneCall => []OrderInv
<1>1. IInv => TypeInv
  BY DEF IInv
<1>2. Init => IInv
  BY InitFirst
<1>3. ASSUME Init, IInv PROVE OrderInv
  <2>1. starts = 0
    BY <1>3 DEF Init
  <2>2. NoReplay
    BY <1>3, <2>1 DEF IInv, FirstRun
  <2> QED
    BY <1>1, <1>3, <2>2, InitOrder
<1>4. IInv /\ IInv' /\ OneCall /\ OneCall' /\ OrderInv /\ [Next]_vars => OrderInv'
  BY NextOrder
<1>5. Spec => []IInv
  BY EngineInvariant
<1> QED
  BY <1>2, <1>3, <1>4, <1>5, PTL DEF Spec

\* Of two versions of a key in tables of different levels, the one on the upper level is
\* the newer one (the order compactLevel and get rely on), in any run of calls that do
\* not overlap, whatever the flusher and the compactor do meanwhile and whatever file
\* operations fail.
THEOREM LevelsAreOrdered == Spec /\ []OneCall => [](starts <= 1 => LevelsOrdered)
<1>1. ASSUME IInv, OrderInv PROVE starts <= 1 => LevelsOrdered
  BY <1>1, OrderedLevels DEF IInv, OrderInv
<1>2. Spec => []IInv
  BY EngineInvariant
<1>3. Spec /\ []OneCall => []OrderInv
  BY TreeIsOrdered
<1> QED
  BY <1>1, <1>2, <1>3, PTL


----------------------------------------------------------------------------
\* No step takes back a failing file operation.
LEMMA FaultsCounted == ASSUME TypeInv, [Next]_vars PROVE faults <= faults'
<1> USE DEF ctlVars, histVars
<1>1. Counters /\ faults \in Nat
  BY DEF TypeInv, Counters
<1>2. \A fault : Count(fault) => faults <= faults'
  BY <1>1 DEF Count
<1>3. ASSUME NEW c \in Clients, ClientNext(c) PROVE faults <= faults'
  <2>1. CASE AppendWal(c)
    BY <1>2, <2>1 DEF AppendWal
  <2>2. CASE Apply(c)
    BY <1>2, <2>2 DEF Apply
  <2>3. CASE Sync(c) \/ RotateForSync(c)
    BY <1>2, <2>3 DEF Sync, RotateForSync
  <2>4. CASE Put(c) \/ Delete(c) \/ WriteBatch(c)
    <3>1. \E n \in Nat \ {0} : \E ks \in [1..n -> Keys], ds \in [1..n -> BOOLEAN] : Starts(c, ks, ds)
      BY <2>4, WriteStarts
    <3>2. \E op, pc, recs : Start(c, op, pc, recs)
      BY <3>1 DEF Starts
    <3> QED
      BY <1>1, <3>2 DEF Start
  <2>5. CASE Stall(c) \/ ReadWal(c) \/ Send(c) \/ Close(c) \/ SyncReturn(c)
    BY <1>1, <2>5 DEF Stall, ReadWal, Send, Close, SyncReturn
  <2> QED
    BY <1>3, <2>1, <2>2, <2>3, <2>4, <2>5 DEF ClientNext
<1>4. CASE FlusherNext
  BY <1>1, <1>2, <1>4 DEF FlusherNext, FlushTake, FlushWrite, FlushInstall, FlushCleanup
<1>5. CASE CompactorNext
  <2>1. CASE CompactMerge
    BY <1>2, <2>1 DEF CompactMerge
  <2>2. CASE CompactInstall
    BY <1>2, <2>2 DEF CompactInstall
  <2> QED
    BY <1>1, <1>5, <2>1, <2>2 DEF CompactorNext, CompactBegin, CompactRemove, CompactDone, Reschedule, RescheduleClear
<1>6. CASE RecoveryNext
  <2>1. CASE RecoverRecord \/ RecoverFails
    BY <1>2, <2>1 DEF RecoverRecord, RecoverFails
  <2> QED
    BY <1>1, <1>6, <2>1 DEF RecoveryNext, New, OpenTorn, RecoverOpen, RecoverSend, RecoverLogDone, RecoverFinish
<1>7. CASE SnapshotNext \/ Crash \/ Quiet \/ UNCHANGED vars \/ \E c \in Clients : CloseReturn(c)
  BY <1>1, <1>7 DEF SnapshotNext, NewSnapshot, Release, Crash, CloseReturn, Quiet, vars
<1> QED
  BY <1>3, <1>4, <1>5, <1>6, <1>7 DEF Next

\* Steps that move no record.
LEMMA SameHeld ==
  ASSUME UNCHANGED <<cl, mt, issued>>, FrozenTasks' = FrozenTasks, TableRecords' = TableRecords
  PROVE  Held' = Held /\ Inserted' = Inserted
BY DEF Held, Inserted

\* So what was inserted survives them.
LEMMA StillSurvive ==
  ASSUME InsertedSurvive, Held' = Held, Inserted' = Inserted, IsUp' => IsUp
  PROVE  InsertedSurvive'
BY DEF InsertedSurvive, Survives

\* The steps of the flusher, the compactor and recovery that move none.
LEMMA BackgroundKeeps ==
  ASSUME TypeInv, TypeInv', FirstRun, NoReplay', NumberedInOrder, TreeOrder, MemOrder, Keeps,
         \/ FlushCleanup \/ CompactBegin \/ CompactMerge \/ CompactRemove
         \/ CompactDone \/ Reschedule \/ RescheduleClear \/ SnapshotNext \/ RecoverFinish \/ UNCHANGED vars
  PROVE  Keeps' /\ Carries
<1> USE DEF ctlVars, memVars, walVars, vsVars, compVars, histVars
<1>1. /\ FrozenTasks' = FrozenTasks /\ TableRecords' = TableRecords /\ UNCHANGED <<cl, mt, issued, acked>>
  BY BackgroundOrder
<1>2. Held' = Held /\ Inserted' = Inserted
  BY <1>1, SameHeld
<1> SUFFICES Keeps'
  BY <1>2 DEF Carries
<1>3. SyncFroze' /\ acked' \subseteq Inserted'
  BY <1>1, <1>2 DEF Keeps, SyncFroze, Froze
<1>4. /\ wal \in LogNums /\ nextFileNum \in Nat /\ nextFileNum' \in Nat /\ closedWals \subseteq Nat /\ wal < nextFileNum
      /\ \A t \in FrozenTasks : t.wal \in LogNums
  BY FrozenTypes DEF TypeInv, LogTypes, Counters, Keeps, LogAhead, FirstRun, Tasks
<1>5. CASE FlushCleanup
  <2>1. /\ fl.pc = "cleanup" /\ fl' = FlIdle /\ immt' = {} /\ UNCHANGED <<wal, phase, rv>>
        /\ closedWals' = IF fl.task.wal # NoWal THEN closedWals \cup {fl.task.wal} ELSE closedWals
        /\ UNCHANGED nextFileNum \/ nextFileNum' = nextFileNum + 1
    BY <1>5 DEF FlushCleanup, StartCompaction
  <2>2. fl'.pc = "idle"
    BY <2>1 DEF FlIdle
  <2>3. wal' < nextFileNum'
    BY <1>4, <2>1 DEF LogNums, NoWal
  <2>4. LogAhead'
    BY <1>1, <2>1, <2>2, <2>3 DEF Keeps, LogAhead
  <2>5. ImmtShown' /\ OpenedAlone'
    BY <1>1, <2>1, <2>2 DEF Keeps, ImmtShown, OpenedAlone
  <2>6. InsertedSurvive'
    BY <1>2, <2>1, StillSurvive DEF Keeps, IsUp
  <2> QED
    BY <1>3, <2>4, <2>5, <2>6 DEF Keeps
<1>6. CASE RecoverFinish
  <2>1. /\ rv.pc = "open" /\ phase' = "up" /\ wal' = nextFileNum /\ nextFileNum' = nextFileNum + 1
        /\ rv' = RvIdle /\ UNCHANGED <<closedWals, fl, immt>>
    BY <1>6 DEF RecoverFinish
  <2>2. CrashRecovery /\ phase = "recovering" /\ \A c \in Clients : cl[c].pc = "idle"
    BY <2>1 DEF Keeps, OpenedAlone, Idle
  <2>3. wal' < nextFileNum' /\ wal < wal'
    BY <1>4, <2>1 DEF LogNums, NoWal
  <2>4. \A n \in LogNums : n < wal => n < wal'
    BY <1>4, <2>1, <2>3 DEF LogNums, NoWal
  <2>5. fl.pc = "cleanup" => fl.task.wal \in LogNums
    BY DEF TypeInv, FlusherTypes, Tasks
  <2>6. LogAhead'
    BY <1>1, <1>4, <2>1, <2>2, <2>3, <2>4, <2>5 DEF Keeps, LogAhead, LogNums
  <2>7. ImmtShown' /\ OpenedAlone'
    BY <1>1, <2>1 DEF Keeps, ImmtShown, OpenedAlone, RvIdle
  <2>8. InsertedSurvive'
    BY <1>2, <2>1, <2>2, StillSurvive DEF Keeps, IsUp
  <2> QED
    BY <1>3, <2>6, <2>7, <2>8 DEF Keeps
<1>7. CASE UNCHANGED <<wal, closedWals, phase, rv, fl, immt>> /\ nextFileNum <= nextFileNum'
  <2>1. wal' < nextFileNum'
    BY <1>4, <1>7 DEF LogNums, NoWal
  <2>2. LogAhead'
    BY <1>1, <1>7, <2>1 DEF Keeps, LogAhead
  <2>3. ImmtShown' /\ OpenedAlone'
    BY <1>1, <1>7 DEF Keeps, ImmtShown, OpenedAlone
  <2>4. InsertedSurvive'
    BY <1>2, <1>7, StillSurvive DEF Keeps, IsUp
  <2> QED
    BY <1>3, <2>2, <2>3, <2>4 DEF Keeps
<1>8. CASE CompactBegin \/ CompactRemove \/ CompactDone \/ RescheduleClear \/ SnapshotNext \/ UNCHANGED vars
  BY <1>4, <1>7, <1>8 DEF CompactBegin, CompactRemove, CompactDone, RescheduleClear, SnapshotNext, NewSnapshot,
                          Release, vars
<1>9. CASE CompactMerge
  <2>1. UNCHANGED <<wal, closedWals, phase, rv, fl, immt>>
    BY <1>9 DEF CompactMerge
  <2>2. PICK fault : MergeOutcome(fault)
    BY <1>9, MergeSteps
  <2>3. /\ \A outs \in Seq(FullTables(issued)) : Len(outs) \in Nat
        /\ \A n \in Nat : nextFileNum <= nextFileNum + n + 1 /\ \A k \in 0..n : nextFileNum <= nextFileNum + k
    BY <1>4
  <2>4. nextFileNum <= nextFileNum'
    <3>1. ASSUME NEW outs \in Seq(FullTables(issued)), NEW scratch, Merged(outs, scratch)
          PROVE  nextFileNum <= nextFileNum'
      BY <2>3, <3>1 DEF Merged
    <3>2. ASSUME NEW outs \in Seq(FullTables(issued)), NEW k \in 0..Len(outs), Broken(outs, k)
          PROVE  nextFileNum <= nextFileNum'
      BY <2>3, <3>2 DEF Broken
    <3>3. CASE UNCHANGED nextFileNum
      BY <1>4, <3>3
    <3> QED
      BY <2>2, <3>1, <3>2, <3>3, Zenon DEF MergeOutcome
  <2> QED
    BY <1>7, <2>1, <2>4
<1>10. CASE Reschedule
  <2>1. UNCHANGED <<wal, closedWals, phase, rv, fl, immt>> /\ (UNCHANGED nextFileNum \/ nextFileNum' = nextFileNum + 1)
    BY <1>10 DEF Reschedule, StartCompaction
  <2> QED
    BY <1>4, <1>7, <2>1
<1> QED
  BY <1>5, <1>6, <1>8, <1>9, <1>10

\* The flusher takes a memtable and writes its table.
LEMMA FlushWriteKeeps ==
  ASSUME TypeInv, TypeInv', FirstRun, NoReplay', TreeOrder, MemOrder, Keeps, faults' = faults, FlushTake \/ FlushWrite
  PROVE  Keeps' /\ Carries
<1> USE DEF ctlVars, memVars, walVars, vsVars, compVars, histVars
<1>1. /\ FrozenTasks' = FrozenTasks /\ TableRecords' = TableRecords
      /\ UNCHANGED <<cl, mt, immt, issued, acked, wal, closedWals, phase, rv>>
      /\ fl.pc \in {"idle", "write"} /\ fl'.pc # "cleanup"
      /\ UNCHANGED nextFileNum \/ nextFileNum' = nextFileNum + 1
  <2>1. CASE FlushTake
    <3>1. /\ UNCHANGED <<cl, mt, immt, issued, acked, wal, closedWals, phase, rv, nextFileNum>>
          /\ fl.pc = "idle" /\ fl' = [FlIdle EXCEPT !.pc = "write", !.task = Head(flushQ)]
      BY <2>1 DEF FlushTake
    <3>2. fl'.pc = "write"
      BY <3>1 DEF FlIdle
    <3> QED
      BY <2>1, <3>1, <3>2, FlushTakeOrder
  <2>2. CASE FlushWrite
    <3>1. /\ UNCHANGED <<cl, mt, immt, issued, acked, wal, closedWals, phase, rv>>
          /\ fl.pc = "write" /\ (fl' = FlIdle \/ fl' = [fl EXCEPT !.pc = "install", !.next = nextFileNum])
          /\ UNCHANGED nextFileNum \/ nextFileNum' = nextFileNum + 1
      BY <2>2 DEF FlushWrite
    <3>2. fl'.pc # "cleanup"
      <4>1. fl \in Flushers(issued) /\ FlIdle.pc = "idle"
        BY DEF FlIdle, TypeInv, FlusherTypes
      <4> QED
        BY <3>1, <4>1 DEF Flushers
    <3> QED
      BY <2>2, <3>1, <3>2, FlushWriteOrder
  <2> QED
    BY <2>1, <2>2
<1>2. Held' = Held /\ Inserted' = Inserted
  BY <1>1, SameHeld
<1>3. wal' < nextFileNum'
  BY <1>1 DEF Keeps, LogAhead, TypeInv, LogTypes, LogNums, NoWal, Counters
<1>4. LogAhead' /\ ImmtShown'
  BY <1>1, <1>3 DEF Keeps, LogAhead, ImmtShown
<1>5. InsertedSurvive'
  BY <1>1, <1>2, StillSurvive DEF Keeps, IsUp
<1>6. SyncFroze' /\ OpenedAlone' /\ acked' \subseteq Inserted'
  BY <1>1, <1>2 DEF Keeps, SyncFroze, Froze, OpenedAlone
<1> QED
  BY <1>2, <1>4, <1>5, <1>6 DEF Keeps, Carries

\* The records of a table of level 0 more.
LEMMA FlushedRecords ==
  ASSUME NEW t, FileRecords(t)' = fl.task.mt, files' = files,
         TablesAt(0)' = TablesAt(0) \cup {t}, \A l \in Levels \ {0} : TablesAt(l)' = TablesAt(l)
  PROVE  TableRecords' = TableRecords \cup fl.task.mt
<1>1. 0 \in Levels
  BY ConstantTypes DEF Levels
<1>2. \A s : s \in LiveTables' <=> s \in LiveTables \/ s = t
  BY <1>1 DEF LiveTables
<1>3. \A s : FileRecords(s)' = FileRecords(s)
  BY DEF FileRecords, Readable
<1> QED
  BY <1>2, <1>3 DEF TableRecords

\* A flush that is installed: what was frozen is in a table.
LEMMA FlushInstallKeeps ==
  ASSUME TypeInv, TypeInv', FirstRun, NoReplay', TreeOrder, MemOrder, Keeps, faults' = faults, FlushInstall
  PROVE  Keeps' /\ Carries /\ TableRecords' = TableRecords \cup fl.task.mt
<1> USE DEF ctlVars, memVars, walVars, vsVars, compVars, histVars
<1>1. /\ fl.pc = "install" /\ fl'.pc = "cleanup"
      /\ UNCHANGED <<files, cl, rv, mt, immt, issued, acked, phase, wal, closedWals, nextFileNum>>
      /\ fl' = [fl EXCEPT !.pc = "cleanup"]
  BY FlushInstalled DEF FlushInstall
<1>2. fl'.task = fl.task
  BY <1>1 DEF TypeInv, FlusherTypes, Flushers
<1>3. PICK t : /\ FileRecords(t) = fl.task.mt /\ TablesAt(0)' = TablesAt(0) \cup {t}
               /\ \A l \in Levels \ {0} : TablesAt(l)' = TablesAt(l)
  BY FlushInstalled
<1>4. FileRecords(t)' = fl.task.mt
  BY <1>1, <1>3 DEF FileRecords, Readable
<1>5. TableRecords' = TableRecords \cup fl.task.mt
  BY <1>1, <1>3, <1>4, FlushedRecords
<1>6. fl.task \in FrozenTasks /\ FrozenTasks' = FrozenTasks \ {fl.task}
  BY FlushInstallOrder
<1>7. Held' = Held /\ Inserted' = Inserted
  BY <1>1, <1>5, <1>6 DEF Held, Inserted
<1>8. LogAhead'
  BY <1>1, <1>2, <1>6 DEF Keeps, LogAhead
<1>9. ImmtShown'
  BY <1>1, <1>2, <1>5, <1>6 DEF Keeps, ImmtShown
<1>10. InsertedSurvive'
  BY <1>1, <1>7, StillSurvive DEF Keeps, IsUp
<1>11. SyncFroze' /\ OpenedAlone' /\ acked' \subseteq Inserted'
  BY <1>1, <1>7 DEF Keeps, SyncFroze, Froze, OpenedAlone
<1> QED
  BY <1>5, <1>7, <1>8, <1>9, <1>10, <1>11 DEF Keeps, Carries

\* Of the records that a compaction replaces, every key has a newest one.
LEMMA NewestReplaced ==
  ASSUME TypeInv, NEW S \in SUBSET issued, NEW r \in S
  PROVE  \E h \in Heads(S) : h.key = r.key /\ r.seq <= h.seq
<1> DEFINE V == {q \in S : q.key = r.key}
           N == {q.seq : q \in V}
<1>1. \A q \in S : q.seq \in Nat
  BY RecordFields
<1>2. \A q \in S : q.seq \in 1..MaxWrites
  BY DEF TypeInv, History, Records
<1>3. IsFiniteSet(N)
  <2>1. N \subseteq 1..MaxWrites
    BY <1>2
  <2> QED
    <3>1. IsFiniteSet(1..MaxWrites)
      BY ConstantTypes, FS_Interval
    <3> QED
      BY <2>1, <3>1, FS_Subset
<1>4. N \in SUBSET Int /\ N # {} /\ r.seq \in N
  BY <1>1
<1>5. Max(N) \in N /\ \A n \in N : n <= Max(N)
  BY <1>3, <1>4, LeastKey
<1>6. PICK h \in V : h.seq = Max(N)
  BY <1>5
<1>7. h \in Heads(S)
  BY <1>5, <1>6 DEF Heads
<1> QED
  BY <1>4, <1>5, <1>6, <1>7

\* A table of the next level that a compaction leaves alone is beside all it replaces.
LEMMA BesideReplaced ==
  ASSUME TypeInv, FirstRun, TreeOrder, job.pc = "install",
         NEW s \in TablesAt(job.level + 1), s \notin ToSet(job.all), NEW u \in ToSet(job.all)
  PROVE  Beside(s, u)
<1> DEFINE lo == KeyRangeOf(job.inputs)[1]
           hi == KeyRangeOf(job.inputs)[2]
<1>1. \A t \in ToSet(job.all) \cup {s} : Whole(t)
  BY ReplacedTables DEF FirstRun, WholeTables, Listed, LiveTables
<1>2. \A t \in ToSet(job.all) \cup {s} : t.min.key \in Int /\ t.max.key \in Int
  BY <1>1, WholeBounds
<1>3. job.inputs # <<>>
  BY ReplacedTables
<1>4. lo \in Int /\ hi \in Int /\ \A t \in ToSet(job.inputs) : lo <= t.min.key /\ t.max.key <= hi
  <2>1. \A t \in ToSet(job.inputs) : t.min.key \in Int /\ t.max.key \in Int
    BY <1>2, ReplacedTables
  <2> QED
    BY <1>3, <2>1, ReplacedTables, InputRange
<1>5. s.max.key < lo \/ s.min.key > hi
  BY <1>3, ReplacedTables DEF Meets
<1>6. CASE u \in ToSet(job.inputs)
  BY <1>2, <1>4, <1>5, <1>6 DEF Beside
<1>7. CASE u \notin ToSet(job.inputs)
  BY <1>7, ReplacedTables DEF TreeOrder, DeepApart
<1> QED
  BY <1>6, <1>7

\* On the last level, all that is left of a key is newer than what a compaction replaces,
\* but for what it puts there itself.
LEMMA NewerThanReplaced ==
  ASSUME TypeInv, FirstRun, TreeOrder, MemOrder, job.pc = "install", job.level + 1 = Bottom,
         NEW h \in Replaced, NEW p, p.key = h.key,
         \/ p \in mt \/ (\E t \in FrozenTasks : p \in t.mt)
         \/ \E m \in Levels : \E s \in TablesAt(m) : s \notin ToSet(job.all) /\ p \in FileRecords(s)
  PROVE  h.seq < p.seq
<1>1. PICK u \in ToSet(job.all) : h \in FileRecords(u)
  BY DEF Replaced
<1>2. u \in LiveTables
  BY DEF FirstRun, JobInv
<1>3. h \in TableRecords
  BY <1>1, <1>2 DEF TableRecords
<1>4. CASE p \in mt \/ \E t \in FrozenTasks : p \in t.mt
  BY <1>3, <1>4 DEF MemOrder, FrozenOrder, Later
<1>5. ASSUME NEW m \in Levels, NEW s \in TablesAt(m), s \notin ToSet(job.all), p \in FileRecords(s)
      PROVE  h.seq < p.seq
  <2>1. job.level \in Nat /\ m \in Nat /\ m <= job.level + 1
    BY ReplacedTables, ConstantTypes DEF Levels
  <2>2. CASE m = 0
    BY <1>1, <1>5, <2>2, UntouchedTables DEF Later
  <2>3. CASE m # 0 /\ m <= job.level
    BY <1>1, <1>5, <2>3, UntouchedTables DEF Newer
  <2>4. CASE m = job.level + 1
    <3>1. Beside(s, u)
      BY <1>5, <2>4, BesideReplaced
    <3>2. Whole(s) /\ Whole(u)
      BY <1>2 DEF FirstRun, WholeTables, Listed, LiveTables
    <3> QED
      BY <1>1, <1>5, <3>1, <3>2, NoCommonKey
  <2> QED
    BY <2>1, <2>2, <2>3, <2>4
<1> QED
  BY <1>4, <1>5

\* The tables after a compaction hold what it has not replaced, and its outputs.
LEMMA CompactedRecords ==
  ASSUME TypeInv, FirstRun, TreeOrder, job.pc = "install", files' = files,
         \A l \in Levels : \A t : t \in TablesAt(l)' <=> \/ t \in TablesAt(l) /\ t \notin ToSet(job.all)
                                                         \/ t \in ToSet(job.outs) /\ l = job.level + 1
  PROVE  \A q : q \in TableRecords' <=>
           \/ \E m \in Levels : \E s \in TablesAt(m) : s \notin ToSet(job.all) /\ q \in FileRecords(s)
           \/ q \in OutRecords
<1>1. job.level + 1 \in Levels
  BY ReplacedTables
<1>2. \A t : FileRecords(t)' = FileRecords(t)
  BY DEF FileRecords, Readable
<1>3. \A t : t \in LiveTables' <=> \/ t \in ToSet(job.outs)
                                   \/ \E m \in Levels : t \in TablesAt(m) /\ t \notin ToSet(job.all)
  BY <1>1 DEF LiveTables
<1> QED
  BY <1>2, <1>3 DEF TableRecords, OutRecords

\* A compaction that is installed: what it drops is outdated, or a delete of the last
\* level that nothing older is left of.
LEMMA CompactInstallKeeps ==
  ASSUME TypeInv, TypeInv', FirstRun, NoReplay', NumberedInOrder, TreeOrder, MemOrder, Keeps, faults' = faults,
         CompactInstall
  PROVE  Keeps' /\ Carries /\ TableRecords' \subseteq TableRecords
<1>1. /\ job.pc = "install" /\ FrozenTasks' = FrozenTasks /\ TableRecords' \subseteq TableRecords
      /\ UNCHANGED <<files, fl, cl, rv, mt, immt, issued, acked, phase, wal, closedWals, nextFileNum>>
  BY CompactInstalled, CompactInstallOrder, CompactedTree
<1>2. fl.pc # "cleanup"
  BY DEF TypeInv, Locks, CompactInstall
<1>3. Inserted' = Inserted /\ Held' \subseteq Held
  BY <1>1 DEF Inserted, Held
<1>4. LogAhead' /\ ImmtShown' /\ SyncFroze' /\ OpenedAlone' /\ acked' \subseteq Inserted'
  BY <1>1, <1>2, <1>3 DEF Keeps, LogAhead, ImmtShown, SyncFroze, Froze, OpenedAlone
<1>5. \A q : q \in TableRecords' <=>
           \/ \E m \in Levels : \E s \in TablesAt(m) : s \notin ToSet(job.all) /\ q \in FileRecords(s)
           \/ q \in OutRecords
  BY <1>1, CompactInstalled, CompactedRecords
<1>6. ASSUME NEW q \in Held, q \notin Held' PROVE q \in Replaced
  <2>1. q \in TableRecords /\ q \notin TableRecords'
    BY <1>1, <1>6 DEF Held
  <2>2. PICK s \in LiveTables : q \in FileRecords(s)
    BY <2>1 DEF TableRecords
  <2>3. s \in ToSet(job.all)
    BY <1>5, <2>1, <2>2 DEF LiveTables
  <2> QED
    BY <2>2, <2>3 DEF Replaced
<1>7. Replaced \subseteq TableRecords /\ Replaced \subseteq Held /\ Held \subseteq Inserted /\ Inserted \subseteq issued
  <2>1. Replaced \subseteq TableRecords
    BY <1>1 DEF Replaced, TableRecords, FirstRun, JobInv
  <2> QED
    BY <2>1 DEF Held, MemOrder, WaitingNewest, Inserted
<1>8. ASSUME NEW q \in Replaced
      PROVE  \/ \E p \in Held' : p.key = q.key /\ q.seq <= p.seq
             \/ \E d \in Inserted : /\ d.del /\ d.key = q.key /\ q.seq <= d.seq
                                    /\ \A p \in Held' : p.key = q.key => d.seq < p.seq
  <2>1. Replaced \in SUBSET issued
    BY <1>7
  <2>2. PICK h \in Heads(Replaced) : h.key = q.key /\ q.seq <= h.seq
    BY <2>1, NewestReplaced
  <2>3. h \in Replaced
    BY DEF Heads
  <2>4. CASE h \in OutRecords
    BY <1>5, <2>2, <2>4 DEF Held
  <2>5. CASE h \notin OutRecords
    <3>1. h.del /\ job.level + 1 = Bottom
      BY <1>1, <2>5 DEF TreeOrder, OutsMerged
    <3>2. ASSUME NEW p \in Held', p.key = q.key PROVE h.seq < p.seq
      <4>1. CASE p \in OutRecords
        <5>1. p \in Heads(Replaced)
          BY <1>1, <4>1 DEF TreeOrder, OutsMerged
        <5>2. p.seq <= h.seq /\ h.seq <= p.seq
          BY <2>2, <2>3, <3>2, <5>1 DEF Heads
        <5>3. p \in issued /\ h \in issued
          BY <2>1, <5>1 DEF Heads
        <5>4. p.seq = h.seq /\ p.seq = p.val /\ h.seq = h.val
          BY <5>2, <5>3, RecordFields DEF NumberedInOrder
        <5> QED
          BY <2>5, <4>1, <5>3, <5>4, RecordFields
      <4>2. CASE p \notin OutRecords
        <5>1. \/ p \in mt \/ (\E t \in FrozenTasks : p \in t.mt)
              \/ \E m \in Levels : \E s \in TablesAt(m) : s \notin ToSet(job.all) /\ p \in FileRecords(s)
          BY <1>1, <1>5, <3>2, <4>2 DEF Held
        <5> QED
          BY <1>1, <2>2, <2>3, <3>1, <3>2, <5>1, NewerThanReplaced
      <4> QED
        BY <4>1, <4>2
    <3> QED
      BY <1>7, <2>2, <2>3, <3>1, <3>2
  <2> QED
    BY <2>4, <2>5
<1>9. InsertedSurvive'
  <2> SUFFICES ASSUME IsUp, NEW r \in Inserted PROVE Survives(r)'
    BY <1>1, <1>3 DEF InsertedSurvive, IsUp
  <2>1. Survives(r)
    BY DEF Keeps, InsertedSurvive
  <2>2. CASE \E d \in Inserted : /\ d.del /\ d.key = r.key /\ r.seq <= d.seq
                                 /\ \A q \in Held : q.key = r.key => d.seq < q.seq
    BY <1>3, <2>2 DEF Survives
  <2>3. ASSUME NEW q \in Held, q.key = r.key, r.seq <= q.seq PROVE Survives(r)'
    <3>1. CASE q \in Held'
      BY <2>3, <3>1 DEF Survives
    <3>2. CASE q \notin Held'
      <4>1. q \in Replaced
        BY <1>6, <3>2
      <4>2. r \in issued /\ q \in issued
        BY <1>7
      <4>3. \A p \in issued : q.seq <= p.seq => r.seq <= p.seq
        BY <2>3, <4>2, RecordFields
      <4>4. \/ \E p \in Held' : p.key = r.key /\ q.seq <= p.seq
            \/ \E d \in Inserted : /\ d.del /\ d.key = r.key /\ q.seq <= d.seq
                                   /\ \A p \in Held' : p.key = r.key => d.seq < p.seq
        BY <1>8, <2>3, <4>1
      <4> QED
        BY <1>3, <1>7, <4>3, <4>4 DEF Survives
    <3> QED
      BY <3>1, <3>2
  <2> QED
    BY <2>1, <2>2, <2>3 DEF Survives
<1> QED
  BY <1>1, <1>3, <1>4, <1>9 DEF Keeps, Carries

\* What has been inserted, where only one call is in progress.
LEMMA AloneInserted ==
  ASSUME TypeInv, NEW c \in Clients, \A d \in Clients : d # c => cl[d] = Idle, NEW r, Become(c, r)
  PROVE  /\ \A d \in Clients : cl'[d] = IF d = c THEN r ELSE Idle
         /\ Inserted = issued \ Waiting(cl[c]) /\ Inserted' = issued' \ Waiting(r)
<1>1. \A d \in Clients : cl'[d] = IF d = c THEN r ELSE Idle
  BY DEF Become, TypeInv, CallTypes
<1>2. UNION {Waiting(cl[d]) : d \in Clients} = Waiting(cl[c])
  BY IdleCall
<1>3. UNION {Waiting(cl[d])' : d \in Clients} = Waiting(r)
  BY <1>1, IdleCall
<1> QED
  BY <1>1, <1>2, <1>3 DEF Inserted

\* A step of the only call that moves no record.
LEMMA CallKeeps ==
  ASSUME TypeInv, Keeps, NEW c \in Clients, NEW r, Become(c, r), rv.pc = "idle",
         UNCHANGED <<mt, immt, wal, closedWals, fl, nextFileNum, rv>>,
         FrozenTasks' = FrozenTasks, TableRecords' = TableRecords, Inserted' = Inserted, IsUp' => IsUp,
         r.pc = "append" => r.wal = wal, Froze(r), acked' \subseteq Inserted'
  PROVE  Keeps' /\ Carries
<1>1. \A d \in Clients : cl'[d] = IF d = c THEN r ELSE cl[d]
  BY DEF Become, TypeInv, CallTypes
<1>2. Held' = Held
  BY DEF Held
<1>3. LogAhead' /\ ImmtShown' /\ SyncFroze' /\ OpenedAlone'
  BY <1>1 DEF Keeps, LogAhead, ImmtShown, SyncFroze, Froze, OpenedAlone
<1>4. InsertedSurvive'
  BY <1>2, StillSurvive DEF Keeps
<1> QED
  BY <1>2, <1>3, <1>4 DEF Keeps, Carries

\* A call that writes begins.
LEMMA StartKeeps ==
  ASSUME TypeInv, TypeInv', FirstRun, NoReplay', NumberedInOrder, TreeOrder, MemOrder, Keeps, NEW c \in Clients,
         \A d \in Clients : d # c => cl[d] = Idle, Put(c) \/ Delete(c) \/ WriteBatch(c)
  PROVE  Keeps' /\ Carries
<1> USE DEF ctlVars, memVars, walVars, vsVars, compVars, histVars
<1>1. \E n \in Nat \ {0} : \E ks \in [1..n -> Keys], ds \in [1..n -> BOOLEAN] : Starts(c, ks, ds)
  BY WriteStarts
<1>2. \E op \in {"write", "batch"}, pc \in {"stall", "log", "apply"} : \E recs : Start(c, op, pc, recs)
  BY <1>1 DEF Starts
<1> PICK op \in {"write", "batch"}, pc \in {"stall", "log", "apply"} : \E recs : Start(c, op, pc, recs)
  BY <1>2
<1> PICK recs : Start(c, op, pc, recs)
  OBVIOUS
<1>3. PICK r : r = [Idle EXCEPT !.op = op, !.pc = pc, !.recs = recs]
  OBVIOUS
<1>4. r.op = op /\ r.pc = pc
  BY <1>3 DEF Idle
<1>5. /\ phase = "up" /\ Become(c, r) /\ UNCHANGED <<mt, immt, wal, closedWals, fl, nextFileNum, rv, acked, phase>>
  BY <1>3 DEF Start
<1>6. FrozenTasks' = FrozenTasks /\ Inserted' = Inserted /\ TableRecords' = TableRecords
  BY StartOrder
<1>7. rv.pc = "idle"
  BY <1>5 DEF Keeps, OpenedAlone
<1>8. Froze(r) /\ r.pc # "append"
  BY <1>4 DEF Froze
<1> QED
  BY <1>5, <1>6, <1>7, <1>8, CallKeeps DEF Keeps, IsUp

\* The tasks of the only call, when it has none before and after a step.
LEMMA SameFrozen ==
  ASSUME TypeInv, TypeInv', NoReplay, NoReplay', NEW c \in Clients, NEW r, Become(c, r), UNCHANGED <<flushQ, fl>>,
         Pending(cl[c]) = {}, Pending(r) = {}
  PROVE  FrozenTasks' = FrozenTasks
<1>1. \A d \in Clients : cl'[d] = IF d = c THEN r ELSE cl[d]
  BY DEF Become, TypeInv, CallTypes
<1>2. \A t : Frozen(t)' <=> Frozen(t)
  BY <1>1 DEF Frozen, Busy
<1> QED
  BY <1>2, FrozenParts

\* A write goes on to the log and through it: the log is open.
LEMMA LogKeeps ==
  ASSUME TypeInv, TypeInv', FirstRun, NoReplay', TreeOrder, Keeps, NEW c \in Clients, faults' = faults,
         \A d \in Clients : d # c => cl[d] = Idle, Stall(c) \/ ReadWal(c) \/ AppendWal(c)
  PROVE  Keeps' /\ Held' = Held /\ Inserted' = Inserted /\ FrozenTasks' = FrozenTasks
<1> USE DEF ctlVars, memVars, walVars, vsVars, compVars, histVars
<1>1. cl[c] \in Calls(issued) /\ CallShape(cl[c]) /\ faults \in Nat
  BY DEF TypeInv, CallTypes, Counters
<1>2. /\ cl[c].pc \in {"stall", "log", "append"}
      /\ UNCHANGED <<levels, job, files, flushQ, mt, immt, wal, closedWals, fl, nextFileNum, rv, issued, phase>>
  BY DEF Stall, ReadWal, AppendWal
<1>3. wal \notin closedWals
  <2>1. wal \in LogNums /\ \A n \in closedWals : n < wal
    BY DEF Keeps, LogAhead, TypeInv, LogTypes
  <2> QED
    BY <2>1 DEF LogNums, NoWal
<1>4. PICK p \in {"apply", "log", "append"}, w \in {wal, cl[c].wal} :
        Become(c, [cl[c] EXCEPT !.pc = p, !.wal = w]) /\ acked' = acked /\ (p = "append" => w = wal)
  <2>1. CASE Stall(c)
    <3>1. [cl[c] EXCEPT !.pc = AfterStall] = [cl[c] EXCEPT !.pc = AfterStall, !.wal = cl[c].wal]
      BY <1>1 DEF Calls
    <3>2. AfterStall \in {"apply", "log"}
      BY DEF AfterStall
    <3> QED
      BY <2>1, <3>1, <3>2 DEF Stall
  <2>2. CASE ReadWal(c)
    BY <2>2 DEF ReadWal
  <2>3. CASE AppendWal(c)
    <3>1. [cl[c] EXCEPT !.pc = "apply"] = [cl[c] EXCEPT !.pc = "apply", !.wal = cl[c].wal]
      BY <1>1 DEF Calls
    <3>2. PICK fault : /\ Count(fault) /\ cl[c].pc = "append"
                       /\ \/ cl[c].wal \in closedWals
                          \/ fault = "append"
                          \/ Become(c, [cl[c] EXCEPT !.pc = "apply"]) /\ acked' = acked
      BY <2>3 DEF AppendWal
    <3>3. cl[c].wal = wal /\ fault # "append"
      BY <1>1, <3>2 DEF Keeps, LogAhead, Count
    <3> QED
      BY <1>3, <3>1, <3>2, <3>3
  <2> QED
    BY <2>1, <2>2, <2>3
<1>5. PICK r : r = [cl[c] EXCEPT !.pc = p, !.wal = w]
  OBVIOUS
<1>6. r.pc = p /\ r.wal = w /\ r.recs = cl[c].recs /\ r.i = cl[c].i /\ r.tasks = <<>> /\ cl[c].tasks = <<>> /\ r.op = cl[c].op
  BY <1>1, <1>2, <1>5 DEF Calls, CallShape
<1>7. Become(c, r) /\ (r.pc = "append" => r.wal = wal)
  BY <1>4, <1>5, <1>6
<1>8. Pending(r) = {} /\ Pending(cl[c]) = {} /\ Waiting(r) = Waiting(cl[c])
  BY <1>2, <1>6 DEF Pending, Waiting
<1>9. FrozenTasks' = FrozenTasks
  BY <1>2, <1>7, <1>8, SameFrozen DEF FirstRun
<1>10. TableRecords' = TableRecords
  BY <1>2, OrderFrame DEF KeepsFiles
<1>11. Inserted' = Inserted
  BY <1>2, <1>7, <1>8, AloneInserted
<1>12. Froze(r) /\ rv.pc = "idle"
  <2>1. Froze(cl[c])
    BY DEF Keeps, SyncFroze
  <2>2. cl[c].op # "sync"
    BY <1>2, <2>1 DEF Froze
  <2>3. cl[c] # Idle
    BY <1>2 DEF Idle
  <2> QED
    BY <1>6, <2>2, <2>3 DEF Froze, Keeps, OpenedAlone
<1>13. Keeps'
  BY <1>2, <1>4, <1>7, <1>9, <1>10, <1>11, <1>12, CallKeeps DEF Keeps, IsUp
<1> QED
  BY <1>2, <1>9, <1>10, <1>11, <1>13 DEF Held

\* Sync and Close begin, and Sync returns.
LEMMA SyncKeeps ==
  ASSUME TypeInv, TypeInv', FirstRun, NoReplay', TreeOrder, Keeps, NEW c \in Clients, faults' = faults,
         \A d \in Clients : d # c => cl[d] = Idle, Sync(c) \/ Close(c) \/ SyncReturn(c)
  PROVE  Keeps' /\ Held' = Held /\ Inserted' = Inserted /\ FrozenTasks' = FrozenTasks
<1> USE DEF ctlVars, memVars, walVars, vsVars, compVars, histVars
<1>1. UNCHANGED <<levels, job, files, flushQ, mt, immt, wal, closedWals, fl, nextFileNum, rv, issued, acked>>
  BY DEF Sync, Close, SyncReturn
<1>2. PICK r : /\ Become(c, r) /\ Pending(r) = {} /\ Pending(cl[c]) = {} /\ Waiting(r) = {} /\ Waiting(cl[c]) = {}
               /\ Froze(r) /\ r.pc # "append" /\ (phase = "up" \/ cl[c] # Idle) /\ (IsUp' => IsUp)
  <2>1. CASE Sync(c) \/ Close(c)
    <3>1. PICK o \in {"sync", "close"} : Become(c, Idle) \/ Become(c, [Idle EXCEPT !.op = o, !.pc = "rotate"])
      BY <2>1 DEF Sync, Close
    <3>2. PICK r : r = [Idle EXCEPT !.op = o, !.pc = "rotate"]
      OBVIOUS
    <3>3. r.pc = "rotate" /\ Idle.pc = "idle" /\ Idle.op = "none"
      BY <3>2 DEF Idle
    <3>4. cl[c] = Idle /\ phase = "up"
      BY <2>1 DEF Sync, Close
    <3>5. Pending(r) = {} /\ Waiting(r) = {} /\ Froze(r) /\ Froze(Idle)
      BY <3>3 DEF Pending, Waiting, Froze
    <3> QED
      BY <3>1, <3>2, <3>3, <3>4, <3>5, IdleCall DEF IsUp
  <2>2. CASE SyncReturn(c)
    <3>1. cl[c].pc = "wait" /\ Become(c, Idle) /\ phase' = phase
      BY <2>2 DEF SyncReturn
    <3>2. Idle.pc = "idle" /\ Idle.op = "none"
      BY DEF Idle
    <3>3. Pending(cl[c]) = {} /\ Waiting(cl[c]) = {} /\ cl[c] # Idle /\ Froze(Idle)
      BY <3>1, <3>2 DEF Pending, Waiting, Froze
    <3> QED
      BY <3>1, <3>2, <3>3, IdleCall DEF IsUp
  <2> QED
    BY <2>1, <2>2
<1>3. FrozenTasks' = FrozenTasks
  BY <1>1, <1>2, SameFrozen DEF FirstRun
<1>4. TableRecords' = TableRecords
  BY <1>1, OrderFrame DEF KeepsFiles
<1>5. Inserted' = Inserted
  BY <1>1, <1>2, AloneInserted
<1>6. rv.pc = "idle"
  BY <1>2 DEF Keeps, OpenedAlone
<1>7. Keeps'
  BY <1>1, <1>2, <1>3, <1>4, <1>5, <1>6, CallKeeps DEF Keeps
<1> QED
  BY <1>1, <1>3, <1>4, <1>5, <1>7 DEF Held

\* A task is sent.
LEMMA SendKeeps ==
  ASSUME TypeInv, TypeInv', FirstRun, NoReplay', TreeOrder, MemOrder, Keeps, NEW c \in Clients,
         \A d \in Clients : d # c => cl[d] = Idle, Send(c)
  PROVE  Keeps' /\ Held' = Held /\ Inserted' = Inserted
<1> USE DEF ctlVars, memVars, walVars, vsVars, compVars, histVars
<1>1. PICK r : /\ cl[c].pc = "send" /\ cl[c] # Idle /\ Become(c, r) /\ ~Writing(r) /\ Waiting(cl[c]) = {}
               /\ UNCHANGED <<mt, immt, issued, rv, phase, fl, wal, closedWals, nextFileNum>>
  BY Sending
<1>2. FrozenTasks' = FrozenTasks /\ Inserted' = Inserted /\ TableRecords' = TableRecords
  BY SendOrder
<1>3. \A d \in Clients : cl'[d] = IF d = c THEN r ELSE Idle
  BY <1>1, AloneInserted
<1>4. Inserted' = issued'
  <2>1. Waiting(r) = {}
    BY <1>1 DEF Waiting, Writing
  <2> QED
    BY <1>1, <2>1, AloneInserted
<1>5. acked' \subseteq Inserted'
  BY <1>4 DEF TypeInv, History
<1>6. rv.pc = "idle"
  BY <1>1 DEF Keeps, OpenedAlone
<1>7. Froze(r)
  <2>1. \/ r = Idle
        \/ \E p \in {"wait", "send"} : r = [cl[c] EXCEPT !.i = @ + 1, !.pc = p]
    <3>1. \/ Become(c, Idle)
          \/ \E p \in {"wait", "send"} : Become(c, [cl[c] EXCEPT !.i = @ + 1, !.pc = p])
      BY DEF Send
    <3>2. \A s : Become(c, s) => s = r
      BY <1>1 DEF Become, TypeInv, CallTypes
    <3> QED
      BY <3>1, <3>2
  <2>2. CASE r = Idle
    BY <2>2 DEF Froze, Idle
  <2>3. ASSUME NEW p \in {"wait", "send"}, r = [cl[c] EXCEPT !.i = @ + 1, !.pc = p] PROVE Froze(r)
    <3>1. r.op = cl[c].op /\ r.pc = p /\ r.tasks = cl[c].tasks
      BY <2>3 DEF TypeInv, CallTypes, Calls
    <3>2. Froze(cl[c])
      BY DEF Keeps, SyncFroze
    <3> QED
      BY <1>1, <3>1, <3>2 DEF Froze
  <2> QED
    BY <2>1, <2>2, <2>3
<1>8. r.pc # "append"
  BY <1>1 DEF Writing
<1>9. Keeps'
  BY <1>1, <1>2, <1>5, <1>6, <1>7, <1>8, CallKeeps DEF IsUp
<1> QED
  BY <1>1, <1>2, <1>9 DEF Held

\* A memtable that is frozen is the last task of the call, with the log it was written to.
LEMMA FreezeLog ==
  ASSUME TypeInv, TypeInv', NoReplay, NoReplay', Keeps, NEW c \in Clients, \A d \in Clients : d # c => cl[d] = Idle,
         NEW r, NEW m, Become(c, r), r.pc # "append", UNCHANGED <<flushQ, fl>>, TableRecords' = TableRecords,
         Freezes(cl[c], r, m)
  PROVE  LogAhead' /\ ImmtShown' /\ FrozenTasks' = FrozenTasks \cup {RotateTask(m)}
<1>1. \A d \in Clients : cl'[d] = IF d = c THEN r ELSE Idle
  BY AloneInserted
<1>2. PICK t : t = RotateTask(m)
  OBVIOUS
<1>3. t.mt = m /\ t.wal = wal
  BY <1>2 DEF RotateTask, Task
<1>4. FrozenTasks' = FrozenTasks \cup {t}
  <2>1. ASSUME NEW s PROVE Frozen(s)' <=> Frozen(s) \/ s = t
    <3>1. (\E d \in Clients : \E i \in Pending(cl'[d]) : s = cl'[d].tasks[i]) <=> \E i \in Pending(r) : s = r.tasks[i]
      BY <1>1, IdleCall
    <3>2. (\E d \in Clients : \E i \in Pending(cl[d]) : s = cl[d].tasks[i])
            <=> \E i \in Pending(cl[c]) : s = cl[c].tasks[i]
      BY IdleCall
    <3>3. (\E i \in Pending(r) : s = r.tasks[i]) <=> (\E i \in Pending(cl[c]) : s = cl[c].tasks[i]) \/ s = t
      BY <1>2 DEF Freezes
    <3> QED
      BY <3>1, <3>2, <3>3 DEF Frozen, Busy
  <2> QED
    BY <2>1, FrozenParts
<1>5. ImmtShown'
  BY <1>3, <1>4 DEF Keeps, ImmtShown, Freezes
<1>6. /\ wal \in LogNums /\ nextFileNum \in Nat /\ closedWals \subseteq Nat /\ wal < nextFileNum
      /\ \A s \in FrozenTasks : s.wal \in LogNums
      /\ fl.pc = "cleanup" => fl.task.wal \in LogNums
  BY FrozenTypes DEF TypeInv, LogTypes, Counters, Keeps, LogAhead, Tasks, FlusherTypes
<1>7. \A d \in Clients : cl'[d].pc # "append"
  BY <1>1 DEF Idle
<1>8. CASE CrashRecovery
  <2>1. wal' = nextFileNum /\ nextFileNum' = nextFileNum + 2 /\ closedWals' = closedWals
    BY <1>6, <1>8 DEF Freezes, TableNum
  <2>2. wal < wal' /\ wal' < nextFileNum' /\ \A n \in LogNums : n < wal => n < wal'
    BY <1>6, <2>1 DEF LogNums, NoWal
  <2> QED
    BY <1>2, <1>3, <1>4, <1>5, <1>6, <1>7, <1>8, <2>1, <2>2 DEF Keeps, LogAhead, LogNums
<1>9. CASE ~CrashRecovery
  <2>1. wal = NoWal /\ wal' = wal /\ nextFileNum' = nextFileNum + 1 /\ closedWals' = closedWals
    BY <1>6, <1>9 DEF Freezes, TableNum, Keeps, LogAhead
  <2>2. wal' < nextFileNum'
    BY <1>6, <2>1 DEF NoWal
  <2> QED
    BY <1>2, <1>3, <1>4, <1>5, <1>7, <2>1, <2>2 DEF Keeps, LogAhead
<1> QED
  BY <1>8, <1>9

\* A record is inserted: it is newer than every delete before it.
LEMMA InsertSurvives ==
  ASSUME TypeInv, InsertedSurvive, NEW x \in issued, \A q \in Inserted : q.seq < x.seq,
         Held' = Held \cup {x}, Inserted' = Inserted \cup {x}, IsUp' => IsUp
  PROVE  InsertedSurvive'
<1>1. x.seq <= x.seq
  BY RecordFields
<1>2. Survives(x)'
  BY <1>1 DEF Survives
<1>3. ASSUME NEW r \in Inserted, Survives(r) PROVE Survives(r)'
  BY <1>3 DEF Survives
<1> QED
  BY <1>2, <1>3 DEF InsertedSurvive

\* The state a call is in after an insertion.
LEMMA InsertedCall ==
  ASSUME TypeInv, NEW c \in Clients, Apply(c), NEW r, Become(c, r)
  PROVE  r = Idle \/ (r.op = cl[c].op /\ r.pc \in {"apply", "send"})
<1> DEFINE tasks == IF Cardinality(mt \cup {cl[c].recs[cl[c].i]}) >= MemtableSize
                    THEN Append(cl[c].tasks, RotateTask(mt \cup {cl[c].recs[cl[c].i]})) ELSE cl[c].tasks
<1>1. \/ Become(c, Idle)
      \/ cl[c].pc = "apply" /\ Become(c, [cl[c] EXCEPT !.i = @ + 1, !.tasks = tasks])
      \/ Become(c, [cl[c] EXCEPT !.pc = "send", !.i = 1, !.tasks = tasks])
  BY DEF Apply
<1> HIDE DEF tasks
<1>2. \A s : Become(c, s) => s = r
  BY DEF Become, TypeInv, CallTypes
<1>3. cl[c] \in Calls(issued)
  BY DEF TypeInv, CallTypes
<1>4. CASE Become(c, Idle)
  BY <1>2, <1>4
<1>5. CASE cl[c].pc = "apply" /\ Become(c, [cl[c] EXCEPT !.i = @ + 1, !.tasks = tasks])
  <2>1. r = [cl[c] EXCEPT !.i = @ + 1, !.tasks = tasks]
    BY <1>2, <1>5
  <2> QED
    BY <1>3, <1>5, <2>1 DEF Calls
<1>6. CASE Become(c, [cl[c] EXCEPT !.pc = "send", !.i = 1, !.tasks = tasks])
  <2>1. r = [cl[c] EXCEPT !.pc = "send", !.i = 1, !.tasks = tasks]
    BY <1>2, <1>6
  <2> QED
    BY <1>3, <2>1 DEF Calls
<1> QED
  BY <1>1, <1>4, <1>5, <1>6

\* A record is inserted, and a full memtable frozen.
LEMMA ApplyKeeps ==
  ASSUME TypeInv, TypeInv', FirstRun, NoReplay', TreeOrder, MemOrder, Keeps, NEW c \in Clients, faults' = faults,
         \A d \in Clients : d # c => cl[d] = Idle, Apply(c)
  PROVE  Keeps' /\ Carries
<1>1. PICK r, x, m :
        /\ cl[c].pc = "apply" /\ Become(c, r) /\ x \in Waiting(cl[c]) /\ m = mt \cup {x}
        /\ UNCHANGED <<flushQ, fl, job, rv, issued, starts, phase, levels>>
        /\ KeepsFiles({PathOf(t) : t \in Listed}) /\ (job.pc = "install" => KeepsFiles(Paths(job.outs)))
        /\ acked' = acked \/ (r = Idle /\ acked' = acked \cup ToSet(cl[c].recs))
        /\ Waiting(r) = Waiting(cl[c]) \ {x}
        /\ Grows(cl[c], r, m) \/ Freezes(cl[c], r, m)
  BY Insertion
<1>2. TableRecords' = TableRecords
  BY <1>1, OrderFrame
<1>3. /\ \A d \in Clients : cl'[d] = IF d = c THEN r ELSE Idle
      /\ Inserted = issued \ Waiting(cl[c]) /\ Inserted' = issued' \ Waiting(r)
  BY <1>1, AloneInserted
<1>4. Waiting(cl[c]) \subseteq issued
  <2>1. cl[c] \in Calls(issued) /\ CallShape(cl[c])
    BY DEF TypeInv, CallTypes
  <2>2. cl[c].recs \in Seq(issued) /\ cl[c].i \in 1..Len(cl[c].recs)
    BY <1>1, <2>1 DEF Calls, CallShape
  <2> QED
    BY <2>2 DEF Waiting
<1>5. Inserted' = Inserted \cup {x} /\ x \in issued /\ \A q \in Inserted : q.seq < x.seq
  <2>1. \A q \in Inserted : q.seq < x.seq
    BY <1>1 DEF MemOrder, WaitingNewest
  <2>2. Inserted' = Inserted \cup {x} /\ x \in issued
    BY <1>1, <1>3, <1>4
  <2> QED
    BY <2>1, <2>2
<1>6. r = Idle \/ (r.op = cl[c].op /\ r.pc \in {"apply", "send"})
  BY <1>1, InsertedCall
<1>7. Idle.pc = "idle" /\ Idle.op = "none" /\ cl[c] # Idle
  BY <1>1 DEF Idle
<1>8. r.pc # "append" /\ r.op # "sync" /\ rv.pc = "idle"
  BY <1>1, <1>6, <1>7 DEF Keeps, SyncFroze, Froze, OpenedAlone
<1>9. SyncFroze' /\ OpenedAlone'
  BY <1>1, <1>3, <1>7, <1>8 DEF SyncFroze, Froze, OpenedAlone
<1>10. acked' \subseteq Inserted'
  <2>1. CASE acked' = acked
    BY <1>5, <2>1 DEF Keeps
  <2>2. CASE r = Idle
    BY <1>3, <2>2, IdleCall DEF TypeInv, History
  <2> QED
    BY <1>1, <2>1, <2>2
<1>11. /\ LogAhead' /\ ImmtShown'
       /\ mt' \cup (UNION {t.mt : t \in FrozenTasks'}) = mt \cup {x} \cup (UNION {t.mt : t \in FrozenTasks})
  <2>1. CASE Grows(cl[c], r, m)
    <3>1. FrozenTasks' = FrozenTasks
      <4>1. ASSUME NEW s PROVE Frozen(s)' <=> Frozen(s)
        <5>1. (\E d \in Clients : \E i \in Pending(cl'[d]) : s = cl'[d].tasks[i]) <=> \E i \in Pending(r) : s = r.tasks[i]
          BY <1>3, IdleCall
        <5>2. (\E d \in Clients : \E i \in Pending(cl[d]) : s = cl[d].tasks[i])
                <=> \E i \in Pending(cl[c]) : s = cl[c].tasks[i]
          BY IdleCall
        <5>3. (\E i \in Pending(r) : s = r.tasks[i]) <=> \E i \in Pending(cl[c]) : s = cl[c].tasks[i]
          BY <2>1 DEF Grows
        <5> QED
          BY <1>1, <5>1, <5>2, <5>3 DEF Frozen, Busy
      <4> QED
        BY <4>1, FrozenParts DEF FirstRun
    <3>2. mt' = mt \cup {x} /\ UNCHANGED <<immt, wal, closedWals, nextFileNum, fl>>
      BY <1>1, <2>1 DEF Grows
    <3>3. \A d \in Clients : cl'[d].pc # "append"
      BY <1>3, <1>7, <1>8
    <3>4. LogAhead' /\ ImmtShown'
      BY <1>2, <3>1, <3>2, <3>3 DEF Keeps, LogAhead, ImmtShown
    <3> QED
      BY <3>1, <3>2, <3>4
  <2>2. CASE Freezes(cl[c], r, m)
    <3>1. LogAhead' /\ ImmtShown' /\ FrozenTasks' = FrozenTasks \cup {RotateTask(m)}
      BY <1>1, <1>2, <1>8, <2>2, FreezeLog DEF FirstRun
    <3>2. mt' = {} /\ RotateTask(m).mt = mt \cup {x}
      BY <1>1, <2>2 DEF Freezes, RotateTask, Task
    <3>3. PICK t : t = RotateTask(m)
      OBVIOUS
    <3> QED
      BY <3>1, <3>2, <3>3
  <2> QED
    BY <1>1, <2>1, <2>2
<1>12. Held' = Held \cup {x}
  BY <1>2, <1>11 DEF Held
<1>13. InsertedSurvive'
  BY <1>1, <1>5, <1>12, InsertSurvives DEF Keeps, IsUp
<1>14. x \notin Inserted
  BY <1>1, <1>3
<1> QED
  BY <1>5, <1>9, <1>10, <1>11, <1>12, <1>13, <1>14 DEF Keeps, Carries

\* Sync and Close freeze the memtable.
LEMMA RotateForSyncKeeps ==
  ASSUME TypeInv, TypeInv', FirstRun, NoReplay', TreeOrder, MemOrder, Keeps, NEW c \in Clients, faults' = faults,
         \A d \in Clients : d # c => cl[d] = Idle, RotateForSync(c)
  PROVE  Keeps' /\ Held' = Held /\ Inserted' = Inserted
<1>1. PICK r :
        /\ cl[c].pc = "rotate" /\ Become(c, r) /\ ~Writing(r) /\ Waiting(cl[c]) = {} /\ Pending(cl[c]) = {}
        /\ UNCHANGED <<flushQ, fl, job, rv, issued, acked, starts, levels, phase>>
        /\ KeepsFiles({PathOf(t) : t \in Listed}) /\ (job.pc = "install" => KeepsFiles(Paths(job.outs)))
        /\ \/ mt' = mt /\ Pending(r) = {} /\ UNCHANGED <<immt, wal, closedWals, nextFileNum>>
           \/ Freezes(cl[c], r, mt)
  BY Rotation
<1>2. TableRecords' = TableRecords
  BY <1>1, OrderFrame
<1>3. Waiting(r) = {} /\ r.pc # "append"
  BY <1>1 DEF Waiting, Writing
<1>4. Inserted' = Inserted
  BY <1>1, <1>3, AloneInserted
<1>5. cl[c] \in Calls(issued) /\ cl[c] # Idle /\ rv.pc = "idle" /\ Idle.op = "none"
  <2>1. cl[c] # Idle /\ Idle.op = "none"
    BY <1>1 DEF Idle
  <2> QED
    BY <2>1 DEF TypeInv, CallTypes, Keeps, OpenedAlone
<1>6. \A d \in Clients : cl'[d] = IF d = c THEN r ELSE Idle
  BY <1>1, AloneInserted
<1>7. r.op = "sync" => r.pc = "send" /\ r.tasks # <<>>
  <2>1. \/ Become(c, Idle)
        \/ cl[c].op # "sync" /\ Become(c, [cl[c] EXCEPT !.pc = "wait"])
        \/ Become(c, [cl[c] EXCEPT !.pc = "send", !.tasks = <<RotateTask(mt)>>])
    BY DEF RotateForSync
  <2>2. \A s : Become(c, s) => s = r
    BY <1>1 DEF Become, TypeInv, CallTypes
  <2>3. CASE Become(c, [cl[c] EXCEPT !.pc = "send", !.tasks = <<RotateTask(mt)>>])
    <3>1. r = [cl[c] EXCEPT !.pc = "send", !.tasks = <<RotateTask(mt)>>]
      BY <2>2, <2>3
    <3>2. r.pc = "send" /\ r.tasks = <<RotateTask(mt)>>
      BY <1>5, <3>1 DEF Calls
    <3> QED
      BY <3>2
  <2>4. CASE cl[c].op # "sync" /\ Become(c, [cl[c] EXCEPT !.pc = "wait"])
    <3>1. r = [cl[c] EXCEPT !.pc = "wait"]
      BY <2>2, <2>4
    <3> QED
      BY <1>5, <2>4, <3>1 DEF Calls
  <2> QED
    BY <1>5, <2>1, <2>2, <2>3, <2>4
<1>8. OpenedAlone' /\ acked' \subseteq Inserted'
  BY <1>1, <1>4, <1>5 DEF Keeps, OpenedAlone
<1>9. LogAhead' /\ ImmtShown' /\ SyncFroze' /\ Held' = Held
  <2>1. CASE mt' = mt /\ Pending(r) = {} /\ UNCHANGED <<immt, wal, closedWals, nextFileNum>>
    <3>1. FrozenTasks' = FrozenTasks
      BY <1>1, <2>1, SameFrozen DEF FirstRun
    <3>2. \A d \in Clients : cl'[d].pc # "append"
      BY <1>3, <1>6 DEF Idle
    <3>3. r.op # "sync"
      <4> SUFFICES ASSUME r.op = "sync" PROVE FALSE
        OBVIOUS
      <4>1. r.pc = "send" /\ r.tasks # <<>>
        BY <1>7
      <4>2. r \in Calls(issued') /\ CallShape(r)
        BY <1>6 DEF TypeInv, CallTypes
      <4>3. r.i \in 1..Len(r.tasks) /\ Len(r.tasks) \in Nat
        BY <4>1, <4>2 DEF CallShape, Calls
      <4> QED
        BY <2>1, <4>1, <4>3 DEF Pending
    <3>4. SyncFroze'
      BY <1>5, <1>6, <3>3 DEF SyncFroze, Froze
    <3> QED
      BY <1>1, <1>2, <2>1, <3>1, <3>2, <3>4 DEF Keeps, LogAhead, ImmtShown, Held
  <2>2. CASE Freezes(cl[c], r, mt)
    <3>1. LogAhead' /\ ImmtShown' /\ FrozenTasks' = FrozenTasks \cup {RotateTask(mt)}
      BY <1>1, <1>2, <1>3, <2>2, FreezeLog DEF FirstRun
    <3>2. mt' = {} /\ RotateTask(mt).mt = mt
      BY <2>2 DEF Freezes, RotateTask, Task
    <3>3. PICK t : t = RotateTask(mt)
      OBVIOUS
    <3>4. Held' = Held
      BY <1>2, <3>1, <3>2, <3>3 DEF Held
    <3>5. SyncFroze'
      BY <1>5, <1>6, <1>7, <3>2 DEF SyncFroze, Froze
    <3> QED
      BY <3>1, <3>4, <3>5
  <2> QED
    BY <1>1, <2>1, <2>2
<1>10. InsertedSurvive'
  BY <1>1, <1>4, <1>9, StillSurvive DEF Keeps, IsUp
<1> QED
  BY <1>4, <1>8, <1>9, <1>10 DEF Keeps

\* An engine that is not open can only be opened.
LEMMA OnlyOpened ==
  ASSUME TypeInv, phase \in {"down", "failed"}, [Next]_vars PROVE New \/ OpenTorn \/ UNCHANGED vars
<1>1. phase \in {"down", "failed"}
  OBVIOUS
<1>2. \A c \in Clients : cl[c].pc = "idle"
  BY <1>1, UpFacts DEF IsUp
<1>3. fl.pc = "idle" /\ job.pc = "none" /\ resched = 0 /\ rv.pc = "idle"
  BY <1>1, UpFacts DEF IsUp
<1>4. ~\E c \in Clients : ClientNext(c) \/ CloseReturn(c)
  <2> SUFFICES ASSUME NEW c \in Clients, ClientNext(c) \/ CloseReturn(c) PROVE FALSE
    OBVIOUS
  <2>1. cl[c].pc = "idle"
    BY <1>2
  <2>2. CASE Put(c) \/ Delete(c) \/ WriteBatch(c)
    <3>1. \E n \in Nat \ {0} : \E ks \in [1..n -> Keys], ds \in [1..n -> BOOLEAN] : Starts(c, ks, ds)
      BY <2>2, WriteStarts
    <3>2. \E op, pc, recs : Start(c, op, pc, recs)
      BY <3>1 DEF Starts
    <3> QED
      BY <1>1, <3>2 DEF Start
  <2>3. CASE Sync(c) \/ Close(c)
    BY <1>1, <2>3 DEF Sync, Close
  <2>4. CASE \/ Stall(c) \/ ReadWal(c) \/ AppendWal(c) \/ Apply(c) \/ Send(c) \/ RotateForSync(c)
             \/ SyncReturn(c) \/ CloseReturn(c)
    BY <2>1, <2>4 DEF Stall, ReadWal, AppendWal, Apply, Send, RotateForSync, SyncReturn, CloseReturn
  <2> QED
    BY <2>2, <2>3, <2>4 DEF ClientNext
<1>5. ~FlusherNext
  BY <1>1, <1>3 DEF FlusherNext, FlushTake, FlushWrite, FlushInstall, FlushCleanup
<1>6. ~CompactorNext
  BY <1>3 DEF CompactorNext, CompactBegin, CompactMerge, CompactInstall, CompactRemove, CompactDone, Reschedule,
              RescheduleClear
<1>7. ~SnapshotNext /\ ~Crash
  BY <1>1 DEF SnapshotNext, NewSnapshot, Release, Crash
<1>8. RecoveryNext => New \/ OpenTorn
  BY <1>3 DEF RecoveryNext, RecoverOpen, RecoverRecord, RecoverFails, RecoverSend, RecoverLogDone, RecoverFinish
<1> QED
  BY <1>4, <1>5, <1>6, <1>7, <1>8 DEF Next, Quiet

\* The memory is empty, and nothing was written that could be lost.
LEMMA EmptyKeeps ==
  ASSUME TypeInv', NoReplay', wal' = NoWal, wal' < nextFileNum', closedWals' = {}, immt' = {}, flushQ' = <<>>,
         fl' = FlIdle, \A c \in Clients : cl'[c] = Idle, rv'.pc # "idle" => CrashRecovery /\ phase' = "recovering",
         IsUp' => issued' = {}
  PROVE  Keeps'
<1>1. fl'.pc = "idle" /\ Idle.pc = "idle" /\ Idle.op = "none" /\ Len(flushQ') = 0
  BY DEF FlIdle, Idle
<1>2. FrozenTasks' = {}
  BY <1>1, IdleCall, FrozenParts DEF Frozen, Busy
<1>3. Inserted' = issued'
  BY IdleCall DEF Inserted
<1>4. LogAhead' /\ ImmtShown' /\ SyncFroze' /\ OpenedAlone'
  BY <1>1, <1>2 DEF LogAhead, ImmtShown, SyncFroze, Froze, OpenedAlone
<1>5. InsertedSurvive' /\ acked' \subseteq Inserted'
  BY <1>3 DEF InsertedSurvive, TypeInv, History
<1> QED
  BY <1>4, <1>5 DEF Keeps

\* The process stops, or starts for the first time.
LEMMA RestartKeeps ==
  ASSUME TypeInv, TypeInv', FirstRun, NoReplay', NumberedInOrder, Keeps, starts = 0 => wal = NoWal,
         starts' <= 1, Crash \/ (\E c \in Clients : CloseReturn(c)) \/ New
  PROVE  Keeps'
<1> USE DEF memVars, histVars
<1>1. CASE Crash \/ (\E c \in Clients : CloseReturn(c))
  <2>1. LoseMemory /\ phase' = "down"
    BY <1>1 DEF Crash, CloseReturn
  <2>2. /\ wal' = NoWal /\ nextFileNum' = 0 /\ closedWals' = {} /\ immt' = {} /\ flushQ' = <<>> /\ fl' = FlIdle
        /\ \A c \in Clients : cl'[c] = Idle
        /\ rv'.pc = "idle"
    BY <2>1 DEF LoseMemory, RvIdle
  <2>3. wal' < nextFileNum' /\ ~IsUp'
    BY <2>1, <2>2 DEF NoWal, IsUp
  <2> QED
    BY <2>2, <2>3, EmptyKeeps
<1>2. CASE New
  <2>1. starts = 0
    BY <1>2 DEF New, TypeInv, Counters
  <2>2. phase = "down" /\ manifest = NoManifest /\ issued = {} /\ wal = NoWal
    BY <2>1 DEF FirstRun, Fresh, NumberedInOrder
  <2>3. /\ nextFileNum' = 1 /\ UNCHANGED <<immt, wal, closedWals, flushQ, fl, cl, issued>>
        /\ rv'.pc # "idle" => CrashRecovery /\ phase' = "recovering"
    BY <1>2, <2>2 DEF New, NoManifest, RvIdle
  <2>4. flushQ = <<>> /\ fl = FlIdle /\ cl = [c \in Clients |-> Idle] /\ rv.pc = "idle"
    BY <2>2 DEF TypeInv, Lost, RvIdle
  <2>5. closedWals = {}
    BY <2>2 DEF Keeps, LogAhead, NoWal, TypeInv, LogTypes
  <2>6. fl.pc = "idle" /\ Len(flushQ) = 0
    BY <2>4 DEF FlIdle
  <2>7. FrozenTasks = {}
    BY <2>4, <2>6, IdleCall, FrozenParts DEF Frozen, Busy, FirstRun
  <2>8. immt = {}
    BY <2>6, <2>7 DEF Keeps, ImmtShown
  <2>9. wal' < nextFileNum'
    BY <2>2, <2>3 DEF NoWal
  <2> QED
    BY <2>2, <2>3, <2>4, <2>5, <2>8, <2>9, EmptyKeeps
<1> QED
  BY <1>1, <1>2

\* The calls of one client.
LEMMA ClientKeeps ==
  ASSUME TypeInv, TypeInv', FirstRun, NoReplay', NumberedInOrder, TreeOrder, MemOrder, Keeps, OneCall, OneCall',
         faults' = faults, NEW c \in Clients, ClientNext(c)
  PROVE  Keeps' /\ Carries
<1>1. CASE Put(c) \/ Delete(c) \/ WriteBatch(c)
  <2>1. PICK n \in Nat \ {0} : \E ks \in [1..n -> Keys], ds \in [1..n -> BOOLEAN] : Starts(c, ks, ds)
    BY <1>1, WriteStarts
  <2>2. \E op \in {"write", "batch"}, pc \in {"stall", "log", "apply"} : \E recs : Start(c, op, pc, recs)
    BY <2>1 DEF Starts
  <2> PICK op \in {"write", "batch"}, pc \in {"stall", "log", "apply"} : \E recs : Start(c, op, pc, recs)
    BY <2>2
  <2> PICK recs : Start(c, op, pc, recs)
    OBVIOUS
  <2>3. PICK r : r = [Idle EXCEPT !.op = op, !.pc = pc, !.recs = recs]
    OBVIOUS
  <2>4. r.pc = pc /\ Idle.pc = "idle" /\ Become(c, r)
    BY <2>3 DEF Idle, Start
  <2>5. \A d \in Clients : d # c => cl[d] = Idle
    BY <2>4, OthersIdle
  <2> QED
    BY <1>1, <2>5, StartKeeps
<1>2. CASE \/ Apply(c) \/ Send(c) \/ RotateForSync(c) \/ Stall(c) \/ ReadWal(c) \/ AppendWal(c) \/ SyncReturn(c)
  <2>1. cl[c].pc # "idle" /\ Idle.pc = "idle"
    BY <1>2 DEF Apply, Send, RotateForSync, Stall, ReadWal, AppendWal, SyncReturn, Idle
  <2>2. \A d \in Clients : d # c => cl[d] = Idle
    BY <2>1 DEF OneCall
  <2> QED
    BY <1>2, <2>2, ApplyKeeps, SendKeeps, RotateForSyncKeeps, LogKeeps, SyncKeeps DEF Carries
<1>3. CASE Sync(c) \/ Close(c)
  <2>1. PICK o \in {"sync", "close"} : Become(c, [Idle EXCEPT !.op = o, !.pc = "rotate"])
    <3>1. CASE Sync(c)
      <4>1. PICK fault \in Faults(IF CrashRecovery THEN {"fsync"} ELSE {}) :
              Count(fault) /\ Become(c, IF fault = "none" THEN [Idle EXCEPT !.op = "sync", !.pc = "rotate"] ELSE Idle)
        BY <3>1 DEF Sync
      <4>2. fault = "none"
        BY <4>1 DEF Count, TypeInv, Counters
      <4> QED
        BY <4>1, <4>2
    <3>2. CASE Close(c)
      BY <3>2 DEF Close
    <3> QED
      BY <1>3, <3>1, <3>2
  <2>2. PICK r : r = [Idle EXCEPT !.op = o, !.pc = "rotate"]
    OBVIOUS
  <2>3. r.pc = "rotate" /\ Idle.pc = "idle" /\ Become(c, r)
    BY <2>1, <2>2 DEF Idle
  <2>4. \A d \in Clients : d # c => cl[d] = Idle
    BY <2>3, OthersIdle
  <2> QED
    BY <1>3, <2>4, SyncKeeps DEF Carries
<1> QED
  BY <1>1, <1>2, <1>3 DEF ClientNext

\* Every step of calls that do not overlap keeps what was inserted, up to the second start
\* and the first failing file operation.
LEMMA NextKeeps ==
  ASSUME IInv, IInv', OneCall, OneCall', OrderInv, KeptInv, [Next]_vars
  PROVE  KeptInv'
<1>1. TypeInv /\ TypeInv' /\ starts \in Nat /\ faults \in Nat /\ starts' \in Nat /\ faults' \in Nat
  BY DEF IInv, TypeInv, Counters
<1>2. ASSUME starts' = 0 PROVE wal' = NoWal
  <2>1. starts = 0
    BY <1>1, <1>2, StartsCounted
  <2>2. Fresh
    BY <2>1 DEF IInv, FirstRun
  <2>3. UNCHANGED vars
    BY <1>1, <1>2, <2>1, <2>2, OnlyOpened DEF New, OpenTorn, Fresh
  <2> QED
    BY <2>1, <2>3 DEF vars, walVars, KeptInv
<1> SUFFICES ASSUME starts' <= 1, faults' = 0 PROVE Keeps'
  BY <1>2 DEF KeptInv, Undisturbed
<1>3. starts <= 1 /\ faults = 0 /\ faults' = faults
  BY <1>1, StartsCounted, FaultsCounted
<1>4. FirstRun /\ NumberedInOrder /\ NoReplay' /\ TreeOrder /\ MemOrder /\ Keeps
  BY <1>3 DEF IInv, FirstRun, OrderInv, KeptInv, Undisturbed
<1>5. ASSUME NEW c \in Clients, ClientNext(c) PROVE Keeps'
  BY <1>1, <1>3, <1>4, <1>5, ClientKeeps
<1>6. CASE FlusherNext
  BY <1>1, <1>3, <1>4, <1>6, FlushWriteKeeps, FlushInstallKeeps, BackgroundKeeps DEF FlusherNext
<1>7. CASE CompactorNext
  BY <1>1, <1>3, <1>4, <1>7, CompactInstallKeeps, BackgroundKeeps DEF CompactorNext
<1>8. CASE SnapshotNext \/ UNCHANGED vars \/ RecoverFinish
  BY <1>1, <1>4, <1>8, BackgroundKeeps
<1>9. CASE Crash \/ (\E c \in Clients : CloseReturn(c)) \/ New
  BY <1>1, <1>4, <1>9, RestartKeeps DEF KeptInv
<1>10. CASE RecoverOpen \/ RecoverRecord \/ RecoverSend \/ RecoverLogDone
  BY <1>4, <1>10 DEF RecoverOpen, RecoverRecord, RecoverSend, RecoverLogDone, FirstRun, NoReplay
<1>11. CASE RecoverFails
  BY <1>1, <1>3, <1>11 DEF RecoverFails, Faults, Count
<1>12. CASE Quiet
  BY <1>8, <1>12 DEF Quiet
<1> QED
  BY <1>1, <1>4, <1>5, <1>6, <1>7, <1>8, <1>9, <1>10, <1>11, <1>12, NotTornFirst DEF Next, RecoveryNext

\* An engine that was never started has lost nothing.
LEMMA InitKeeps == ASSUME Init, TypeInv, NoReplay PROVE KeptInv
<1>1. /\ wal = NoWal /\ nextFileNum = 0 /\ closedWals = {} /\ immt = {} /\ flushQ = <<>> /\ issued = {} /\ acked = {}
      /\ fl.pc = "idle" /\ rv.pc = "idle" /\ Len(flushQ) = 0 /\ \A c \in Clients : cl[c] = Idle
  BY DEF Init, FlIdle, RvIdle
<1>2. Idle.pc = "idle" /\ Idle.op = "none" /\ NoWal < 0
  BY DEF Idle, NoWal
<1>3. FrozenTasks = {}
  BY <1>1, IdleCall, FrozenParts DEF Frozen, Busy
<1>4. Inserted = {}
  BY <1>1 DEF Inserted
<1> QED
  BY <1>1, <1>2, <1>3, <1>4
     DEF KeptInv, Keeps, LogAhead, ImmtShown, InsertedSurvive, SyncFroze, Froze, OpenedAlone

\* What survives is represented.
LEMMA Surviving ==
  ASSUME TypeInv, NumberedInOrder, MemOrder, NEW r \in Inserted, Survives(r) PROVE Represented(r, Held)
<1>1. Held \subseteq Inserted /\ Inserted \subseteq issued
  BY DEF MemOrder, WaitingNewest, Inserted
<1>2. \A q \in Inserted : q.seq = q.val /\ q.seq \in Nat
  BY <1>1, RecordFields DEF NumberedInOrder
<1>3. ASSUME NEW q \in Held, q.key = r.key, r.seq <= q.seq PROVE Represented(r, Held)
  BY <1>1, <1>2, <1>3 DEF Represented
<1>4. ASSUME NEW d \in Inserted, d.del, d.key = r.key, r.seq <= d.seq,
             \A q \in Held : q.key = r.key => d.seq < q.seq
      PROVE  Represented(r, Held)
  BY <1>1, <1>2, <1>4 DEF Represented
<1> QED
  BY <1>3, <1>4 DEF Survives

\* What immt shows is held elsewhere too.
LEMMA StoredHeld == ASSUME ImmtShown PROVE Stored = Held
<1>1. \A m \in immt : m \subseteq Held
  BY DEF ImmtShown, Held
<1> QED
  BY <1>1 DEF Stored, Held

\* A call that waits in Sync ends in an open engine by SyncReturn only.
LEMMA SyncEnds ==
  ASSUME TypeInv, NEW c \in Clients, cl[c].op = "sync", cl[c].pc = "wait", cl'[c] = Idle, phase' = "up", [Next]_vars
  PROVE  SyncReturn(c)
<1> USE DEF ctlVars, memVars, walVars, vsVars, compVars, histVars
<1>1. cl' # cl /\ cl[c] # Idle
  BY DEF Idle
<1>2. \A d \in Clients : \A r : d # c => ~Become(d, r)
  BY <1>1 DEF Become, TypeInv, CallTypes
<1>3. ASSUME NEW d \in Clients, ClientNext(d) PROVE SyncReturn(c)
  <2>1. CASE Put(d) \/ Delete(d) \/ WriteBatch(d)
    <3>1. \E n \in Nat \ {0} : \E ks \in [1..n -> Keys], ds \in [1..n -> BOOLEAN] : Starts(d, ks, ds)
      BY <2>1, WriteStarts
    <3>2. \E op, pc, recs : Start(d, op, pc, recs)
      BY <3>1 DEF Starts
    <3> QED
      BY <1>1, <1>2, <3>2 DEF Start
  <2>2. CASE d # c
    <3>1. CASE Stall(d) \/ ReadWal(d) \/ Send(d) \/ Sync(d) \/ Close(d) \/ SyncReturn(d)
      BY <1>2, <2>2, <3>1 DEF Stall, ReadWal, Send, Sync, Close, SyncReturn
    <3>2. CASE AppendWal(d) \/ Apply(d) \/ RotateForSync(d)
      BY <1>2, <2>2, <3>2 DEF AppendWal, Apply, RotateForSync
    <3> QED
      BY <1>3, <2>1, <3>1, <3>2 DEF ClientNext
  <2>3. CASE d = c
    BY <1>1, <1>3, <2>1, <2>3 DEF ClientNext, Stall, ReadWal, AppendWal, Apply, Send, Sync, Close, RotateForSync
  <2> QED
    BY <2>2, <2>3
<1>4. ~FlusherNext
  BY <1>1 DEF FlusherNext, FlushTake, FlushWrite, FlushInstall, FlushCleanup
<1>5. ~CompactorNext
  <2>1. ~CompactMerge
    BY <1>1 DEF CompactMerge
  <2> QED
    BY <1>1, <2>1 DEF CompactorNext, CompactBegin, CompactInstall, CompactRemove, CompactDone, Reschedule, RescheduleClear
<1>6. ~SnapshotNext /\ ~Quiet /\ ~UNCHANGED vars
  BY <1>1 DEF SnapshotNext, NewSnapshot, Release, Quiet, vars
<1>7. ~Crash /\ \A d \in Clients : ~CloseReturn(d)
  BY DEF Crash, CloseReturn
<1>8. ~RecoveryNext
  BY <1>1 DEF RecoveryNext, New, OpenTorn, RecoverOpen, RecoverRecord, RecoverFails, RecoverSend, RecoverLogDone, RecoverFinish
<1> QED
  BY <1>3, <1>4, <1>5, <1>6, <1>7, <1>8 DEF Next

\* When Sync returns, all that was inserted is in the tables of the manifest.
LEMMA SyncDone ==
  ASSUME IInv, OrderInv, KeptInv, OneCall, Undisturbed, NEW c \in Clients, SyncReturn(c), IsUp
  PROVE  \A r \in cl[c].tasks[1].mt : Represented(r, UNION {FileRecords(t) : t \in ManifestTables})
<1>1. /\ TypeInv /\ FirstRun /\ NumberedInOrder /\ TreeOrder /\ MemOrder /\ Keeps
  BY DEF IInv, OrderInv, KeptInv, Undisturbed
<1>2. cl[c].op = "sync" /\ cl[c].pc = "wait" /\ flushQ = <<>> /\ fl.pc = "idle"
  BY DEF SyncReturn, Flushed
<1>3. \A d \in Clients : d # c => cl[d] = Idle
  BY <1>2 DEF OneCall, Idle
<1>4. Pending(cl[c]) = {} /\ Waiting(cl[c]) = {}
  BY <1>2 DEF Pending, Waiting
<1>5. FrozenTasks = {}
  BY <1>1, <1>2, <1>3, <1>4, IdleCall, FrozenParts DEF Frozen, Busy, FirstRun
<1>6. mt = {} /\ cl[c].tasks # <<>>
  BY <1>1, <1>2 DEF Keeps, SyncFroze, Froze
<1>7. Held = TableRecords
  BY <1>5, <1>6 DEF Held
<1>8. Inserted = issued
  <2>1. \A d \in Clients : Waiting(cl[d]) = {}
    BY <1>3, <1>4, IdleCall
  <2> QED
    BY <2>1 DEF Inserted
<1>9. cl[c].tasks[1].mt \subseteq issued
  <2>1. cl[c].tasks \in Seq(Tasks(issued)) /\ cl[c].tasks # <<>>
    BY <1>1, <1>6 DEF TypeInv, CallTypes, Calls
  <2>2. cl[c].tasks[1] \in Tasks(issued)
    BY <2>1
  <2> QED
    BY <2>2 DEF Tasks
<1>10. (UNION {FileRecords(t) : t \in ManifestTables}) = Held
  <2>1. manifest.levels = levels
    BY <1>1 DEF FirstRun, Mirrored, Undisturbed
  <2> QED
    BY <1>7, <2>1 DEF ManifestTables, LiveTables, TablesAt, TableRecords
<1>11. ASSUME NEW r \in cl[c].tasks[1].mt PROVE Represented(r, Held)
  <2>1. r \in Inserted
    BY <1>8, <1>9
  <2>2. Survives(r)
    BY <1>1, <2>1 DEF Keeps, InsertedSurvive
  <2> QED
    BY <1>1, <2>1, <2>2, Surviving
<1> QED
  BY <1>10, <1>11

----------------------------------------------------------------------------
\* Until the second start and the first failing file operation, everything that has
\* reached a memtable is still held or has been replaced by something newer; the log a
\* call appends to is the open one, and the memtable Sync waits for is the only one.
THEOREM NothingIsDropped == Spec /\ []OneCall => []KeptInv
<1>1. IInv => TypeInv
  BY DEF IInv
<1>2. Init => IInv
  BY InitFirst
<1>3. ASSUME Init, IInv PROVE KeptInv
  <2>1. starts = 0
    BY <1>3 DEF Init
  <2>2. NoReplay
    BY <1>3, <2>1 DEF IInv, FirstRun
  <2> QED
    BY <1>1, <1>3, <2>2, InitKeeps
<1>4. IInv /\ IInv' /\ OneCall /\ OneCall' /\ OrderInv /\ KeptInv /\ [Next]_vars => KeptInv'
  BY NextKeeps
<1>5. Spec => []IInv
  BY EngineInvariant
<1>6. Spec /\ []OneCall => []OrderInv
  BY TreeIsOrdered
<1> QED
  BY <1>2, <1>3, <1>4, <1>5, <1>6, PTL DEF Spec

\* Put, Delete and WriteBatch that have returned are not lost: through rotation, flush
\* and compaction, in any interleaving with one call at a time, every acknowledged write
\* or what replaced it is in a memtable or a live table.
THEOREM NoAckedIsLost == Spec /\ []OneCall => [](Undisturbed => NoAckedLost)
<1>1. ASSUME IInv, OrderInv, KeptInv PROVE Undisturbed => NoAckedLost
  <2> SUFFICES ASSUME Undisturbed, phase = "up", NEW r \in acked PROVE Represented(r, Stored)
    BY DEF NoAckedLost
  <2>1. TypeInv /\ NumberedInOrder /\ MemOrder /\ Keeps
    BY <1>1 DEF IInv, OrderInv, KeptInv, Undisturbed
  <2>2. r \in Inserted /\ Survives(r)
    BY <2>1 DEF Keeps, InsertedSurvive, IsUp
  <2>3. Stored = Held
    BY <2>1, StoredHeld DEF Keeps
  <2> QED
    BY <2>1, <2>2, <2>3, Surviving
<1>2. Spec => []IInv
  BY EngineInvariant
<1>3. Spec /\ []OneCall => []OrderInv
  BY TreeIsOrdered
<1>4. Spec /\ []OneCall => []KeptInv
  BY NothingIsDropped
<1> QED
  BY <1>1, <1>2, <1>3, <1>4, PTL

\* A Sync that has frozen a memtable returns only when everything in it, or what replaced
\* it, is in tables that the manifest lists.
THEOREM SyncIsDurable == Spec /\ [](OneCall /\ Undisturbed) => SyncFlushes
<1> DEFINE Sound == \A c \in Clients : cl[c].op = "sync" /\ cl[c].pc = "wait" /\ cl'[c] = Idle /\ phase' = "up" =>
                      \A r \in cl[c].tasks[1].mt : Represented(r, UNION {FileRecords(t) : t \in ManifestTables})
<1>1. ASSUME IInv, OrderInv, KeptInv, OneCall, Undisturbed, [Next]_vars PROVE Sound
  <2> SUFFICES ASSUME NEW c \in Clients, cl[c].op = "sync", cl[c].pc = "wait", cl'[c] = Idle, phase' = "up"
               PROVE  \A r \in cl[c].tasks[1].mt : Represented(r, UNION {FileRecords(t) : t \in ManifestTables})
    OBVIOUS
  <2>1. SyncReturn(c)
    BY <1>1, SyncEnds DEF IInv
  <2>2. IsUp
    BY <2>1 DEF SyncReturn, ctlVars, IsUp
  <2> QED
    BY <1>1, <2>1, <2>2, SyncDone
<1>2. Spec => []IInv
  BY EngineInvariant
<1>3. Spec /\ []OneCall => []OrderInv
  BY TreeIsOrdered
<1>4. Spec /\ []OneCall => []KeptInv
  BY NothingIsDropped
<1>5. Spec /\ [](OneCall /\ Undisturbed) => [][Sound]_vars
  <2> HIDE DEF Sound
  <2> QED
    BY <1>1, <1>2, <1>3, <1>4, PTL DEF Spec
<1> QED
  BY <1>5, PTL DEF SyncFlushes

----------------------------------------------------------------------------
\* The version of key k, among some records, that a read at sequence number s sees; and
\* that there is none.
Visible(r, k, s) == r.key = k /\ r.seq <= s
Seen(S, k, s) == {r \in S : Visible(r, k, s) /\ \A q \in S : Visible(q, k, s) => q.seq <= r.seq}
Blank(S, k, s) == \A r \in S : ~Visible(r, k, s)

\* There is one as soon as there is any version.
LEMMA SeenExists ==
  ASSUME TypeInv, NEW S \in SUBSET issued, NEW k, NEW s \in Nat
  PROVE  Seen(S, k, s) = {} <=> Blank(S, k, s)
<1>1. ASSUME NEW r \in S, Visible(r, k, s) PROVE Seen(S, k, s) # {}
  <2> DEFINE V == {q \in S : q.seq <= s}
  <2>1. V \in SUBSET issued /\ r \in V
    BY <1>1 DEF Visible
  <2>2. PICK h \in Heads(V) : h.key = r.key /\ r.seq <= h.seq
    BY <2>1, NewestReplaced
  <2>3. h \in Seen(S, k, s)
    BY <1>1, <2>2 DEF Seen, Visible, Heads
  <2> QED
    BY <2>3
<1> QED
  BY <1>1 DEF Blank, Seen

\* There is never more than one.
LEMMA SeenOnce ==
  ASSUME TypeInv, NumberedInOrder, NEW S \in SUBSET issued, NEW k, NEW s, NEW r \in Seen(S, k, s)
  PROVE  Seen(S, k, s) = {r}
<1> SUFFICES ASSUME NEW q \in Seen(S, k, s) PROVE q = r
  OBVIOUS
<1>1. q \in issued /\ r \in issued /\ q.seq <= r.seq /\ r.seq <= q.seq
  BY DEF Seen
<1>2. q.val = r.val
  BY <1>1, RecordFields DEF NumberedInOrder
<1> QED
  BY <1>1, <1>2, RecordFields

\* Skiplist.search and TableReader.Get return it.
LEMMA SearchSees ==
  ASSUME TypeInv, NumberedInOrder, NEW S \in SUBSET issued, NEW k \in Int, NEW s \in Nat
  PROVE  Search(S, Lookup(k, s)) = Seen(S, k, s)
<1> DEFINE lookup == Lookup(k, s)
           after  == {r \in S : Compare(r, lookup) >= 0}
           first  == FirstOf(after)
<1>1. lookup.key = k /\ lookup.seq = s
  BY DEF Lookup
<1>2. Search(S, lookup) = IF after = {} THEN {} ELSE {r \in {first} : r.key = k}
  BY <1>1 DEF Search
<1>3. \A r \in S : r \in issued /\ r.key \in Int /\ r.seq \in Nat /\ r.val = r.seq
  BY RecordFields DEF NumberedInOrder
<1> HIDE DEF lookup
<1>4. \A r \in S : r \in after <=> r.key > k \/ Visible(r, k, s)
  BY <1>1, <1>3 DEF Compare, Visible
<1> HIDE DEF after
<1>5. CASE after = {}
  <2>1. Blank(S, k, s)
    BY <1>4, <1>5 DEF Blank
  <2> QED
    BY <1>2, <1>5, <2>1, SeenExists DEF lookup
<1>6. CASE after # {}
  <2>1. after \in SUBSET S
    BY DEF after
  <2>2. IsFiniteSet(after) /\ Numbered(after)
    <3>1. IsFiniteSet(after)
      BY <2>1, FS_Subset DEF TypeInv, History
    <3> QED
      BY <1>3, <2>1, <3>1, RecordFields DEF Numbered
  <2>3. first \in after /\ \A q \in after \ {first} : Ahead(first, q)
    BY <1>6, <2>2, FirstIsAhead
  <2> HIDE DEF first
  <2>4. \A q \in after : first.key <= q.key /\ (first.key = q.key => q.seq <= first.seq)
    <3> SUFFICES ASSUME NEW q \in after, q # first
                 PROVE  first.key <= q.key /\ (first.key = q.key => q.seq <= first.seq)
      BY <1>3, <2>1, <2>3
    <3>1. Ahead(first, q) /\ first \in S /\ q \in S
      BY <2>1, <2>3
    <3> QED
      BY <1>3, <3>1 DEF Ahead, Compare
  <2>5. CASE first.key = k
    <3>1. first \in Seen(S, k, s)
      <4>1. Visible(first, k, s)
        BY <1>3, <1>4, <2>1, <2>3, <2>5
      <4>2. \A q \in S : Visible(q, k, s) => q.seq <= first.seq
        BY <1>4, <2>4, <2>5 DEF Visible
      <4> QED
        BY <2>1, <2>3, <4>1, <4>2 DEF Seen
    <3>2. Seen(S, k, s) = {first}
      BY <3>1, SeenOnce
    <3> QED
      BY <1>2, <1>6, <2>5, <3>2 DEF lookup
  <2>6. CASE first.key # k
    <3>1. Blank(S, k, s)
      <4> SUFFICES ASSUME NEW r \in S, Visible(r, k, s) PROVE FALSE
        BY DEF Blank
      <4>1. r \in after /\ r.key = k
        BY <1>4 DEF Visible
      <4>2. first.key <= k /\ first.key > k
        BY <1>4, <2>1, <2>3, <2>4, <2>6, <4>1 DEF Visible
      <4> QED
        BY <1>3, <2>1, <2>3, <4>2
    <3>2. Search(S, lookup) = {}
      BY <1>2, <1>6, <2>6
    <3> QED
      BY <3>1, <3>2, SeenExists DEF lookup
  <2> QED
    BY <2>5, <2>6
<1> QED
  BY <1>5, <1>6

\* What two sets show together.
LEMMA SeenTogether ==
  ASSUME TypeInv, NEW A \in SUBSET issued, NEW B \in SUBSET issued, NEW k, NEW s \in Nat
  PROVE  /\ Blank(B, k, s) => Seen(A \cup B, k, s) = Seen(A, k, s)
         /\ Blank(A, k, s) => Seen(A \cup B, k, s) = Seen(B, k, s)
         /\ Newer(A, B) /\ ~Blank(A, k, s) => Seen(A \cup B, k, s) = Seen(A, k, s)
<1>1. Blank(B, k, s) => Seen(A \cup B, k, s) = Seen(A, k, s)
  BY DEF Blank, Seen
<1>2. Blank(A, k, s) => Seen(A \cup B, k, s) = Seen(B, k, s)
  BY DEF Blank, Seen
<1>3. ASSUME Newer(A, B), ~Blank(A, k, s) PROVE Seen(A \cup B, k, s) = Seen(A, k, s)
  <2>1. PICK a \in Seen(A, k, s) : TRUE
    BY <1>3, SeenExists
  <2>2. a \in A /\ Visible(a, k, s) /\ \A q \in A : Visible(q, k, s) => q.seq <= a.seq
    BY DEF Seen
  <2>3. \A q \in B : Visible(q, k, s) => q.seq < a.seq
    BY <1>3, <2>2 DEF Newer, Visible
  <2>4. \A r \in A \cup B : r.seq \in Nat
    BY RecordFields
  <2>5. ASSUME NEW r \in Seen(A \cup B, k, s) PROVE r \in Seen(A, k, s)
    <3>1. r \in A \cup B /\ Visible(r, k, s) /\ a.seq <= r.seq
      BY <2>2, <2>5 DEF Seen
    <3>2. r \notin B \/ r \in A
      BY <2>2, <2>3, <2>4, <3>1
    <3> QED
      BY <2>5, <3>1, <3>2 DEF Seen
  <2>6. ASSUME NEW r \in Seen(A, k, s) PROVE r \in Seen(A \cup B, k, s)
    <3>1. r \in A /\ Visible(r, k, s) /\ a.seq <= r.seq
      BY <2>2, <2>6 DEF Seen
    <3>2. \A q \in B : Visible(q, k, s) => q.seq <= r.seq
      BY <2>2, <2>3, <2>4, <3>1
    <3> QED
      BY <2>6, <3>1, <3>2 DEF Seen
  <2> QED
    BY <2>5, <2>6
<1> QED
  BY <1>1, <1>2, <1>3

\* checkTable keeps the newer of two finds.
LEMMA BetterSees ==
  ASSUME TypeInv, NumberedInOrder, NEW A \in SUBSET issued, NEW B \in SUBSET issued, NEW k, NEW s \in Nat
  PROVE  Better(Seen(A, k, s), Seen(B, k, s)) = Seen(A \cup B, k, s)
<1>1. CASE Blank(A, k, s)
  <2>1. Seen(A, k, s) = {} /\ Seen(A \cup B, k, s) = Seen(B, k, s)
    BY <1>1, SeenExists, SeenTogether
  <2> QED
    BY <2>1 DEF Better
<1>2. CASE Blank(B, k, s)
  <2>1. Seen(B, k, s) = {} /\ Seen(A \cup B, k, s) = Seen(A, k, s)
    BY <1>2, SeenExists, SeenTogether
  <2> QED
    BY <2>1 DEF Better
<1>3. CASE ~Blank(A, k, s) /\ ~Blank(B, k, s)
  <2>1. PICK a \in Seen(A, k, s), b \in Seen(B, k, s) : TRUE
    BY <1>3, SeenExists
  <2>2. Seen(A, k, s) = {a} /\ Seen(B, k, s) = {b}
    BY SeenOnce
  <2>3. /\ a \in A /\ Visible(a, k, s) /\ \A q \in A : Visible(q, k, s) => q.seq <= a.seq
        /\ b \in B /\ Visible(b, k, s) /\ \A q \in B : Visible(q, k, s) => q.seq <= b.seq
    BY DEF Seen
  <2>4. \A r \in A \cup B : r.seq \in Nat
    BY RecordFields
  <2>5. A \cup B \in SUBSET issued
    OBVIOUS
  <2>6. CASE b.seq > a.seq
    <3>1. b \in Seen(A \cup B, k, s)
      <4>1. \A q \in A : Visible(q, k, s) => q.seq <= b.seq
        BY <2>3, <2>4, <2>6
      <4> QED
        BY <2>3, <4>1 DEF Seen
    <3>2. Seen(A \cup B, k, s) = {b}
      BY <2>5, <3>1, SeenOnce
    <3> QED
      BY <2>2, <2>6, <3>2 DEF Better
  <2>7. CASE ~(b.seq > a.seq)
    <3>1. a \in Seen(A \cup B, k, s)
      <4>1. \A q \in B : Visible(q, k, s) => q.seq <= a.seq
        BY <2>3, <2>4, <2>7
      <4> QED
        BY <2>3, <4>1 DEF Seen
    <3>2. Seen(A \cup B, k, s) = {a}
      BY <2>5, <3>1, SeenOnce
    <3> QED
      BY <2>2, <2>7, <3>2 DEF Better
  <2> QED
    BY <2>6, <2>7
<1> QED
  BY <1>1, <1>2, <1>3

----------------------------------------------------------------------------
LevelRecords(l) == UNION {FileRecords(t) : t \in TablesAt(l)}

\* The tables of the levels are whole.
LEMMA LiveWhole ==
  ASSUME TypeInv, FirstRun, NEW l \in Levels
  PROVE  /\ levels[l] \in Seq(Tables) /\ LevelRecords(l) \in SUBSET issued
         /\ \A i \in 1..Len(levels[l]) : levels[l][i] \in TablesAt(l)
         /\ \A t \in TablesAt(l) : Whole(t) /\ \E i \in 1..Len(levels[l]) : t = levels[l][i]
<1>1. levels[l] \in Seq(Tables)
  BY DEF TypeInv, TreeTypes, TreeOf
<1>2. \A t : t \in TablesAt(l) <=> \E i \in 1..Len(levels[l]) : t = levels[l][i]
  BY <1>1 DEF TablesAt, ToSet
<1>3. \A t \in TablesAt(l) : Whole(t)
  BY DEF FirstRun, WholeTables, Listed, LiveTables
<1>4. LevelRecords(l) \in SUBSET issued
  BY FilesIssued DEF LevelRecords
<1> QED
  BY <1>1, <1>2, <1>3, <1>4

\* The records of the i youngest tables of level 0; a step of get's loop over them, with
\* f for what was found so far.
Youngest(i) == UNION {FileRecords(levels[0][Len(levels[0]) + 1 - j]) : j \in 1..i}
L0Step(f, lookup, i) ==
  IF i = 0 THEN {}
  ELSE LET t == levels[0][Len(levels[0]) + 1 - i]
       IN IF t.min.key <= lookup.key /\ lookup.key <= t.max.key
          THEN Better(f[i - 1], checkTable(t, lookup)) ELSE f[i - 1]

\* On level 0, get finds the newest version of all tables.
LEMMA L0Sees ==
  ASSUME TypeInv, FirstRun, NumberedInOrder, NEW k \in Int, NEW s \in Nat
  PROVE  bestAtL0(Lookup(k, s)) = Seen(LevelRecords(0), k, s)
<1> DEFINE n == Len(levels[0])
           lookup == Lookup(k, s)
           f == CHOOSE h : h = [i \in 0..n |-> L0Step(h, lookup, i)]
           g == [i \in 0..n |-> Seen(Youngest(i), k, s)]
<1>1. 0 \in Levels
  BY ConstantTypes DEF Levels
<1>2. /\ levels[0] \in Seq(Tables) /\ n \in Nat /\ \A i \in 1..n : levels[0][i] \in TablesAt(0)
      /\ \A t \in TablesAt(0) : Whole(t) /\ \E i \in 1..n : t = levels[0][i]
  BY <1>1, LiveWhole
<1>3. bestAtL0(lookup) = f[n]
  BY DEF bestAtL0, L0Step
<1>4. \A i \in 0..n : Youngest(i) \in SUBSET issued
  BY FilesIssued DEF Youngest
<1>5. lookup.key = k
  BY DEF Lookup
<1>6. ASSUME NEW h, NEW i \in 1..n, h[i - 1] = Seen(Youngest(i - 1), k, s)
      PROVE  L0Step(h, lookup, i) = Seen(Youngest(i), k, s)
  <2> DEFINE t == levels[0][n + 1 - i]
  <2>1. n + 1 - i \in 1..n /\ i # 0 /\ i - 1 \in 0..n
    BY <1>2
  <2>2. Whole(t)
    BY <1>2, <2>1
  <2>3. L0Step(h, lookup, i) = IF t.min.key <= k /\ k <= t.max.key
                               THEN Better(h[i - 1], checkTable(t, lookup)) ELSE h[i - 1]
    BY <1>5, <2>1 DEF L0Step
  <2>4. Youngest(i) = Youngest(i - 1) \cup FileRecords(t)
    <3>1. 1..i = (1..(i - 1)) \cup {i}
      BY <1>2
    <3> QED
      BY <3>1 DEF Youngest
  <2> HIDE DEF t
  <2>5. FileRecords(t) \in SUBSET issued /\ Youngest(i - 1) \in SUBSET issued
    BY <1>4, <2>1, FilesIssued
  <2>6. CASE t.min.key <= k /\ k <= t.max.key
    <3>1. checkTable(t, lookup) = Seen(FileRecords(t), k, s)
      BY <2>5, SearchSees DEF checkTable
    <3> QED
      BY <1>6, <2>3, <2>4, <2>5, <2>6, <3>1, BetterSees
  <2>7. CASE ~(t.min.key <= k /\ k <= t.max.key)
    <3>1. Blank(FileRecords(t), k, s)
      BY <2>2, <2>7, WholeBounds DEF Blank, Visible
    <3>2. L0Step(h, lookup, i) = Seen(Youngest(i - 1), k, s)
      BY <1>6, <2>3, <2>7
    <3> QED
      BY <2>4, <2>5, <3>1, <3>2, SeenTogether
  <2> QED
    BY <2>6, <2>7
<1>7. ASSUME NEW h PROVE L0Step(h, lookup, 0) = Seen(Youngest(0), k, s)
  BY DEF L0Step, Youngest, Seen
<1> HIDE DEF lookup, n
<1>8. g = [i \in 0..n |-> L0Step(g, lookup, i)]
  <2> SUFFICES ASSUME NEW i \in 0..n PROVE g[i] = L0Step(g, lookup, i)
    OBVIOUS
  <2>1. CASE i = 0
    BY <1>7, <2>1
  <2>2. CASE i # 0
    <3>1. i \in 1..n /\ i - 1 \in 0..n
      BY <1>2, <2>2
    <3>2. g[i - 1] = Seen(Youngest(i - 1), k, s) /\ g[i] = Seen(Youngest(i), k, s)
      BY <3>1
    <3> HIDE DEF g
    <3> QED
      BY <1>6, <3>1, <3>2
  <2> QED
    BY <2>1, <2>2
<1> HIDE DEF g
<1>9. f = [i \in 0..n |-> L0Step(f, lookup, i)]
  BY <1>8
<1> HIDE DEF f
<1>15. \A i \in 0..n : f[i] = L0Step(f, lookup, i)
  BY <1>9
<1> DEFINE P == {i \in 0..n : f[i] = Seen(Youngest(i), k, s)}
<1>10. 0 \in P
  BY <1>2, <1>7, <1>15
<1>11. ASSUME NEW i \in 0..n, i \in P, i < n PROVE i + 1 \in P
  <2>1. i + 1 \in 1..n /\ i + 1 \in 0..n /\ i + 1 - 1 = i
    BY <1>2, <1>11
  <2>2. f[i + 1 - 1] = Seen(Youngest(i + 1 - 1), k, s)
    BY <1>11, <2>1
  <2>3. f[i + 1] = L0Step(f, lookup, i + 1)
    BY <1>15, <2>1
  <2> QED
    BY <1>6, <2>1, <2>2, <2>3
<1> HIDE DEF P
<1>12. \A i \in 0..n : i \in P
  BY <1>2, <1>10, <1>11, UpTo
<1>13. f[n] = Seen(Youngest(n), k, s)
  BY <1>2, <1>12 DEF P
<1>14. Youngest(n) = LevelRecords(0)
  <2>1. \A i \in 1..n : n + 1 - i \in 1..n /\ n + 1 - (n + 1 - i) = i
    BY <1>2
  <2>2. Youngest(n) \subseteq LevelRecords(0)
    BY <1>2, <2>1 DEF Youngest, LevelRecords, n
  <2>3. ASSUME NEW t \in TablesAt(0) PROVE FileRecords(t) \subseteq Youngest(n)
    <3>1. PICK i \in 1..n : t = levels[0][i]
      BY <1>2
    <3>2. t = levels[0][n + 1 - (n + 1 - i)] /\ n + 1 - i \in 1..n
      BY <2>1, <3>1
    <3> QED
      BY <3>2 DEF Youngest, n
  <2> QED
    BY <2>2, <2>3 DEF LevelRecords
<1> QED
  BY <1>3, <1>13, <1>14 DEF lookup

\* The last record of a table is the oldest version of the largest key.
LEMMA WholeLast ==
  ASSUME TypeInv, NEW t, Whole(t)
  PROVE  t.max.seq \in Nat /\ \A r \in FileRecords(t) : r.key = t.max.key => t.max.seq <= r.seq
<1> DEFINE S == FileRecords(t)
<1>1. FileRecords(t) = files[PathOf(t)] /\ S # {} /\ S \in SUBSET issued
  BY FilesIssued DEF Whole, FileRecords, Readable, PathOf
<1>2. t = TableMeta(t.level, t.num, S)
  BY <1>1 DEF Whole
<1> HIDE DEF S
<1>3. t.max.key = LastOf(S).key /\ t.max.seq = LastOf(S).seq
  <2>1. PICK l, m : t = TableMeta(l, m, S)
    BY <1>2
  <2> QED
    BY <2>1 DEF TableMeta
<1>4. IsFiniteSet(S)
  BY <1>1, FS_Subset DEF TypeInv, History
<1>5. Numbered(S) /\ \A r \in S : r.seq \in Nat
  BY <1>1, RecordFields DEF Numbered
<1>6. LastOf(S) \in S /\ \A q \in S \ {LastOf(S)} : Ahead(q, LastOf(S))
  BY <1>1, <1>4, <1>5, LastIsBehind
<1>7. \A a, b \in S : Ahead(a, b) /\ a.key = b.key => b.seq <= a.seq
  BY <1>5 DEF Ahead, Compare
<1>8. ASSUME NEW r \in S, r.key = t.max.key PROVE t.max.seq <= r.seq
  <2>1. r = LastOf(S) \/ Ahead(r, LastOf(S))
    BY <1>6
  <2> QED
    BY <1>3, <1>5, <1>6, <1>7, <1>8, <2>1
<1> QED
  BY <1>3, <1>5, <1>6, <1>8 DEF S

\* On a level above 0 that is in key order, the table get looks at is the one that can
\* hold what it is looking for.
LEMMA LevelSees ==
  ASSUME TypeInv, FirstRun, NumberedInOrder, LevelsSorted, NEW k \in Int, NEW s \in Nat, NEW l \in Levels \ {0}
  PROVE  hitAt(l, Lookup(k, s)) = Seen(LevelRecords(l), k, s)
<1> DEFINE n == Len(levels[l])
           lookup == Lookup(k, s)
           hits == {i \in 0..n - 1 : Compare(levels[l][i + 1].max, lookup) >= 0}
           idx == SortSearch(n, hits)
           Ready(t) == t.max.key > k \/ (t.max.key = k /\ t.max.seq <= s)
<1>1. /\ levels[l] \in Seq(Tables) /\ n \in Nat /\ \A i \in 1..n : levels[l][i] \in TablesAt(l)
      /\ \A t \in TablesAt(l) : Whole(t) /\ \E i \in 1..n : t = levels[l][i]
      /\ LevelRecords(l) \in SUBSET issued
  BY LiveWhole
<1>2. tableAt(l, lookup) = IF idx >= n THEN {} ELSE {levels[l][idx + 1]}
  BY DEF tableAt
<1>3. lookup.key = k /\ lookup.seq = s
  BY DEF Lookup
<1>4. \A i \in 1..n : LET t == levels[l][i]
                      IN t.min.key \in Int /\ t.max.key \in Int /\ t.max.seq \in Nat
  BY <1>1, WholeBounds, WholeLast
<1>5. ASSUME NEW i \in 0..n, i < n PROVE i \in hits <=> Ready(levels[l][i + 1])
  <2>1. i + 1 \in 1..n /\ i \in 0..n - 1
    BY <1>1, <1>5
  <2>2. levels[l][i + 1].max.key \in Int /\ levels[l][i + 1].max.seq \in Nat
    BY <1>4, <2>1
  <2> QED
    BY <1>3, <2>1, <2>2 DEF Compare
<1> HIDE DEF hits, lookup
<1>6. \A i, j \in 1..n : i < j => levels[l][i].max.key < levels[l][j].min.key
  BY DEF LevelsSorted
<1>7. \A i \in 1..n : levels[l][i].min.key <= levels[l][i].max.key
  <2> SUFFICES ASSUME NEW i \in 1..n PROVE levels[l][i].min.key <= levels[l][i].max.key
    OBVIOUS
  <2>1. PICK r \in FileRecords(levels[l][i]) : r.key = levels[l][i].min.key
    BY <1>1, WholeBounds
  <2> QED
    BY <1>1, <2>1, WholeBounds
<1>8. ASSUME NEW a \in 0..n, NEW b \in 0..n, a <= b, b < n, a \in hits PROVE b \in hits
  <2>1. CASE a = b
    BY <1>8, <2>1
  <2>2. CASE a # b
    <3>1. a + 1 \in 1..n /\ b + 1 \in 1..n /\ a + 1 < b + 1 /\ a < n
      BY <1>1, <1>8, <2>2
    <3>2. Ready(levels[l][a + 1])
      BY <1>5, <1>8, <3>1
    <3>3. /\ levels[l][a + 1].max.key < levels[l][b + 1].min.key
          /\ levels[l][b + 1].min.key <= levels[l][b + 1].max.key
          /\ levels[l][a + 1].max.key \in Int /\ levels[l][b + 1].min.key \in Int /\ levels[l][b + 1].max.key \in Int
      BY <1>4, <1>6, <1>7, <3>1
    <3>4. Ready(levels[l][b + 1])
      <4>1. \A x, y, z \in Int : x >= k /\ x < y /\ y <= z => z > k
        OBVIOUS
      <4>2. levels[l][a + 1].max.key >= k
        BY <3>2, <3>3
      <4>3. levels[l][b + 1].max.key > k
        BY <3>3, <4>1, <4>2
      <4> QED
        BY <4>3
    <3> QED
      BY <1>5, <1>8, <3>4
  <2> QED
    BY <2>1, <2>2
<1>9. idx \in 0..n /\ Splits(idx, n, hits)
  BY <1>1, <1>8, SortSearchIn, SortSearchLeast
<1> HIDE DEF idx
<1>10. ASSUME NEW i \in 0..n, i < n, i < idx PROVE Blank(FileRecords(levels[l][i + 1]), k, s)
  <2>1. ~Ready(levels[l][i + 1])
    BY <1>5, <1>9, <1>10 DEF Splits
  <2>2. PICK t : t = levels[l][i + 1]
    OBVIOUS
  <2>3. Whole(t) /\ ~Ready(t)
    BY <1>1, <1>10, <2>1, <2>2
  <2>4. ASSUME NEW r \in FileRecords(t), Visible(r, k, s) PROVE FALSE
    <3>1. r.key <= t.max.key /\ t.max.key \in Int /\ t.max.seq \in Nat /\ r.seq \in Nat
      BY <2>3, WholeBounds, WholeLast, FilesIssued, RecordFields
    <3>2. r.key = k /\ r.seq <= s
      BY <2>4 DEF Visible
    <3>3. t.max.key = k /\ ~(t.max.seq <= s)
      BY <2>3, <3>1, <3>2
    <3>4. t.max.seq <= r.seq
      BY <2>3, <3>2, <3>3, WholeLast
    <3> QED
      BY <3>1, <3>2, <3>3, <3>4
  <2> QED
    BY <2>2, <2>4 DEF Blank
<1>11. CASE idx >= n
  <2>1. Blank(LevelRecords(l), k, s)
    <3> SUFFICES ASSUME NEW t \in TablesAt(l) PROVE Blank(FileRecords(t), k, s)
      BY DEF Blank, LevelRecords
    <3>1. PICK i \in 1..n : t = levels[l][i]
      BY <1>1
    <3>2. i - 1 \in 0..n /\ i - 1 < n /\ i - 1 < idx /\ i - 1 + 1 = i
      BY <1>1, <1>9, <1>11, <3>1
    <3> QED
      BY <1>10, <3>1, <3>2
  <2>2. hitAt(l, lookup) = {}
    BY <1>2, <1>11 DEF hitAt
  <2> QED
    BY <1>1, <2>1, <2>2, SeenExists DEF lookup
<1>12. CASE ~(idx >= n)
  <2>1. PICK t : t = levels[l][idx + 1]
    OBVIOUS
  <2>2. idx + 1 \in 1..n /\ idx < n
    BY <1>1, <1>9, <1>12
  <2>3. Whole(t) /\ t \in TablesAt(l) /\ FileRecords(t) \in SUBSET issued
    BY <1>1, <2>1, <2>2, FilesIssued
  <2>4. hitAt(l, lookup) = checkTable(t, lookup)
    BY <1>2, <1>12, <2>1 DEF hitAt
  <2>5. checkTable(t, lookup) = Seen(FileRecords(t), k, s)
    BY <2>3, SearchSees DEF checkTable, lookup
  <2>6. Ready(t)
    BY <1>5, <1>9, <2>1, <2>2 DEF Splits
  <2>7. ASSUME NEW i \in 1..n, i # idx + 1 PROVE Blank(FileRecords(levels[l][i]), k, s)
    <3>1. CASE i < idx + 1
      <4>1. i - 1 \in 0..n /\ i - 1 < n /\ i - 1 < idx /\ i - 1 + 1 = i
        BY <1>1, <1>9, <2>2, <3>1
      <4> QED
        BY <1>10, <4>1
    <3>2. CASE idx + 1 < i
      <4>1. t.max.key < levels[l][i].min.key /\ t.max.key \in Int /\ levels[l][i].min.key \in Int
        BY <1>4, <1>6, <2>1, <2>2, <3>2
      <4>2. Whole(levels[l][i])
        BY <1>1
      <4>3. k < levels[l][i].min.key
        BY <2>6, <4>1
      <4>4. \A r \in FileRecords(levels[l][i]) : levels[l][i].min.key <= r.key /\ r.key \in Int
        BY <4>2, WholeBounds, FilesIssued, RecordFields
      <4> QED
        BY <4>1, <4>3, <4>4 DEF Blank, Visible
    <3> QED
      BY <1>9, <2>7, <3>1, <3>2
  <2>8. PICK B \in SUBSET issued : B = UNION {FileRecords(levels[l][i]) : i \in (1..n) \ {idx + 1}}
    BY FilesIssued
  <2>9. Blank(B, k, s)
    BY <2>7, <2>8 DEF Blank
  <2>10. LevelRecords(l) = FileRecords(t) \cup B
    <3>1. LevelRecords(l) = UNION {FileRecords(levels[l][i]) : i \in 1..n}
      BY <1>1 DEF LevelRecords
    <3> QED
      BY <2>1, <2>2, <2>8, <3>1
  <2> QED
    BY <2>3, <2>4, <2>5, <2>8, <2>9, <2>10, SeenTogether DEF lookup
<1> QED
  BY <1>11, <1>12

\* The tables together: level 0, then the first level that has anything.
LEMMA TablesSee ==
  ASSUME TypeInv, FirstRun, NumberedInOrder, TreeOrder, LevelsSorted, NEW k \in Int, NEW s \in Nat
  PROVE  bestInTables(Lookup(k, s)) = Seen(TableRecords, k, s)
<1> DEFINE lookup == Lookup(k, s)
           best == bestAtL0(lookup)
           stop == {l \in 1..Bottom : tableAt(l, lookup) # {} /\ (best # {} \/ hitAt(l, lookup) # {})}
           deep == UNION {LevelRecords(l) : l \in 1..Bottom}
<1>1. Bottom \in Nat /\ 0 \in Levels /\ \A l : l \in Levels <=> l = 0 \/ l \in 1..Bottom
  BY ConstantTypes DEF Levels
<1>2. \A l \in 1..Bottom : l \in Levels \ {0} /\ l \in Nat
  BY <1>1
<1>3. best = Seen(LevelRecords(0), k, s) /\ \A l \in 1..Bottom : hitAt(l, lookup) = Seen(LevelRecords(l), k, s)
  BY <1>2, L0Sees, LevelSees
<1>4. bestInTables(lookup) = IF stop = {} THEN best ELSE Better(best, hitAt(Min(stop), lookup))
  BY DEF bestInTables
<1>5. TableRecords = LevelRecords(0) \cup deep
  <2>1. \A t : t \in LiveTables <=> t \in TablesAt(0) \/ \E l \in 1..Bottom : t \in TablesAt(l)
    BY <1>1 DEF LiveTables
  <2> QED
    BY <2>1 DEF TableRecords, LevelRecords
<1>6. \A l \in Levels : LevelRecords(l) \in SUBSET issued
  BY LiveWhole
<1>7. LevelRecords(0) \in SUBSET issued /\ deep \in SUBSET issued
  BY <1>1, <1>6
<1>8. Newer(LevelRecords(0), deep) /\ \A l \in 1..Bottom : Newer(LevelRecords(0), LevelRecords(l))
  BY <1>2 DEF TreeOrder, TopLater, LevelRecords, Later, Newer
<1>9. \A l, m \in 1..Bottom : l < m => Newer(LevelRecords(l), LevelRecords(m))
  BY <1>2 DEF TreeOrder, DeepOrdered, LevelRecords, Newer
<1>10. \A l \in 1..Bottom : tableAt(l, lookup) = {} => hitAt(l, lookup) = {}
  BY DEF hitAt
<1>11. stop \in SUBSET Nat /\ (stop # {} => Min(stop) \in stop /\ \A l \in stop : Min(stop) <= l)
  BY <1>2, MinIn
<1>12. PICK m : m = Min(stop)
  OBVIOUS
<1> HIDE DEF lookup, best
<1>13. CASE ~Blank(LevelRecords(0), k, s)
  <2>1. Seen(TableRecords, k, s) = best
    BY <1>3, <1>5, <1>7, <1>8, <1>13, SeenTogether
  <2>2. CASE stop = {}
    BY <1>4, <2>1, <2>2 DEF lookup
  <2>3. CASE stop # {}
    <3>1. m \in 1..Bottom /\ m \in Levels
      BY <1>2, <1>11, <1>12, <2>3
    <3>2. Better(best, hitAt(m, lookup)) = Seen(LevelRecords(0) \cup LevelRecords(m), k, s)
      BY <1>3, <1>6, <1>7, <3>1, BetterSees
    <3>3. Seen(LevelRecords(0) \cup LevelRecords(m), k, s) = best
      BY <1>3, <1>6, <1>7, <1>8, <1>13, <3>1, SeenTogether
    <3> QED
      BY <1>4, <1>12, <2>1, <2>3, <3>2, <3>3 DEF lookup
  <2> QED
    BY <2>2, <2>3
<1>14. CASE Blank(LevelRecords(0), k, s)
  <2>1. best = {} /\ Seen(TableRecords, k, s) = Seen(deep, k, s)
    BY <1>3, <1>5, <1>7, <1>14, SeenExists, SeenTogether
  <2>2. \A l \in 1..Bottom : l \in stop <=> ~Blank(LevelRecords(l), k, s)
    BY <1>2, <1>3, <1>6, <1>10, <2>1, SeenExists
  <2> HIDE DEF stop
  <2>3. CASE stop = {}
    <3>1. Blank(deep, k, s)
      BY <2>2, <2>3 DEF Blank
    <3> QED
      BY <1>4, <1>7, <2>1, <2>3, <3>1, SeenExists DEF lookup
  <2>4. CASE stop # {}
    <3>1. m \in 1..Bottom /\ m \in Levels /\ m \in Nat /\ m \in stop
      BY <1>2, <1>11, <1>12, <2>4 DEF stop
    <3>2. ~Blank(LevelRecords(m), k, s)
      BY <2>2, <3>1
    <3>3. Better(best, hitAt(m, lookup)) = Seen(LevelRecords(m), k, s)
      BY <1>3, <2>1, <3>1 DEF Better
    <3>4. PICK A \in SUBSET issued : A = UNION {LevelRecords(l) : l \in {i \in 1..Bottom : i < m}}
      BY <1>2, <1>6
    <3>5. PICK B \in SUBSET issued : B = UNION {LevelRecords(l) : l \in {i \in 1..Bottom : m < i}}
      BY <1>2, <1>6
    <3>6. Blank(A, k, s)
      <4>1. \A i \in 1..Bottom : i < m => i \notin stop
        BY <1>2, <1>11, <1>12, <3>1
      <4> QED
        BY <2>2, <3>4, <4>1 DEF Blank
    <3>7. Newer(LevelRecords(m), B)
      BY <1>9, <3>1, <3>5 DEF Newer
    <3>8. deep = A \cup (LevelRecords(m) \cup B)
      <4>1. \A i \in 1..Bottom : i < m \/ i = m \/ m < i
        BY <1>2, <3>1
      <4> QED
        BY <3>1, <3>4, <3>5, <4>1
    <3> HIDE DEF deep
    <3>9. LevelRecords(m) \in SUBSET issued /\ LevelRecords(m) \cup B \in SUBSET issued
      BY <1>6, <3>1
    <3>10. Seen(LevelRecords(m) \cup B, k, s) = Seen(LevelRecords(m), k, s)
      BY <3>2, <3>7, <3>9, SeenTogether
    <3>11. Seen(deep, k, s) = Seen(LevelRecords(m) \cup B, k, s)
      BY <3>6, <3>8, <3>9, SeenTogether
    <3> QED
      BY <1>4, <1>12, <2>1, <2>4, <3>3, <3>10, <3>11 DEF lookup
  <2> QED
    BY <2>3, <2>4
<1> QED
  BY <1>13, <1>14

\* get returns the newest version that the engine holds and a read at s may see, where it
\* can see every memtable and every level is in key order.
LEMMA GetSees ==
  ASSUME TypeInv, FirstRun, NumberedInOrder, TreeOrder, MemOrder, ImmtShown, NothingHidden, LevelsSorted,
         mu = "free", NEW k \in Int, NEW s \in Nat
  PROVE  get(k, s) = UserView(Seen(Stored, k, s))
<1> DEFINE lookup == Lookup(k, s)
           inMt   == Search(mt, lookup)
           inImmt == UNION {Search(m, lookup) : m \in immt}
           frozen == UNION {t.mt : t \in FrozenTasks}
<1>1. get(k, s) = UserView(IF inMt # {} THEN inMt ELSE IF inImmt # {} THEN inImmt ELSE bestInTables(lookup))
  BY DEF get
<1>2. Stored = mt \cup (frozen \cup TableRecords)
  BY StoredHeld DEF Held
<1>3. fl.pc # "cleanup"
  BY DEF TypeInv, Locks
<1>4. mt \in SUBSET issued /\ (immt = {} \/ \E m \in (SUBSET issued) \ {{}} : immt = {m})
  BY DEF TypeInv, MemTypes
<1>5. frozen \in SUBSET issued /\ inImmt = Seen(frozen, k, s)
  <2>1. CASE immt = {}
    <3>1. FrozenTasks = {}
      BY <2>1 DEF NothingHidden
    <3> QED
      BY <2>1, <3>1 DEF Seen
  <2>2. CASE immt # {}
    <3>1. PICK m \in SUBSET issued : immt = {m}
      BY <1>4, <2>2
    <3>2. (\E t \in FrozenTasks : t.mt = m) /\ \A t \in FrozenTasks : t.mt = m
      BY <1>3, <3>1 DEF ImmtShown, NothingHidden
    <3>3. frozen = m
      BY <3>2
    <3>4. inImmt = Search(m, lookup)
      BY <3>1
    <3> QED
      BY <3>1, <3>3, <3>4, SearchSees
  <2> QED
    BY <2>1, <2>2
<1>6. inMt = Seen(mt, k, s) /\ bestInTables(lookup) = Seen(TableRecords, k, s)
  BY <1>4, SearchSees, TablesSee
<1>7. TableRecords \in SUBSET issued
  BY FilesIssued DEF TableRecords
<1>8. Newer(mt, frozen \cup TableRecords) /\ Newer(frozen, TableRecords)
  BY DEF MemOrder, FrozenOrder, Later, Newer
<1> HIDE DEF lookup, inMt, inImmt, frozen
<1>9. frozen \cup TableRecords \in SUBSET issued
  BY <1>5, <1>7
<1>10. inMt # {} => Seen(Stored, k, s) = inMt
  <2>1. inMt # {} => ~Blank(mt, k, s)
    BY <1>4, <1>6, SeenExists
  <2> QED
    BY <1>2, <1>4, <1>6, <1>8, <1>9, <2>1, SeenTogether
<1>11. inMt = {} => Seen(Stored, k, s) = Seen(frozen \cup TableRecords, k, s)
  <2>1. inMt = {} => Blank(mt, k, s)
    BY <1>4, <1>6, SeenExists
  <2> QED
    BY <1>2, <1>4, <1>9, <2>1, SeenTogether
<1>12. inImmt # {} => Seen(frozen \cup TableRecords, k, s) = inImmt
  <2>1. inImmt # {} => ~Blank(frozen, k, s)
    BY <1>5, SeenExists
  <2> QED
    BY <1>5, <1>7, <1>8, <2>1, SeenTogether
<1>13. inImmt = {} => Seen(frozen \cup TableRecords, k, s) = Seen(TableRecords, k, s)
  <2>1. inImmt = {} => Blank(frozen, k, s)
    BY <1>5, SeenExists
  <2> QED
    BY <1>5, <1>7, <2>1, SeenTogether
<1> QED
  BY <1>1, <1>6, <1>10, <1>11, <1>12, <1>13

\* Get returns the newest version the engine holds of a key, provided get can see every
\* memtable and every level is in key order: for calls that do not overlap, whatever the
\* flusher and the compactor are doing.
THEOREM GetReadsNewest == Spec /\ []OneCall => [](Undisturbed => ReadsNewest)
<1>1. ASSUME IInv, OrderInv, KeptInv PROVE Undisturbed => ReadsNewest
  <2> SUFFICES ASSUME Undisturbed, mu = "free", NothingHidden, LevelsSorted, NEW k \in Keys
               PROVE  Get(k) = UserView(VisibleAt(k, MaxUint64))
    BY DEF ReadsNewest
  <2>1. TypeInv /\ FirstRun /\ NumberedInOrder /\ TreeOrder /\ MemOrder /\ ImmtShown
    BY <1>1 DEF IInv, OrderInv, KeptInv, Undisturbed, Keeps
  <2>2. k \in Int /\ MaxUint64 \in Nat
    <3>1. k \in Int
      BY ConstantTypes, Zenon
    <3>2. MaxUint64 \in Nat
      BY DEF MaxUint64
    <3> QED
      BY <3>1, <3>2
  <2>3. VisibleAt(k, MaxUint64) = Seen(Stored, k, MaxUint64)
    BY DEF VisibleAt, Seen, Visible
  <2>4. get(k, MaxUint64) = UserView(Seen(Stored, k, MaxUint64))
    BY <2>1, <2>2, GetSees
  <2> QED
    BY <2>3, <2>4 DEF Get
<1>2. Spec => []IInv
  BY EngineInvariant
<1>3. Spec /\ []OneCall => []OrderInv
  BY TreeIsOrdered
<1>4. Spec /\ []OneCall => []KeptInv
  BY NothingIsDropped
<1> QED
  BY <1>1, <1>2, <1>3, <1>4, PTL

----------------------------------------------------------------------------
\* Clients, flusher and compactor leave the snapshots alone; what a call issues is numbered
\* after all that was issued before.
LEMMA NumbersGrow ==
  ASSUME TypeInv, (\E c \in Clients : ClientNext(c)) \/ FlusherNext \/ CompactorNext \/ UNCHANGED vars
  PROVE  /\ snaps' = snaps /\ seqNum <= seqNum' /\ issued \subseteq issued'
         /\ phase \in {"up", "closing"} => phase' \in {"up", "closing"}
         /\ \A r \in issued' \ issued : seqNum < r.seq
<1> USE DEF ctlVars, memVars, walVars, vsVars, compVars, histVars
<1>1. seqNum \in Nat
  BY FS_CardinalityType DEF TypeInv, History
<1>2. ASSUME UNCHANGED <<snaps, seqNum, issued>>, phase' = phase \/ phase' \in {"up", "closing"}
      PROVE  /\ snaps' = snaps /\ seqNum <= seqNum' /\ issued \subseteq issued'
             /\ phase \in {"up", "closing"} => phase' \in {"up", "closing"}
             /\ \A r \in issued' \ issued : seqNum < r.seq
  BY <1>1, <1>2
<1>3. CASE \E c \in Clients : ClientNext(c)
  <2>1. PICK c \in Clients : ClientNext(c)
    BY <1>3
  <2>2. CASE Put(c) \/ Delete(c) \/ WriteBatch(c)
    <3>1. PICK n \in Nat \ {0} : \E ks \in [1..n -> Keys], ds \in [1..n -> BOOLEAN] : Starts(c, ks, ds)
      BY <2>2, WriteStarts
    <3>2. PICK ks \in [1..n -> Keys], ds \in [1..n -> BOOLEAN] : Starts(c, ks, ds)
      BY <3>1
    <3>3. PICK recs : recs = NewRecords(ks, ds)
      OBVIOUS
    <3>4. \E op \in {"write", "batch"}, pc \in {"stall", "log", "apply"} : Start(c, op, pc, recs)
      BY <3>2, <3>3 DEF Starts
    <3>5. phase' = phase /\ snaps' = snaps /\ seqNum' = seqNum + Len(recs) /\ issued' = issued \cup ToSet(recs)
      BY <3>4 DEF Start
    <3>6. Len(recs) = n /\ DOMAIN recs = 1..n /\ \A i \in 1..n : recs[i].seq = seqNum + i
      <4>1. Len(ks) = n
        OBVIOUS
      <4> QED
        BY <3>3, <4>1 DEF NewRecords
    <3>7. \A r \in ToSet(recs) : seqNum < r.seq
      BY <1>1, <3>6 DEF ToSet
    <3> QED
      BY <1>1, <3>5, <3>6, <3>7
  <2>3. CASE AppendWal(c) \/ Apply(c) \/ Sync(c) \/ RotateForSync(c)
    <3>1. CASE AppendWal(c)
      BY <1>2, <3>1 DEF AppendWal
    <3>2. CASE Apply(c)
      BY <1>2, <3>2 DEF Apply
    <3>3. CASE Sync(c)
      BY <1>2, <3>3 DEF Sync
    <3>4. CASE RotateForSync(c)
      BY <1>2, <3>4 DEF RotateForSync
    <3> QED
      BY <2>3, <3>1, <3>2, <3>3, <3>4
  <2>4. CASE Stall(c) \/ ReadWal(c) \/ Send(c) \/ Close(c) \/ SyncReturn(c)
    BY <1>2, <2>4 DEF Stall, ReadWal, Send, Close, SyncReturn
  <2> QED
    BY <2>1, <2>2, <2>3, <2>4 DEF ClientNext
<1>4. CASE FlusherNext
  BY <1>2, <1>4 DEF FlusherNext, FlushTake, FlushWrite, FlushInstall, FlushCleanup
<1>5. CASE CompactorNext
  <2>1. CASE CompactMerge
    BY <1>2, <2>1 DEF CompactMerge
  <2>2. CASE CompactInstall
    BY <1>2, <2>2 DEF CompactInstall
  <2> QED
    BY <1>2, <1>5, <2>1, <2>2 DEF CompactorNext, CompactBegin, CompactRemove, CompactDone, Reschedule, RescheduleClear
<1>6. CASE UNCHANGED vars
  BY <1>2, <1>6 DEF vars
<1> QED
  BY <1>3, <1>4, <1>5, <1>6

\* They keep what a quiet snapshot saw.
LEMMA SnapCarried ==
  ASSUME TypeInv, TypeInv', Carries, NEW sn, SnapKept(sn), seqNum <= seqNum', issued \subseteq issued',
         \A r \in issued' \ issued : seqNum < r.seq, Held' \subseteq issued'
  PROVE  SnapKept(sn)'
<1>1. seqNum \in Nat /\ seqNum' \in Nat /\ sn.seq \in Nat /\ sn.seq <= seqNum'
  <2>1. seqNum \in Nat /\ seqNum' \in Nat
    BY FS_CardinalityType DEF TypeInv, History
  <2> QED
    BY <2>1 DEF SnapKept
<1>2. \A r \in issued' : r.seq \in Nat
  BY ConstantTypes DEF TypeInv, History, Records
<1>3. \A r \in issued' : r.seq <= sn.seq => r \in Inserted
  <2> SUFFICES ASSUME NEW r \in issued', r.seq <= sn.seq PROVE r \in issued
    BY DEF SnapKept
  <2>1. r.seq \in Nat
    BY <1>2
  <2> QED
    BY <1>1, <2>1 DEF SnapKept
<1>4. \A r \in Held' : r.seq <= sn.seq => r \in Held
  BY <1>3 DEF Carries
<1>5. \A r \in issued' : r.seq <= sn.seq => r \in Inserted'
  BY <1>3 DEF Carries
<1> QED
  BY <1>1, <1>4, <1>5 DEF SnapKept

\* A snapshot that is taken while no call is in progress.
LEMMA SnapTaken ==
  ASSUME TypeInv, NumberedInOrder, MemOrder, ImmtShown, \A c \in Clients : cl[c] = Idle, NEW sn,
         sn.seq = seqNum, sn.view = [k \in Keys |-> VisibleAt(k, seqNum)]
  PROVE  SnapKept(sn)
<1>1. seqNum \in Nat
  BY FS_CardinalityType DEF TypeInv, History
<1>2. Inserted = issued
  BY IdleCall DEF Inserted
<1>3. Held \in SUBSET issued /\ Stored = Held
  BY <1>2, StoredHeld DEF MemOrder, WaitingNewest
<1>4. \A r \in Held : r.seq \in Nat
  BY <1>3, RecordFields
<1>5. ASSUME NEW k \in Keys
      PROVE  /\ \A q \in sn.view[k] : q.key = k /\ q.seq <= sn.seq /\ sn.view[k] = {q}
             /\ \A r \in Held : r.key = k /\ r.seq <= sn.seq => \E q \in sn.view[k] : r.seq <= q.seq
  <2>1. PICK n \in Nat : n = seqNum
    BY <1>1
  <2>2. sn.view[k] = Seen(Held, k, n) /\ sn.seq = n
    BY <1>3, <2>1 DEF VisibleAt, Seen, Visible
  <2>3. ASSUME NEW q \in Seen(Held, k, n) PROVE q.key = k /\ q.seq <= n /\ Seen(Held, k, n) = {q}
    BY <1>3, <2>3, SeenOnce DEF Seen, Visible
  <2>4. ASSUME NEW r \in Held, r.key = k, r.seq <= n PROVE \E q \in Seen(Held, k, n) : r.seq <= q.seq
    <3>1. Visible(r, k, n) /\ ~Blank(Held, k, n)
      BY <2>4 DEF Visible, Blank
    <3>2. Seen(Held, k, n) # {}
      BY <1>3, <3>1, SeenExists
    <3> QED
      BY <3>1, <3>2 DEF Seen
  <2> QED
    BY <2>2, <2>3, <2>4
<1> QED
  BY <1>1, <1>2, <1>5 DEF SnapKept

\* Snapshots are taken and released.
LEMMA SnapshotSnaps ==
  ASSUME TypeInv, TypeInv', FirstRun, NoReplay', NumberedInOrder, TreeOrder, MemOrder, Keeps, Undisturbed, SnapInv,
         SnapshotNext
  PROVE  SnapInv'
<1> USE DEF ctlVars, memVars, walVars, vsVars, compVars, histVars
<1>1. UNCHANGED <<phase, seqNum, issued>> /\ phase = "up"
  BY DEF SnapshotNext, NewSnapshot, Release
<1>2. Held' = Held /\ Inserted' = Inserted
  BY BackgroundOrder, SameHeld
<1>3. \A sn : SnapKept(sn)' <=> SnapKept(sn)
  BY <1>1, <1>2 DEF SnapKept
<1>4. DOMAIN snaps = Snaps /\ \A s \in Snaps : \A sn \in snaps[s] : sn.quiet => SnapKept(sn)
  BY DEF SnapInv
<1>5. PICK s \in Snaps : NewSnapshot(s) \/ Release(s)
  BY DEF SnapshotNext
<1>6. ASSUME NEW S, snaps' = [snaps EXCEPT ![s] = S], \A sn \in S : sn.quiet => SnapKept(sn) PROVE SnapInv'
  <2>1. DOMAIN snaps' = Snaps /\ \A t \in Snaps : snaps'[t] = IF t = s THEN S ELSE snaps[t]
    BY <1>4, <1>6
  <2>2. \A t \in Snaps : \A sn \in snaps'[t] : sn.quiet => SnapKept(sn)'
    BY <1>3, <1>4, <1>6, <2>1
  <2> QED
    BY <1>1, <2>1, <2>2 DEF SnapInv
<1>7. CASE Release(s)
  <2>1. PICK S : S = {}
    OBVIOUS
  <2>2. snaps' = [snaps EXCEPT ![s] = S]
    BY <1>7, <2>1 DEF Release
  <2>3. \A sn \in S : sn.quiet => SnapKept(sn)
    BY <2>1
  <2> QED
    BY <1>6, <2>2, <2>3
<1>8. CASE NewSnapshot(s)
  <2>1. PICK sn : sn = [seq |-> seqNum, quiet |-> \A c \in Clients : cl[c] = Idle,
                        view |-> [k \in Keys |-> VisibleAt(k, seqNum)]]
    OBVIOUS
  <2>2. PICK S : S = {sn} /\ snaps' = [snaps EXCEPT ![s] = S]
    BY <1>8, <2>1 DEF NewSnapshot
  <2>3. sn.seq = seqNum /\ sn.view = [k \in Keys |-> VisibleAt(k, seqNum)]
    BY <2>1
  <2>4. sn.quiet = \A c \in Clients : cl[c] = Idle
    BY <2>1
  <2>5. sn.quiet => SnapKept(sn)
    BY <2>3, <2>4, SnapTaken DEF Keeps
  <2>6. \A x \in S : x.quiet => SnapKept(x)
    BY <2>2, <2>5
  <2> QED
    BY <1>6, <2>2, <2>6
<1> QED
  BY <1>5, <1>7, <1>8

\* Every step of calls that do not overlap keeps what quiet snapshots saw.
LEMMA NextSnaps ==
  ASSUME IInv, IInv', OneCall, OneCall', OrderInv, OrderInv', KeptInv, SnapInv, [Next]_vars
  PROVE  SnapInv'
<1> SUFFICES ASSUME starts' <= 1, faults' = 0 PROVE SnapInv'
  BY DEF SnapInv, Undisturbed
<1>1. TypeInv /\ TypeInv' /\ starts \in Nat /\ faults \in Nat /\ starts' \in Nat /\ faults' \in Nat
  BY DEF IInv, TypeInv, Counters
<1>2. starts <= 1 /\ faults = 0 /\ faults' = faults /\ Undisturbed
  BY <1>1, StartsCounted, FaultsCounted DEF Undisturbed
<1>3. FirstRun /\ NumberedInOrder /\ NoReplay' /\ TreeOrder /\ MemOrder /\ Keeps /\ MemOrder'
  BY <1>2 DEF IInv, FirstRun, OrderInv, KeptInv
<1>4. /\ DOMAIN snaps = Snaps /\ (phase \in {"up", "closing"} \/ \A s \in Snaps : snaps[s] = {})
      /\ \A s \in Snaps : \A sn \in snaps[s] : sn.quiet => SnapKept(sn)
  BY <1>2 DEF SnapInv
<1>5. ASSUME Carries, (\E c \in Clients : ClientNext(c)) \/ FlusherNext \/ CompactorNext \/ UNCHANGED vars
      PROVE  SnapInv'
  <2>1. /\ snaps' = snaps /\ seqNum <= seqNum' /\ issued \subseteq issued'
        /\ phase \in {"up", "closing"} => phase' \in {"up", "closing"}
        /\ \A r \in issued' \ issued : seqNum < r.seq
    BY <1>1, <1>5, NumbersGrow
  <2>2. Held' \subseteq issued'
    BY <1>3 DEF MemOrder, WaitingNewest, Inserted
  <2>3. \A sn : SnapKept(sn) => SnapKept(sn)'
    BY <1>1, <1>5, <2>1, <2>2, SnapCarried
  <2> QED
    BY <1>4, <2>1, <2>3 DEF SnapInv
<1>6. ASSUME DOMAIN snaps' = Snaps, \A s \in Snaps : snaps'[s] = {} PROVE SnapInv'
  BY <1>6 DEF SnapInv
<1>7. ASSUME NEW c \in Clients, ClientNext(c) PROVE SnapInv'
  <2>1. Carries
    BY <1>1, <1>2, <1>3, <1>7, ClientKeeps
  <2> QED
    BY <1>5, <1>7, <2>1
<1>8. CASE FlusherNext
  <2>1. Carries
    BY <1>1, <1>2, <1>3, <1>8, FlushWriteKeeps, FlushInstallKeeps, BackgroundKeeps DEF FlusherNext
  <2> QED
    BY <1>5, <1>8, <2>1
<1>9. CASE CompactorNext
  <2>1. Carries
    BY <1>1, <1>2, <1>3, <1>9, CompactInstallKeeps, BackgroundKeeps DEF CompactorNext
  <2> QED
    BY <1>5, <1>9, <2>1
<1>10. CASE UNCHANGED vars
  <2>1. Carries
    BY <1>1, <1>3, <1>10, BackgroundKeeps
  <2> QED
    BY <1>5, <1>10, <2>1
<1>11. CASE SnapshotNext
  BY <1>1, <1>2, <1>3, <1>11, SnapshotSnaps
<1>12. CASE Crash \/ \E c \in Clients : CloseReturn(c)
  BY <1>6, <1>12 DEF Crash, CloseReturn, LoseMemory
<1>13. CASE New \/ RecoverFinish
  <2>1. snaps' = snaps /\ phase \notin {"up", "closing"}
    <3>1. CASE New
      BY <3>1 DEF New
    <3>2. CASE RecoverFinish
      BY <1>3, <3>2 DEF RecoverFinish, Keeps, OpenedAlone
    <3> QED
      BY <1>13, <3>1, <3>2
  <2> QED
    BY <1>4, <1>6, <2>1
<1>14. CASE RecoverOpen \/ RecoverRecord \/ RecoverSend \/ RecoverLogDone
  BY <1>3, <1>14 DEF RecoverOpen, RecoverRecord, RecoverSend, RecoverLogDone, FirstRun, NoReplay
<1>15. CASE RecoverFails
  BY <1>1, <1>2, <1>15 DEF RecoverFails, Faults, Count
<1>16. CASE Quiet
  BY <1>10, <1>16 DEF Quiet
<1> QED
  BY <1>1, <1>2, <1>3, <1>7, <1>8, <1>9, <1>10, <1>11, <1>12, <1>13, <1>14, <1>15, <1>16, NotTornFirst
  DEF Next, RecoveryNext

\* An engine that was never started has no snapshots.
LEMMA InitSnaps == ASSUME Init PROVE SnapInv
<1>1. snaps = [s \in Snaps |-> {}]
  BY DEF Init
<1> QED
  BY <1>1 DEF SnapInv

\* What quiet snapshots saw is the newest of what is held that they may see, or has been
\* dropped: no step brings back an older version or moves a newer one in front of it.
THEOREM SnapshotsAreKept == Spec /\ []OneCall => []SnapInv
<1>1. Init => SnapInv
  BY InitSnaps
<1>2. IInv /\ IInv' /\ OneCall /\ OneCall' /\ OrderInv /\ OrderInv' /\ KeptInv /\ SnapInv /\ [Next]_vars => SnapInv'
  BY NextSnaps
<1>3. Spec => []IInv
  BY EngineInvariant
<1>4. Spec /\ []OneCall => []OrderInv
  BY TreeIsOrdered
<1>5. Spec /\ []OneCall => []KeptInv
  BY NothingIsDropped
<1> QED
  BY <1>1, <1>2, <1>3, <1>4, <1>5, PTL DEF Spec

\* A read through a snapshot gives what it gave when the snapshot was taken, as long as the
\* engine still holds the version: in any run of calls that do not overlap, whatever is
\* written, flushed and compacted meanwhile, where get can see every memtable and every
\* level is in key order.
THEOREM SnapshotsRead == Spec /\ []OneCall => [](Undisturbed => SnapshotReads)
<1>1. ASSUME IInv, OrderInv, KeptInv, SnapInv PROVE Undisturbed => SnapshotReads
  <2> SUFFICES ASSUME Undisturbed, mu = "free", NothingHidden, LevelsSorted, NEW s \in Snaps, NEW sn \in snaps[s],
                      NEW k \in Keys, sn.quiet, sn.view[k] \subseteq Stored
               PROVE  get(k, sn.seq) = UserView(sn.view[k])
    BY DEF SnapshotReads, ReadsAsTaken
  <2>1. TypeInv /\ FirstRun /\ NumberedInOrder /\ TreeOrder /\ MemOrder /\ ImmtShown /\ SnapKept(sn)
    BY <1>1 DEF IInv, OrderInv, KeptInv, Undisturbed, Keeps, SnapInv
  <2>2. k \in Int
    BY ConstantTypes, Zenon
  <2>3. PICK n \in Nat : n = sn.seq
    BY <2>1 DEF SnapKept
  <2>4. get(k, n) = UserView(Seen(Stored, k, n))
    BY <2>1, <2>2, GetSees
  <2>5. Stored = Held /\ Held \in SUBSET issued
    BY <2>1, StoredHeld DEF MemOrder, WaitingNewest, Inserted
  <2>6. /\ \A q \in sn.view[k] : q.key = k /\ q.seq <= n /\ sn.view[k] = {q}
        /\ \A r \in Held : r.key = k /\ r.seq <= n => \E q \in sn.view[k] : r.seq <= q.seq
    BY <2>1, <2>3 DEF SnapKept
  <2>7. CASE sn.view[k] = {}
    <3>1. Blank(Held, k, n)
      BY <2>6, <2>7 DEF Blank, Visible
    <3>2. Seen(Held, k, n) = {}
      BY <2>1, <2>5, <3>1, SeenExists
    <3> QED
      BY <2>3, <2>4, <2>5, <2>7, <3>2
  <2>8. CASE sn.view[k] # {}
    <3>1. PICK q \in sn.view[k] : q \in Held
      BY <2>5, <2>8
    <3>2. q \in Seen(Held, k, n)
      BY <2>6, <3>1 DEF Seen, Visible
    <3>3. Seen(Held, k, n) = {q}
      BY <2>1, <2>5, <3>2, SeenOnce
    <3> QED
      BY <2>3, <2>4, <2>5, <2>6, <3>1, <3>3
  <2> QED
    BY <2>7, <2>8
<1>2. Spec => []IInv
  BY EngineInvariant
<1>3. Spec /\ []OneCall => []OrderInv
  BY TreeIsOrdered
<1>4. Spec /\ []OneCall => []KeptInv
  BY NothingIsDropped
<1>5. Spec /\ []OneCall => []SnapInv
  BY SnapshotsAreKept
<1> QED
  BY <1>1, <1>2, <1>3, <1>4, <1>5, PTL

----------------------------------------------------------------------------
\* The logs of an engine that waits for their fsync and whose calls write one record.
Durable == Undisturbed /\ CrashRecovery /\ SyncBatch /\ "batch" \notin Ops

\* All of a log is on disk and can be replayed, and none has a number above that of the log
\* which is appended to.
LogsSynced ==
  \A n \in DOMAIN wals :
    /\ wals[n].synced = Len(wals[n].recs) /\ wals[n].torn \subseteq {Len(wals[n].recs)}
    /\ IsUp => wals[n].torn = {} /\ (n = 0 \/ n <= wal)

\* The log that is appended to has the records of the memtable and that of a call which is
\* about to insert it, a log that was closed those of its task; every log but the first one,
\* which is empty, is the log of one of them, and of no other.
Logged(n) == ToSet(wals[n].recs)
Appended(call) == IF call.pc = "apply" THEN ToSet(call.recs) ELSE {}
Single(call) == call.op # "batch" /\ (Writing(call) => Len(call.recs) = 1)
Cleaning(n) == fl.pc = "cleanup" /\ n = fl.task.wal
TaskLogs ==
  \A t \in FrozenTasks : /\ t.wal \in DOMAIN wals /\ Logged(t.wal) = t.mt /\ ~Cleaning(t.wal)
                         /\ \A s \in FrozenTasks : s.wal = t.wal => s = t
OtherLogs ==
  \A n \in DOMAIN wals : /\ Cleaning(n) => Logged(n) \subseteq fl.task.mt
                         /\ \/ Logged(n) = {} \/ n = wal \/ Cleaning(n)
                            \/ \E t \in FrozenTasks : n = t.wal
Serving == phase \in {"up", "closing"}
LogsHold ==
  Serving => /\ \A c \in Clients : Single(cl[c])
             /\ wal \in DOMAIN wals /\ Logged(wal) = mt \cup UNION {Appended(cl[c]) : c \in Clients}
             /\ TaskLogs /\ OtherLogs

\* Only an open engine is called.
CallsServed == Serving \/ \A c \in Clients : cl[c] = Idle

DiskInv == Durable => LogsSynced /\ LogsHold /\ CallsServed

\* What a process that is gone has left: every acknowledged write.
LeftInv == Durable /\ ~Serving => AckedOnDisk

\* The fields of a log.
LEMMA LogFields ==
  ASSUME TypeInv, NEW n \in DOMAIN wals
  PROVE  /\ n \in Nat /\ wals[n].recs \in Seq(issued) /\ Len(wals[n].recs) \in Nat /\ wals[n].torn \subseteq Nat
         /\ wals[n] = [recs |-> wals[n].recs, synced |-> wals[n].synced, torn |-> wals[n].torn]
         /\ Logged(n) \subseteq issued /\ Logged(n) = {wals[n].recs[i] : i \in 1..Len(wals[n].recs)}
<1>1. n \in Nat /\ wals[n] \in Logs(issued)
  BY DEF TypeInv, LogTypes
<1>2. wals[n] \in [recs : Seq(issued), synced : Nat, torn : SUBSET Nat]
  BY <1>1 DEF Logs
<1>3. wals[n].recs \in Seq(issued)
  BY <1>2
<1> QED
  BY <1>1, <1>2, <1>3 DEF Logged, ToSet

\* Replay reads all of a log that is on disk.
LEMMA ReplayAll ==
  ASSUME NEW I, NEW log, log.recs \in Seq(I), log.synced = Len(log.recs), log.torn \subseteq {Len(log.recs)}
  PROVE  Replayable(log, log.synced) = log.recs
<1>1. PICK n \in Nat : n = Len(log.recs)
  OBVIOUS
<1>2. {log.synced} \cup log.torn = {n}
  BY <1>1
<1>3. Min({n}) = n
  <2>1. \E x \in {n} : \A y \in {n} : x <= y
    OBVIOUS
  <2> QED
    BY <2>1 DEF Min
<1>4. Min({log.synced} \cup log.torn) = Len(log.recs)
  BY <1>1, <1>2, <1>3
<1>5. SubSeq(log.recs, 1, Len(log.recs)) = log.recs
  OBVIOUS
<1> QED
  BY <1>4, <1>5 DEF Replayable

\* What is on disk, where the logs are.
LEMMA LogsOnDisk ==
  ASSUME TypeInv, LogsSynced
  PROVE  OnDisk = (UNION {FileRecords(t) : t \in ManifestTables}) \cup UNION {Logged(n) : n \in DOMAIN wals}
<1>1. \A n \in DOMAIN wals : Replayable(wals[n], wals[n].synced) = wals[n].recs
  BY LogFields, ReplayAll DEF LogsSynced
<1>2. \A n \in DOMAIN wals : ToSet(Replayable(wals[n], wals[n].synced)) = Logged(n)
  BY <1>1 DEF Logged
<1> QED
  BY <1>2 DEF OnDisk

\* What is held is on disk, and nothing else but what a call is about to insert.
LEMMA HeldOnDisk ==
  ASSUME TypeInv, FirstRun, Durable, Keeps, LogsSynced, LogsHold, Serving
  PROVE  /\ Held \subseteq OnDisk
         /\ OnDisk \subseteq Held \cup UNION {Appended(cl[c]) : c \in Clients}
<1>1. OnDisk = (UNION {FileRecords(t) : t \in ManifestTables}) \cup UNION {Logged(n) : n \in DOMAIN wals}
  BY LogsOnDisk
<1>2. UNION {FileRecords(t) : t \in ManifestTables} = TableRecords
  <2>1. manifest.levels = levels
    BY DEF FirstRun, Mirrored, IsUp, Serving, Durable, Undisturbed
  <2>2. ManifestTables = LiveTables
    BY <2>1 DEF ManifestTables, LiveTables, TablesAt
  <2> QED
    BY <2>2 DEF TableRecords
<1>3. /\ wal \in DOMAIN wals /\ Logged(wal) = mt \cup UNION {Appended(cl[c]) : c \in Clients}
      /\ TaskLogs /\ OtherLogs
  BY DEF LogsHold
<1>4. fl.pc = "cleanup" => fl.task.mt \subseteq TableRecords
  BY DEF Keeps, ImmtShown
<1>5. \A t \in FrozenTasks : t.mt \subseteq UNION {Logged(n) : n \in DOMAIN wals}
  BY <1>3 DEF TaskLogs
<1>6. mt \subseteq UNION {Logged(n) : n \in DOMAIN wals}
  BY <1>3
<1>7. \A n \in DOMAIN wals : Logged(n) \subseteq Held \cup UNION {Appended(cl[c]) : c \in Clients}
  <2> SUFFICES ASSUME NEW n \in DOMAIN wals PROVE Logged(n) \subseteq Held \cup UNION {Appended(cl[c]) : c \in Clients}
    OBVIOUS
  <2>1. CASE n = wal
    BY <1>3, <2>1 DEF Held
  <2>2. CASE Cleaning(n)
    BY <1>3, <1>4, <2>2 DEF OtherLogs, Cleaning, Held
  <2>3. CASE \E t \in FrozenTasks : n = t.wal
    BY <1>3, <2>3 DEF TaskLogs, Held
  <2> QED
    BY <1>3, <2>1, <2>2, <2>3 DEF OtherLogs
<1> QED
  BY <1>1, <1>2, <1>5, <1>6, <1>7 DEF Held

\* What has been inserted is on disk, or what replaced it.
LEMMA InsertedOnDisk ==
  ASSUME TypeInv, FirstRun, NumberedInOrder, MemOrder, Durable, Keeps, LogsSynced, LogsHold, Serving
  PROVE  AckedOnDisk
<1> SUFFICES ASSUME NEW r \in acked PROVE Represented(r, OnDisk)
  BY DEF AckedOnDisk
<1>1. r \in Inserted /\ Survives(r)
  BY DEF Keeps, InsertedSurvive, Serving, IsUp
<1>2. Held \subseteq Inserted /\ Inserted \subseteq issued /\ \A q \in issued : q.seq = q.val /\ q.seq \in Nat
  BY RecordFields DEF MemOrder, WaitingNewest, Inserted, NumberedInOrder
<1>3. Held \subseteq OnDisk /\ OnDisk \subseteq Held \cup UNION {Appended(cl[c]) : c \in Clients}
  BY HeldOnDisk
<1>4. \A c \in Clients : Appended(cl[c]) \subseteq Waiting(cl[c]) /\ Appended(cl[c]) \subseteq issued
  <2> SUFFICES ASSUME NEW c \in Clients, cl[c].pc = "apply"
               PROVE  ToSet(cl[c].recs) \subseteq Waiting(cl[c]) /\ ToSet(cl[c].recs) \subseteq issued
    BY DEF Appended
  <2>1. cl[c].recs \in Seq(issued) /\ cl[c].i \in 1..Len(cl[c].recs) /\ Len(cl[c].recs) = 1
    BY DEF TypeInv, CallTypes, Calls, CallShape, LogsHold, Single, Writing
  <2> QED
    BY <2>1 DEF ToSet, Waiting
<1>5. \A q \in Inserted : \A c \in Clients : \A p \in Appended(cl[c]) : q.seq < p.seq
  BY <1>4 DEF MemOrder, WaitingNewest
<1>6. CASE \E q \in Held : q.key = r.key /\ r.seq <= q.seq
  <2>1. PICK q \in Held : q.key = r.key /\ r.seq <= q.seq
    BY <1>6
  <2>2. q \in OnDisk /\ q.val >= r.val
    BY <1>1, <1>2, <1>3, <2>1
  <2> QED
    BY <2>1, <2>2 DEF Represented
<1>7. CASE \E d \in Inserted : d.del /\ d.key = r.key /\ r.seq <= d.seq /\ \A q \in Held : q.key = r.key => d.seq < q.seq
  <2>1. PICK d \in Inserted : d.del /\ d.key = r.key /\ r.seq <= d.seq /\ \A q \in Held : q.key = r.key => d.seq < q.seq
    BY <1>7
  <2>2. d \in issued /\ d.val >= r.val
    BY <1>1, <1>2, <2>1
  <2>3. \A q \in OnDisk : q \in issued /\ (q.key = r.key => d.seq < q.seq)
    BY <1>2, <1>3, <1>4, <1>5, <2>1
  <2>4. \A q \in OnDisk : q.key = r.key => q.val > d.val
    BY <1>2, <2>2, <2>3
  <2> QED
    BY <2>1, <2>2, <2>4 DEF Represented
<1> QED
  BY <1>1, <1>6, <1>7 DEF Survives

\* Steps that leave logs and tasks alone, and together what is in the memtable and what calls
\* have appended.
LEMMA DiskMoved ==
  ASSUME LogsSynced, LogsHold, UNCHANGED <<wals, wal>>, FrozenTasks' = FrozenTasks, IsUp' => IsUp,
         Serving' => Serving, UNCHANGED fl \/ (fl.pc # "cleanup" /\ fl'.pc # "cleanup"),
         Serving' => mt' \cup UNION {Appended(cl[c])' : c \in Clients} = mt \cup UNION {Appended(cl[c]) : c \in Clients},
         Serving' => \A c \in Clients : Single(cl[c])'
  PROVE  LogsSynced' /\ LogsHold'
<1>1. LogsSynced' /\ \A n : Logged(n)' = Logged(n)
  BY DEF LogsSynced, Logged
<1>2. \A n : Cleaning(n)' <=> Cleaning(n)
  BY DEF Cleaning
<1>3. ASSUME Serving' PROVE TaskLogs' /\ OtherLogs'
  <2>1. TaskLogs'
    BY <1>1, <1>2, <1>3 DEF LogsHold, TaskLogs
  <2>2. OtherLogs'
    BY <1>1, <1>2, <1>3 DEF LogsHold, OtherLogs, Cleaning
  <2> QED
    BY <2>1, <2>2
<1>4. ASSUME Serving'
      PROVE  wal' \in DOMAIN wals' /\ Logged(wal)' = mt' \cup UNION {Appended(cl[c])' : c \in Clients}
  BY <1>1, <1>4 DEF LogsHold
<1> QED
  BY <1>1, <1>3, <1>4 DEF LogsHold

\* The same for the memtable and the calls each.
LEMMA DiskFrame ==
  ASSUME LogsSynced, LogsHold, UNCHANGED <<wals, wal, mt>>, FrozenTasks' = FrozenTasks, IsUp' => IsUp,
         Serving' => Serving, UNCHANGED fl \/ (fl.pc # "cleanup" /\ fl'.pc # "cleanup"),
         Serving' => \A c \in Clients : Appended(cl[c])' = Appended(cl[c]) /\ Single(cl[c])'
  PROVE  LogsSynced' /\ LogsHold'
<1>1. Serving' => {Appended(cl[c])' : c \in Clients} = {Appended(cl[c]) : c \in Clients}
  OBVIOUS
<1> QED
  BY <1>1, DiskMoved

\* What calls have appended, where only one is in progress.
LEMMA AloneAppended ==
  ASSUME TypeInv, NEW c \in Clients, \A d \in Clients : d # c => cl[d] = Idle, NEW r, Become(c, r)
  PROVE  /\ \A d \in Clients : cl'[d] = IF d = c THEN r ELSE Idle
         /\ UNION {Appended(cl[d]) : d \in Clients} = Appended(cl[c])
         /\ UNION {Appended(cl'[d]) : d \in Clients} = Appended(r)
         /\ Single(r) => \A d \in Clients : Single(cl'[d])
<1>1. \A d \in Clients : cl'[d] = IF d = c THEN r ELSE Idle
  BY DEF Become, TypeInv, CallTypes
<1>2. Appended(Idle) = {} /\ Single(Idle)
  BY DEF Appended, Single, Writing, Idle
<1>3. UNION {Appended(cl[d]) : d \in Clients} = Appended(cl[c])
  BY <1>2
<1>4. UNION {Appended(cl'[d]) : d \in Clients} = Appended(r)
  BY <1>1, <1>2
<1> QED
  BY <1>1, <1>2, <1>3, <1>4

\* The fields of a new log.
LEMMA EmptyLog == EmptyWal.recs = <<>> /\ EmptyWal.synced = 0 /\ EmptyWal.torn = {} /\ Len(<<>>) = 0 /\ ToSet(<<>>) = {}
BY DEF EmptyWal, ToSet

\* rotate: the log that has the memtable is closed with it and a new one opened.
LEMMA FreezeDisk ==
  ASSUME TypeInv, CrashRecovery, Keeps, LogsSynced, LogsHold, Serving, phase' = phase, NEW c \in Clients,
         \A d \in Clients : d # c => cl[d] = Idle, NEW r, NEW m, Become(c, r), Freezes(cl[c], r, m),
         wals' = OpenWal(wals, nextFileNum), FrozenTasks' = FrozenTasks \cup {RotateTask(m)}, UNCHANGED fl,
         Logged(wal) = m, Appended(r) = {}, Single(r)
  PROVE  LogsSynced' /\ LogsHold'
<1>1. wal \in DOMAIN wals /\ TaskLogs /\ OtherLogs
  BY DEF LogsHold
<1>2. \A n \in DOMAIN wals : n \in Nat
  BY LogFields
<1>3. PICK new \in Nat : new = nextFileNum /\ wal \in Nat /\ wal < new
  BY <1>1, <1>2 DEF Keeps, LogAhead, TypeInv, Counters
<1>4. wal' = new /\ mt' = {}
  BY <1>3 DEF Freezes
<1>5. \A n \in DOMAIN wals : (n = 0 \/ n <= wal) /\ n # new /\ n <= wal'
  BY <1>2, <1>3, <1>4 DEF LogsSynced, Serving, IsUp
<1>6. new \notin DOMAIN wals /\ wals' = OpenWal(wals, new)
  BY <1>3, <1>5
<1>7. /\ DOMAIN wals' = DOMAIN wals \cup {new} /\ wals'[new] = EmptyWal
      /\ \A n \in DOMAIN wals : wals'[n] = wals[n]
  BY <1>6 DEF OpenWal, Create, Overlay
<1>8. LogsSynced'
  <2>1. \A n \in DOMAIN wals : /\ wals[n].synced = Len(wals[n].recs) /\ wals[n].torn \subseteq {Len(wals[n].recs)}
                               /\ wals[n].torn = {}
    BY DEF LogsSynced, Serving, IsUp
  <2>2. \A n \in DOMAIN wals' : /\ wals'[n].synced = Len(wals'[n].recs) /\ wals'[n].torn = {} /\ n <= wal'
    <3>1. wals'[new].synced = Len(wals'[new].recs) /\ wals'[new].torn = {} /\ new <= wal'
      BY <1>3, <1>4, <1>7, EmptyLog
    <3> QED
      BY <1>5, <1>7, <2>1, <3>1
  <2> QED
    BY <2>2 DEF LogsSynced
<1>9. /\ \A n \in DOMAIN wals : Logged(n)' = Logged(n)
      /\ Logged(new)' = {}
  BY <1>7, EmptyLog DEF Logged
<1>10. \A n : Cleaning(n)' <=> Cleaning(n)
  BY DEF Cleaning
<1>11. PICK t : t = RotateTask(m)
  OBVIOUS
<1>12. t.mt = m /\ t.wal = wal
  BY <1>11 DEF RotateTask, Task
<1>13. \A s \in FrozenTasks : s.wal \in DOMAIN wals /\ s.wal # wal
  BY <1>1, <1>2, <1>3 DEF TaskLogs, Keeps, LogAhead, NoWal
<1>14. ~Cleaning(wal)
  BY <1>3 DEF Cleaning, Keeps, LogAhead, NoWal
<1>15. TaskLogs'
  <2> SUFFICES ASSUME NEW s \in FrozenTasks'
               PROVE  /\ s.wal \in DOMAIN wals' /\ Logged(s.wal)' = s.mt /\ ~Cleaning(s.wal)'
                      /\ \A u \in FrozenTasks' : u.wal = s.wal => u = s
    BY DEF TaskLogs
  <2>1. s \in FrozenTasks \/ s = t
    BY <1>11
  <2>2. \A u \in FrozenTasks' : u \in FrozenTasks \/ u = t
    BY <1>11
  <2> QED
    BY <1>1, <1>7, <1>9, <1>10, <1>12, <1>13, <1>14, <2>1, <2>2 DEF TaskLogs
<1>16. OtherLogs'
  <2> SUFFICES ASSUME NEW n \in DOMAIN wals'
               PROVE  /\ Cleaning(n)' => Logged(n)' \subseteq fl'.task.mt
                      /\ \/ Logged(n)' = {} \/ n = wal' \/ Cleaning(n)'
                         \/ \E s \in FrozenTasks' : n = s.wal
    BY DEF OtherLogs
  <2>1. CASE n = new
    BY <1>9, <2>1
  <2>2. CASE n = wal
    <3>1. t \in FrozenTasks' /\ n = t.wal
      BY <1>11, <1>12, <2>2
    <3> QED
      BY <1>10, <1>14, <2>2, <3>1
  <2>3. CASE n \in DOMAIN wals /\ n # wal
    BY <1>1, <1>9, <1>10, <2>3 DEF OtherLogs
  <2> QED
    BY <1>7, <2>1, <2>2, <2>3
<1>17. UNION {Appended(cl'[d]) : d \in Clients} = {} /\ \A d \in Clients : Single(cl'[d])
  BY AloneAppended
<1> QED
  BY <1>4, <1>7, <1>8, <1>9, <1>15, <1>16, <1>17 DEF LogsHold

\* The log that is appended to grows by what the only call will insert, and is fsynced.
LEMMA AppendDisk ==
  ASSUME TypeInv, Keeps, LogsSynced, LogsHold, Serving, phase' = phase, NEW c \in Clients,
         \A d \in Clients : d # c => cl[d] = Idle, NEW r, Become(c, r), Single(r), Appended(cl[c]) = {},
         UNCHANGED <<wal, mt, fl>>, FrozenTasks' = FrozenTasks, DOMAIN wals' = DOMAIN wals,
         \A n \in DOMAIN wals : n # wal => wals'[n] = wals[n],
         wals'[wal].synced = Len(wals'[wal].recs), wals'[wal].torn = wals[wal].torn,
         ToSet(wals'[wal].recs) = Logged(wal) \cup Appended(r)
  PROVE  LogsSynced' /\ LogsHold'
<1>1. wal \in DOMAIN wals /\ TaskLogs /\ OtherLogs /\ Logged(wal) = mt \cup UNION {Appended(cl[d]) : d \in Clients}
  BY DEF LogsHold
<1>2. wal \in Nat
  BY <1>1, LogFields
<1>3. LogsSynced'
  <2>1. \A n \in DOMAIN wals : /\ wals[n].synced = Len(wals[n].recs) /\ wals[n].torn = {} /\ (n = 0 \/ n <= wal)
    BY DEF LogsSynced, Serving, IsUp
  <2>2. \A n \in DOMAIN wals' : /\ wals'[n].synced = Len(wals'[n].recs) /\ wals'[n].torn = {} /\ (n = 0 \/ n <= wal')
    BY <1>1, <2>1
  <2> QED
    BY <2>2 DEF LogsSynced
<1>4. \A n \in DOMAIN wals : n # wal => Logged(n)' = Logged(n)
  BY DEF Logged
<1>5. Logged(wal)' = Logged(wal) \cup Appended(r)
  BY DEF Logged
<1>6. \A n : Cleaning(n)' <=> Cleaning(n)
  BY DEF Cleaning
<1>7. \A t \in FrozenTasks : t.wal # wal
  BY <1>1, <1>2, LogFields DEF TaskLogs, Keeps, LogAhead, NoWal
<1>8. ~Cleaning(wal)
  BY <1>2 DEF Cleaning, Keeps, LogAhead, NoWal
<1>9. TaskLogs'
  BY <1>1, <1>4, <1>6, <1>7 DEF TaskLogs
<1>10. OtherLogs'
  BY <1>1, <1>4, <1>6, <1>8 DEF OtherLogs
<1>11. /\ UNION {Appended(cl[d]) : d \in Clients} = {} /\ UNION {Appended(cl'[d]) : d \in Clients} = Appended(r)
       /\ \A d \in Clients : Single(cl'[d])
  BY AloneAppended
<1> QED
  BY <1>1, <1>3, <1>5, <1>9, <1>10, <1>11 DEF LogsHold

\* A write begins, is logged, and its record is on disk before it is inserted.
LEMMA WriteDisk ==
  ASSUME TypeInv, TypeInv', FirstRun, NoReplay', NumberedInOrder, TreeOrder, MemOrder, Keeps, Durable, faults' = faults,
         LogsSynced, LogsHold, Serving, NEW c \in Clients, \A d \in Clients : d # c => cl[d] = Idle,
         Put(c) \/ Delete(c) \/ Stall(c) \/ ReadWal(c) \/ AppendWal(c)
  PROVE  LogsSynced' /\ LogsHold'
<1> USE DEF ctlVars, memVars, walVars, vsVars, compVars, histVars
<1>1. cl[c] \in Calls(issued) /\ CallShape(cl[c]) /\ faults \in Nat
  BY DEF TypeInv, CallTypes, Counters
<1>2. ASSUME NEW r, Become(c, r), Appended(cl[c]) = {}, Appended(r) = {}, Serving => Single(r),
             UNCHANGED <<wals, wal, mt, fl, phase>>, FrozenTasks' = FrozenTasks
      PROVE  LogsSynced' /\ LogsHold'
  <2>1. \A d \in Clients : cl'[d] = IF d = c THEN r ELSE cl[d]
    BY <1>2 DEF Become, TypeInv, CallTypes
  <2>2. Serving' => \A d \in Clients : Appended(cl[d])' = Appended(cl[d]) /\ Single(cl[d])'
    BY <1>2, <2>1 DEF LogsHold, Serving
  <2> QED
    BY <1>2, <2>2, DiskFrame DEF IsUp, Serving
<1>3. CASE Put(c) \/ Delete(c)
  <2>1. PICK k, b : Start(c, "write", "stall", NewRecords(<<k>>, <<b>>))
    BY <1>3 DEF Put, Delete
  <2>2. PICK recs : recs = NewRecords(<<k>>, <<b>>) /\ Len(recs) = 1
    <3>1. Len(<<k>>) = 1
      OBVIOUS
    <3>2. Len(NewRecords(<<k>>, <<b>>)) = 1
      BY <3>1 DEF NewRecords
    <3> QED
      BY <3>2
  <2>3. PICK r : r = [Idle EXCEPT !.op = "write", !.pc = "stall", !.recs = recs]
    OBVIOUS
  <2>4. Become(c, r) /\ cl[c] = Idle /\ UNCHANGED <<wals, wal, mt, fl, phase>>
    BY <2>1, <2>2, <2>3 DEF Start
  <2>5. r.op = "write" /\ r.pc = "stall" /\ Len(r.recs) = 1 /\ Idle.pc = "idle"
    BY <2>2, <2>3 DEF Idle
  <2>6. Appended(cl[c]) = {} /\ Appended(r) = {} /\ Single(r)
    BY <2>4, <2>5 DEF Appended, Single
  <2>7. FrozenTasks' = FrozenTasks
    BY <1>3, StartOrder
  <2> QED
    BY <1>2, <2>4, <2>6, <2>7
<1>4. CASE Stall(c) \/ ReadWal(c)
  <2>1. PICK p \in {"log", "append"}, w \in {wal, cl[c].wal} : Become(c, [cl[c] EXCEPT !.pc = p, !.wal = w])
    <3>1. CASE Stall(c)
      <4>1. [cl[c] EXCEPT !.pc = AfterStall] = [cl[c] EXCEPT !.pc = AfterStall, !.wal = cl[c].wal]
        BY <1>1 DEF Calls
      <4>2. AfterStall = "log"
        BY DEF AfterStall, Durable
      <4> QED
        BY <3>1, <4>1, <4>2 DEF Stall
    <3>2. CASE ReadWal(c)
      BY <3>2 DEF ReadWal
    <3> QED
      BY <1>4, <3>1, <3>2
  <2>2. PICK r : r = [cl[c] EXCEPT !.pc = p, !.wal = w]
    OBVIOUS
  <2>3. /\ Become(c, r) /\ cl[c].pc \in {"stall", "log"} /\ UNCHANGED <<wals, wal, mt, fl, phase, flushQ>>
    BY <1>4, <2>1, <2>2 DEF Stall, ReadWal
  <2>4. r.pc = p /\ r.recs = cl[c].recs /\ r.op = cl[c].op /\ r.tasks = <<>> /\ cl[c].tasks = <<>>
    BY <1>1, <2>2, <2>3 DEF Calls, CallShape
  <2>5. Appended(cl[c]) = {} /\ Appended(r) = {} /\ (Serving => Single(r))
    BY <2>3, <2>4 DEF Appended, Single, Writing, LogsHold
  <2>6. Pending(cl[c]) = {} /\ Pending(r) = {}
    BY <2>3, <2>4 DEF Pending
  <2>7. FrozenTasks' = FrozenTasks
    BY <2>3, <2>6, SameFrozen DEF FirstRun
  <2> QED
    BY <1>2, <2>3, <2>5, <2>7
<1>5. CASE AppendWal(c)
  <2>1. cl[c].pc = "append" /\ UNCHANGED <<wal, mt, fl, phase, flushQ, closedWals>>
    BY <1>5 DEF AppendWal
  <2>2. wal \notin closedWals /\ cl[c].wal = wal
    <3>1. wal \in LogNums /\ (\A n \in closedWals : n < wal) /\ cl[c].wal = wal
      BY <2>1 DEF Keeps, LogAhead, TypeInv, LogTypes
    <3> QED
      BY <3>1 DEF LogNums, NoWal
  <2>3. PICK log : log = wals[wal].recs \o cl[c].recs
    OBVIOUS
  <2>4. /\ wals' = [wals EXCEPT ![wal].recs = log, ![wal].synced = Len(log)]
        /\ Become(c, [cl[c] EXCEPT !.pc = "apply"])
    <3>1. PICK fault \in Faults({"append"}) :
            /\ Count(fault)
            /\ \/ cl[c].wal \in closedWals
               \/ fault = "append"
               \/ /\ wals' = [wals EXCEPT ![cl[c].wal].recs = wals[cl[c].wal].recs \o cl[c].recs,
                                          ![cl[c].wal].synced = IF SyncBatch THEN Len(wals[cl[c].wal].recs \o cl[c].recs) ELSE @]
                  /\ Become(c, [cl[c] EXCEPT !.pc = "apply"])
      BY <1>5 DEF AppendWal
    <3>2. fault # "append" /\ SyncBatch = TRUE
      BY <1>1, <3>1 DEF Count, Durable
    <3> QED
      BY <2>2, <2>3, <3>1, <3>2
  <2>5. PICK r : r = [cl[c] EXCEPT !.pc = "apply"]
    OBVIOUS
  <2>6. r.pc = "apply" /\ r.recs = cl[c].recs /\ r.op = cl[c].op /\ r.tasks = <<>> /\ cl[c].tasks = <<>>
    BY <1>1, <2>1, <2>5 DEF Calls, CallShape
  <2>7. Appended(cl[c]) = {} /\ Appended(r) = ToSet(cl[c].recs) /\ Single(r)
    BY <2>1, <2>6 DEF Appended, Single, Writing, LogsHold
  <2>8. Pending(cl[c]) = {} /\ Pending(r) = {}
    BY <2>1, <2>6 DEF Pending
  <2>9. Become(c, r)
    BY <2>4, <2>5
  <2>10. FrozenTasks' = FrozenTasks
    BY <2>1, <2>8, <2>9, SameFrozen DEF FirstRun
  <2>11. wal \in DOMAIN wals
    BY DEF LogsHold
  <2>12. /\ wals[wal].recs \in Seq(issued) /\ cl[c].recs \in Seq(issued)
         /\ wals[wal] = [recs |-> wals[wal].recs, synced |-> wals[wal].synced, torn |-> wals[wal].torn]
    BY <1>1, <2>11, LogFields DEF Calls
  <2>13. /\ DOMAIN wals' = DOMAIN wals /\ \A n \in DOMAIN wals : n # wal => wals'[n] = wals[n]
    BY <2>4
  <2>14. wals'[wal].recs = log /\ wals'[wal].synced = Len(log) /\ wals'[wal].torn = wals[wal].torn
    BY <2>4, <2>11, <2>12
  <2>15. ToSet(log) = ToSet(wals[wal].recs) \cup ToSet(cl[c].recs)
    BY <2>3, <2>12, ConcatElements
  <2> QED
    BY <2>1, <2>7, <2>9, <2>10, <2>13, <2>14, <2>15, AppendDisk DEF Logged
<1> QED
  BY <1>3, <1>4, <1>5

\* The record is inserted, and a full memtable frozen with the log that has it.
LEMMA ApplyDisk ==
  ASSUME TypeInv, TypeInv', FirstRun, NoReplay', TreeOrder, MemOrder, Keeps, Durable, faults' = faults,
         LogsSynced, LogsHold, Serving, NEW c \in Clients, \A d \in Clients : d # c => cl[d] = Idle, Apply(c)
  PROVE  LogsSynced' /\ LogsHold'
<1> USE DEF ctlVars, memVars, walVars, vsVars, compVars, histVars
<1>1. PICK r, x, m :
        /\ cl[c].pc = "apply" /\ Become(c, r) /\ x \in Waiting(cl[c]) /\ m = mt \cup {x}
        /\ UNCHANGED <<flushQ, fl, job, rv, issued, starts, phase, levels>>
        /\ KeepsFiles({PathOf(t) : t \in Listed}) /\ (job.pc = "install" => KeepsFiles(Paths(job.outs)))
        /\ Waiting(r) = Waiting(cl[c]) \ {x}
        /\ Grows(cl[c], r, m) \/ Freezes(cl[c], r, m)
  BY Insertion
<1>2. TableRecords' = TableRecords
  BY <1>1, OrderFrame
<1>3. \A d \in Clients : cl'[d] = IF d = c THEN r ELSE Idle
  BY <1>1, AloneInserted
<1>4. ToSet(cl[c].recs) = {x} /\ Waiting(cl[c]) = {x}
  <2>1. cl[c].recs \in Seq(issued) /\ cl[c].i \in 1..Len(cl[c].recs) /\ Len(cl[c].recs) = 1
    BY <1>1 DEF TypeInv, CallTypes, Calls, CallShape, LogsHold, Single, Writing
  <2> QED
    BY <1>1, <2>1 DEF ToSet, Waiting
<1>5. r.pc \in {"idle", "send"} /\ r.op # "batch"
  <2>1. CASE r = Idle
    BY <2>1 DEF Idle
  <2>2. CASE r.op = cl[c].op /\ r.pc \in {"apply", "send"}
    <3>1. r \in Calls(issued') /\ CallShape(r)
      BY <1>3 DEF TypeInv, CallTypes
    <3>2. Waiting(r) = {} /\ cl[c].op # "batch"
      BY <1>1, <1>4 DEF LogsHold, Single
    <3>3. ASSUME r.pc = "apply" PROVE FALSE
      <4>1. r.i \in 1..Len(r.recs) /\ Len(r.recs) \in Nat
        BY <3>1, <3>3 DEF CallShape, Calls
      <4>2. r.i \in r.i..Len(r.recs)
        BY <4>1
      <4>3. r.recs[r.i] \in Waiting(r)
        BY <3>3, <4>2 DEF Waiting
      <4> QED
        BY <3>2, <4>3
    <3> QED
      BY <2>2, <3>2, <3>3
  <2> QED
    BY <1>1, <2>1, <2>2, InsertedCall
<1>6. Appended(cl[c]) = {x} /\ Appended(r) = {} /\ Single(r)
  BY <1>1, <1>4, <1>5 DEF Appended, Single, Writing
<1>7. /\ UNION {Appended(cl[d]) : d \in Clients} = {x} /\ UNION {Appended(cl'[d]) : d \in Clients} = {}
      /\ \A d \in Clients : Single(cl'[d])
  BY <1>1, <1>6, AloneAppended
<1>8. Logged(wal) = m
  BY <1>1, <1>7 DEF LogsHold
<1>9. (mt' # {} /\ wals' = wals) \/ (mt' = {} /\ wals' = OpenWal(wals, nextFileNum))
  <2>1. PICK fault \in Faults(RotateFaults) :
          /\ Count(fault)
          /\ \/ rotate(mt \cup {cl[c].recs[cl[c].i]}, fault)
             \/ mt' = mt \cup {cl[c].recs[cl[c].i]} /\ UNCHANGED walVars
    BY DEF Apply
  <2>2. fault = "none"
    BY <2>1 DEF Count, TypeInv, Counters
  <2> QED
    BY <2>1, <2>2 DEF rotate, Durable
<1>10. CASE Grows(cl[c], r, m)
  <2>1. mt' = m /\ wal' = wal /\ m # {} /\ wals' = wals
    BY <1>1, <1>9, <1>10 DEF Grows
  <2>2. FrozenTasks' = FrozenTasks
    <3>1. ASSUME NEW s PROVE Frozen(s)' <=> Frozen(s)
      <4>1. (\E d \in Clients : \E i \in Pending(cl'[d]) : s = cl'[d].tasks[i]) <=> \E i \in Pending(r) : s = r.tasks[i]
        BY <1>3, IdleCall
      <4>2. (\E d \in Clients : \E i \in Pending(cl[d]) : s = cl[d].tasks[i])
              <=> \E i \in Pending(cl[c]) : s = cl[c].tasks[i]
        BY IdleCall
      <4>3. (\E i \in Pending(r) : s = r.tasks[i]) <=> \E i \in Pending(cl[c]) : s = cl[c].tasks[i]
        BY <1>10 DEF Grows
      <4> QED
        BY <1>1, <4>1, <4>2, <4>3 DEF Frozen, Busy
    <3> QED
      BY <3>1, FrozenParts DEF FirstRun
  <2>3. mt' \cup UNION {Appended(cl'[d]) : d \in Clients} = mt \cup UNION {Appended(cl[d]) : d \in Clients}
    BY <1>1, <1>7, <2>1
  <2> QED
    BY <1>1, <1>7, <2>1, <2>2, <2>3, DiskMoved DEF IsUp, Serving
<1>11. CASE Freezes(cl[c], r, m)
  <2>1. wals' = OpenWal(wals, nextFileNum)
    BY <1>9, <1>11 DEF Freezes
  <2>2. FrozenTasks' = FrozenTasks \cup {RotateTask(m)}
    BY <1>1, <1>2, <1>5, <1>11, FreezeLog DEF FirstRun
  <2> QED
    BY <1>1, <1>6, <1>8, <1>11, <2>1, <2>2, FreezeDisk DEF Durable
<1> QED
  BY <1>1, <1>10, <1>11

\* Its task is sent.
LEMMA SendDisk ==
  ASSUME TypeInv, TypeInv', FirstRun, NoReplay', TreeOrder, MemOrder, LogsSynced, LogsHold, Serving, NEW c \in Clients,
         \A d \in Clients : d # c => cl[d] = Idle, Send(c)
  PROVE  LogsSynced' /\ LogsHold'
<1>1. PICK r : /\ cl[c].pc = "send" /\ Become(c, r) /\ ~Writing(r)
               /\ r.op = cl[c].op \/ (r = Idle /\ cl[c].op \in {"write", "batch"})
               /\ UNCHANGED <<fl, mt, wal, wals, phase>>
  BY Sending
<1>2. FrozenTasks' = FrozenTasks
  BY SendOrder
<1>3. \A d \in Clients : cl'[d] = IF d = c THEN r ELSE cl[d]
  BY <1>1 DEF Become, TypeInv, CallTypes
<1>4. Appended(cl[c]) = {} /\ Appended(r) = {}
  BY <1>1 DEF Appended, Writing
<1>5. Single(r)
  BY <1>1 DEF LogsHold, Single, Idle
<1>6. \A d \in Clients : Appended(cl'[d]) = Appended(cl[d]) /\ Single(cl'[d])
  BY <1>3, <1>4, <1>5 DEF LogsHold
<1> QED
  BY <1>1, <1>2, <1>6, DiskFrame DEF IsUp, Serving

\* Sync and Close freeze the memtable with the log that has it.
LEMMA RotateForSyncDisk ==
  ASSUME TypeInv, TypeInv', FirstRun, NoReplay', TreeOrder, Keeps, Durable, faults' = faults,
         LogsSynced, LogsHold, Serving, NEW c \in Clients, \A d \in Clients : d # c => cl[d] = Idle, RotateForSync(c)
  PROVE  LogsSynced' /\ LogsHold'
<1> USE DEF ctlVars, memVars, walVars, vsVars, compVars, histVars
<1>1. PICK r :
        /\ cl[c].pc = "rotate" /\ Become(c, r) /\ ~Writing(r) /\ Pending(cl[c]) = {}
        /\ UNCHANGED <<flushQ, fl, job, levels, phase>>
        /\ KeepsFiles({PathOf(t) : t \in Listed}) /\ (job.pc = "install" => KeepsFiles(Paths(job.outs)))
        /\ \/ mt' = mt /\ Pending(r) = {} /\ wal' = wal
           \/ mt # {} /\ Freezes(cl[c], r, mt)
  BY Rotation
<1>2. TableRecords' = TableRecords
  BY <1>1, OrderFrame
<1>3. Appended(cl[c]) = {} /\ Appended(r) = {} /\ r.pc # "append"
  BY <1>1 DEF Appended, Writing
<1>4. Single(r)
  <2>1. \/ Become(c, Idle)
        \/ Become(c, [cl[c] EXCEPT !.pc = "wait"])
        \/ Become(c, [cl[c] EXCEPT !.pc = "send", !.tasks = <<RotateTask(mt)>>])
    BY DEF RotateForSync
  <2>2. \A s : Become(c, s) => s = r
    BY <1>1 DEF Become, TypeInv, CallTypes
  <2>3. \/ r = Idle
        \/ r = [cl[c] EXCEPT !.pc = "wait"]
        \/ r = [cl[c] EXCEPT !.pc = "send", !.tasks = <<RotateTask(mt)>>]
    BY <2>1, <2>2
  <2>4. r = Idle \/ r.op = cl[c].op
    BY <2>3 DEF TypeInv, CallTypes, Calls
  <2> QED
    BY <1>1, <2>4 DEF Single, LogsHold, Idle
<1>5. (mt = {} /\ wals' = wals) \/ (mt # {} /\ mt' = {} /\ wals' = OpenWal(wals, nextFileNum))
  <2>1. PICK fault \in Faults(RotateFaults) :
          /\ Count(fault)
          /\ \/ mt = {} /\ UNCHANGED walVars
             \/ mt # {} /\ rotate(mt, fault)
    BY DEF RotateForSync
  <2>2. fault = "none"
    BY <2>1 DEF Count, TypeInv, Counters
  <2> QED
    BY <2>1, <2>2 DEF rotate, Durable
<1>6. CASE mt = {} /\ wals' = wals
  <2>1. mt' = mt /\ Pending(r) = {} /\ wal' = wal
    BY <1>1, <1>6
  <2>2. FrozenTasks' = FrozenTasks
    BY <1>1, <2>1, SameFrozen DEF FirstRun
  <2>3. \A d \in Clients : cl'[d] = IF d = c THEN r ELSE cl[d]
    BY <1>1 DEF Become, TypeInv, CallTypes
  <2>4. \A d \in Clients : Appended(cl'[d]) = Appended(cl[d]) /\ Single(cl'[d])
    BY <1>3, <1>4, <2>3 DEF LogsHold
  <2> QED
    BY <1>1, <1>6, <2>1, <2>2, <2>4, DiskFrame DEF IsUp, Serving
<1>7. CASE mt # {} /\ mt' = {} /\ wals' = OpenWal(wals, nextFileNum)
  <2>1. Freezes(cl[c], r, mt)
    BY <1>1, <1>7
  <2>2. FrozenTasks' = FrozenTasks \cup {RotateTask(mt)}
    BY <1>1, <1>2, <1>3, <2>1, FreezeLog DEF FirstRun
  <2>3. Logged(wal) = mt
    <3>1. UNION {Appended(cl[d]) : d \in Clients} = {}
      BY <1>1, <1>3, AloneAppended
    <3> QED
      BY <3>1 DEF LogsHold
  <2> QED
    BY <1>1, <1>3, <1>4, <1>7, <2>1, <2>2, <2>3, FreezeDisk DEF Durable
<1> QED
  BY <1>5, <1>6, <1>7

\* Sync fsyncs the log; Close begins and Sync returns.
LEMMA SyncDisk ==
  ASSUME TypeInv, TypeInv', FirstRun, NoReplay', TreeOrder, Keeps, Durable, faults' = faults,
         LogsSynced, LogsHold, Serving, NEW c \in Clients, \A d \in Clients : d # c => cl[d] = Idle,
         Sync(c) \/ Close(c) \/ SyncReturn(c)
  PROVE  LogsSynced' /\ LogsHold'
<1> USE DEF ctlVars, memVars, walVars, vsVars, compVars, histVars
<1>1. UNCHANGED <<flushQ, mt, wal, fl>>
  BY DEF Sync, Close, SyncReturn
<1>2. PICK r : /\ Become(c, r) /\ Pending(r) = {} /\ Pending(cl[c]) = {} /\ Appended(r) = {} /\ Appended(cl[c]) = {}
               /\ Single(r) /\ (IsUp' => IsUp)
  <2>1. CASE Sync(c) \/ Close(c)
    <3>1. PICK o \in {"sync", "close"} : Become(c, Idle) \/ Become(c, [Idle EXCEPT !.op = o, !.pc = "rotate"])
      BY <2>1 DEF Sync, Close
    <3>2. PICK r : r = [Idle EXCEPT !.op = o, !.pc = "rotate"]
      OBVIOUS
    <3>3. r.pc = "rotate" /\ Idle.pc = "idle" /\ Idle.op = "none" /\ r.op = o
      BY <3>2 DEF Idle
    <3>4. cl[c] = Idle /\ phase = "up"
      BY <2>1 DEF Sync, Close
    <3>5. /\ Pending(r) = {} /\ Appended(r) = {} /\ Single(r)
          /\ Pending(Idle) = {} /\ Appended(Idle) = {} /\ Single(Idle)
      BY <3>3 DEF Pending, Appended, Single, Writing
    <3> QED
      BY <3>1, <3>2, <3>4, <3>5 DEF IsUp
  <2>2. CASE SyncReturn(c)
    <3>1. cl[c].pc = "wait" /\ Become(c, Idle) /\ phase' = phase
      BY <2>2 DEF SyncReturn
    <3>2. Idle.pc = "idle" /\ Idle.op = "none"
      BY DEF Idle
    <3>3. Pending(cl[c]) = {} /\ Appended(cl[c]) = {} /\ Pending(Idle) = {} /\ Appended(Idle) = {} /\ Single(Idle)
      BY <3>1, <3>2 DEF Pending, Appended, Single, Writing
    <3> QED
      BY <3>1, <3>3 DEF IsUp
  <2> QED
    BY <2>1, <2>2
<1>3. FrozenTasks' = FrozenTasks
  BY <1>1, <1>2, SameFrozen DEF FirstRun
<1>4. CASE wals' = wals
  <2>1. \A d \in Clients : cl'[d] = IF d = c THEN r ELSE cl[d]
    BY <1>2 DEF Become, TypeInv, CallTypes
  <2>2. \A d \in Clients : Appended(cl'[d]) = Appended(cl[d]) /\ Single(cl'[d])
    BY <1>2, <2>1 DEF LogsHold
  <2> QED
    BY <1>1, <1>2, <1>3, <1>4, <2>2, DiskFrame
<1>5. CASE Sync(c) /\ wals' = [wals EXCEPT ![wal].synced = Len(wals[wal].recs)]
  <2>1. wal \in DOMAIN wals /\ phase' = phase
    BY <1>5 DEF LogsHold, Sync
  <2>2. wals[wal] = [recs |-> wals[wal].recs, synced |-> wals[wal].synced, torn |-> wals[wal].torn]
    BY <2>1, LogFields
  <2>3. DOMAIN wals' = DOMAIN wals /\ \A n \in DOMAIN wals : n # wal => wals'[n] = wals[n]
    BY <1>5
  <2>4. wals'[wal].recs = wals[wal].recs /\ wals'[wal].synced = Len(wals[wal].recs) /\ wals'[wal].torn = wals[wal].torn
    BY <1>5, <2>1, <2>2
  <2> QED
    BY <1>1, <1>2, <1>3, <2>1, <2>3, <2>4, AppendDisk DEF Logged
<1> QED
  BY <1>4, <1>5 DEF Sync, Close, SyncReturn

\* The calls of one client; only an open engine is called.
LEMMA ClientDisk ==
  ASSUME TypeInv, TypeInv', FirstRun, NoReplay', NumberedInOrder, TreeOrder, MemOrder, Keeps, OneCall, OneCall', Durable,
         faults' = faults, LogsSynced, LogsHold, CallsServed, NEW c \in Clients, ClientNext(c)
  PROVE  LogsSynced' /\ LogsHold' /\ Serving /\ Serving'
<1> USE DEF ctlVars, memVars, walVars, vsVars, compVars, histVars
<1>1. CASE Put(c) \/ Delete(c)
  <2>1. PICK k, b : Start(c, "write", "stall", NewRecords(<<k>>, <<b>>))
    BY <1>1 DEF Put, Delete
  <2>2. PICK r : r = [Idle EXCEPT !.op = "write", !.pc = "stall", !.recs = NewRecords(<<k>>, <<b>>)]
    OBVIOUS
  <2>3. phase = "up" /\ phase' = phase /\ Become(c, r)
    BY <2>1, <2>2 DEF Start
  <2>4. r.pc = "stall" /\ Idle.pc = "idle"
    BY <2>2 DEF Idle
  <2>5. \A d \in Clients : d # c => cl[d] = Idle
    BY <2>3, <2>4, OthersIdle
  <2>6. Serving /\ Serving'
    BY <2>3 DEF Serving
  <2> QED
    BY <1>1, <2>5, <2>6, WriteDisk
<1>2. ~WriteBatch(c)
  BY DEF WriteBatch, Durable
<1>3. CASE Stall(c) \/ ReadWal(c) \/ AppendWal(c) \/ Apply(c) \/ Send(c) \/ SyncReturn(c) \/ RotateForSync(c)
  <2>1. cl[c].pc # "idle" /\ Idle.pc = "idle"
    BY <1>3 DEF Apply, Send, RotateForSync, Stall, ReadWal, AppendWal, SyncReturn, Idle
  <2>2. \A d \in Clients : d # c => cl[d] = Idle
    BY <2>1 DEF OneCall
  <2>3. Serving
    BY <2>1 DEF CallsServed
  <2>4. Serving'
    <3>1. CASE RotateForSync(c)
      <4>1. phase' = phase \/ phase' = "up"
        BY <3>1 DEF RotateForSync
      <4> QED
        BY <2>3, <4>1 DEF Serving
    <3>2. CASE Stall(c) \/ ReadWal(c) \/ AppendWal(c) \/ Apply(c) \/ Send(c) \/ SyncReturn(c)
      <4>1. phase' = phase
        BY <3>2 DEF Apply, Send, Stall, ReadWal, AppendWal, SyncReturn
      <4> QED
        BY <2>3, <4>1 DEF Serving
    <3> QED
      BY <1>3, <3>1, <3>2
  <2> QED
    BY <1>3, <2>2, <2>3, <2>4, WriteDisk, ApplyDisk, SendDisk, SyncDisk, RotateForSyncDisk
<1>4. CASE Sync(c) \/ Close(c)
  <2>1. PICK o \in {"sync", "close"} : Become(c, [Idle EXCEPT !.op = o, !.pc = "rotate"])
    <3>1. CASE Sync(c)
      <4>1. PICK fault \in Faults(IF CrashRecovery THEN {"fsync"} ELSE {}) :
              Count(fault) /\ Become(c, IF fault = "none" THEN [Idle EXCEPT !.op = "sync", !.pc = "rotate"] ELSE Idle)
        BY <3>1 DEF Sync
      <4>2. fault = "none"
        BY <4>1 DEF Count, TypeInv, Counters
      <4> QED
        BY <4>1, <4>2
    <3>2. CASE Close(c)
      BY <3>2 DEF Close
    <3> QED
      BY <1>4, <3>1, <3>2
  <2>2. PICK r : r = [Idle EXCEPT !.op = o, !.pc = "rotate"]
    OBVIOUS
  <2>3. r.pc = "rotate" /\ Idle.pc = "idle" /\ Become(c, r)
    BY <2>1, <2>2 DEF Idle
  <2>4. \A d \in Clients : d # c => cl[d] = Idle
    BY <2>3, OthersIdle
  <2>5. Serving /\ Serving'
    BY <1>4 DEF Serving, Sync, Close
  <2> QED
    BY <1>4, <2>4, <2>5, SyncDisk
<1> QED
  BY <1>1, <1>2, <1>3, <1>4 DEF ClientNext

\* A flush: its table takes the place of the log, which is then removed.
LEMMA FlushDisk ==
  ASSUME TypeInv, TypeInv', FirstRun, NoReplay', NumberedInOrder, TreeOrder, MemOrder, Keeps, faults' = faults,
         LogsSynced, LogsHold, FlusherNext
  PROVE  LogsSynced' /\ LogsHold'
<1> USE DEF ctlVars, memVars, walVars, vsVars, compVars, histVars
<1>1. UNCHANGED <<mt, wal, cl, phase>>
  BY DEF FlusherNext, FlushTake, FlushWrite, FlushInstall, FlushCleanup
<1>2. CASE FlushTake \/ FlushWrite
  <2>1. FrozenTasks' = FrozenTasks
    BY <1>2, FlushTakeOrder, FlushWriteOrder
  <2>2. fl.pc # "cleanup" /\ fl'.pc # "cleanup" /\ wals' = wals
    <3>1. CASE FlushTake
      <4>1. fl.pc = "idle" /\ fl' = [FlIdle EXCEPT !.pc = "write", !.task = Head(flushQ)] /\ wals' = wals
        BY <3>1 DEF FlushTake
      <4> QED
        BY <4>1 DEF FlIdle
    <3>2. CASE FlushWrite
      <4>1. /\ fl.pc = "write" /\ (fl' = FlIdle \/ fl' = [fl EXCEPT !.pc = "install", !.next = nextFileNum])
            /\ wals' = wals
        BY <3>2 DEF FlushWrite
      <4>2. fl \in Flushers(issued) /\ FlIdle.pc = "idle"
        BY DEF FlIdle, TypeInv, FlusherTypes
      <4> QED
        BY <4>1, <4>2 DEF Flushers
    <3> QED
      BY <1>2, <3>1, <3>2
  <2>3. Serving' => \A c \in Clients : Appended(cl[c])' = Appended(cl[c]) /\ Single(cl[c])'
    BY <1>1 DEF LogsHold, Serving
  <2> QED
    BY <1>1, <2>1, <2>2, <2>3, DiskFrame DEF IsUp, Serving
<1>3. ASSUME FlushInstall \/ FlushCleanup, \A n \in DOMAIN wals' : n \in DOMAIN wals /\ wals'[n] = wals[n],
             Serving => wal \in DOMAIN wals' /\ TaskLogs' /\ OtherLogs'
      PROVE  LogsSynced' /\ LogsHold'
  <2>1. LogsSynced'
    BY <1>1, <1>3 DEF LogsSynced, IsUp
  <2>2. Serving => Logged(wal)' = Logged(wal)
    BY <1>1, <1>3 DEF Logged
  <2>3. Serving' => wal' \in DOMAIN wals' /\ Logged(wal)' = mt' \cup UNION {Appended(cl[c])' : c \in Clients}
    BY <1>1, <1>3, <2>2 DEF LogsHold, Serving
  <2>4. Serving' => \A c \in Clients : Single(cl[c])'
    BY <1>1 DEF LogsHold, Serving
  <2>5. Serving' => TaskLogs' /\ OtherLogs'
    BY <1>1, <1>3 DEF Serving
  <2> QED
    BY <2>1, <2>3, <2>4, <2>5 DEF LogsHold
<1>4. CASE FlushInstall
  <2>1. fl.pc = "install" /\ fl' = [fl EXCEPT !.pc = "cleanup"] /\ wals' = wals
    BY <1>4 DEF FlushInstall
  <2>2. fl'.pc = "cleanup" /\ fl'.task = fl.task
    BY <2>1 DEF TypeInv, FlusherTypes, Flushers
  <2>3. fl.task \in FrozenTasks /\ FrozenTasks' = FrozenTasks \ {fl.task}
    BY <1>4, FlushInstallOrder
  <2>4. \A n : (~Cleaning(n)) /\ (Cleaning(n)' <=> n = fl.task.wal) /\ Logged(n)' = Logged(n)
    BY <2>1, <2>2 DEF Cleaning, Logged
  <2>5. ASSUME Serving PROVE TaskLogs'
    <3>1. TaskLogs
      BY <2>5 DEF LogsHold
    <3>2. \A t \in FrozenTasks' : t \in FrozenTasks /\ t.wal # fl.task.wal
      BY <2>3, <3>1 DEF TaskLogs
    <3> QED
      BY <2>1, <2>4, <3>1, <3>2 DEF TaskLogs
  <2>6. ASSUME Serving PROVE OtherLogs'
    <3>1. TaskLogs /\ OtherLogs
      BY <2>6 DEF LogsHold
    <3>2. Logged(fl.task.wal) = fl.task.mt
      BY <2>3, <3>1 DEF TaskLogs
    <3> SUFFICES ASSUME NEW n \in DOMAIN wals'
                 PROVE  /\ Cleaning(n)' => Logged(n)' \subseteq fl'.task.mt
                        /\ \/ Logged(n)' = {} \/ n = wal' \/ Cleaning(n)'
                           \/ \E t \in FrozenTasks' : n = t.wal
      BY DEF OtherLogs
    <3>3. Cleaning(n)' => Logged(n)' \subseteq fl'.task.mt
      BY <2>2, <2>4, <3>2
    <3>4. CASE \E t \in FrozenTasks : n = t.wal
      BY <2>3, <2>4, <3>3, <3>4
    <3> QED
      BY <1>1, <2>1, <2>4, <3>1, <3>3, <3>4 DEF OtherLogs
  <2> QED
    BY <1>3, <1>4, <2>1, <2>5, <2>6 DEF LogsHold
<1>5. CASE FlushCleanup
  <2>1. PICK w : w = fl.task.wal
    OBVIOUS
  <2>2. /\ fl.pc = "cleanup" /\ fl' = FlIdle
        /\ IF w # NoWal THEN wals' = Unlink(wals, {w}) ELSE wals' = wals
    BY <1>5, <2>1 DEF FlushCleanup
  <2>3. NoWal \notin DOMAIN wals
    BY DEF TypeInv, LogTypes, NoWal
  <2>4. DOMAIN wals' = DOMAIN wals \ {w} /\ \A n \in DOMAIN wals' : wals'[n] = wals[n]
    BY <2>2, <2>3 DEF Unlink
  <2>5. FrozenTasks' = FrozenTasks
    BY <1>5, BackgroundOrder
  <2>6. \A n : ~Cleaning(n)' /\ (Cleaning(n) <=> n = w)
    BY <2>1, <2>2 DEF Cleaning, FlIdle
  <2>7. \A n \in DOMAIN wals' : Logged(n)' = Logged(n)
    BY <2>4 DEF Logged
  <2>8. ASSUME Serving PROVE wal \in DOMAIN wals'
    <3>1. wal \in DOMAIN wals /\ wal \in Nat
      BY <2>8, LogFields DEF LogsHold
    <3>2. w # wal
      BY <2>1, <2>2, <3>1 DEF Keeps, LogAhead, NoWal
    <3> QED
      BY <2>4, <3>1, <3>2
  <2>9. ASSUME Serving PROVE TaskLogs'
    <3>1. TaskLogs
      BY <2>9 DEF LogsHold
    <3>2. \A t \in FrozenTasks : t.wal \in DOMAIN wals'
      BY <2>4, <2>6, <3>1 DEF TaskLogs
    <3> QED
      BY <2>5, <2>6, <2>7, <3>1, <3>2 DEF TaskLogs
  <2>10. ASSUME Serving PROVE OtherLogs'
    <3>1. OtherLogs
      BY <2>10 DEF LogsHold
    <3> QED
      BY <1>1, <2>4, <2>5, <2>6, <2>7, <3>1 DEF OtherLogs
  <2> QED
    BY <1>3, <1>5, <2>4, <2>8, <2>9, <2>10
<1> QED
  BY <1>2, <1>4, <1>5 DEF FlusherNext

\* The compactor and snapshots, which leave all of this alone.
LEMMA CompactorDisk ==
  ASSUME TypeInv, TypeInv', FirstRun, NoReplay', NumberedInOrder, TreeOrder, MemOrder, LogsSynced, LogsHold,
         CompactorNext \/ SnapshotNext \/ UNCHANGED vars
  PROVE  LogsSynced' /\ LogsHold' /\ UNCHANGED <<phase, cl, issued>>
<1> USE DEF ctlVars, memVars, walVars, vsVars, compVars, histVars
<1>1. UNCHANGED <<mt, wal, wals, cl, phase, fl, issued>>
  BY DEF CompactorNext, CompactBegin, CompactMerge, CompactInstall, CompactRemove, CompactDone, Reschedule,
         RescheduleClear, SnapshotNext, NewSnapshot, Release, vars
<1>2. FrozenTasks' = FrozenTasks
  BY CompactInstallOrder, BackgroundOrder DEF CompactorNext
<1>3. Serving' => \A c \in Clients : Appended(cl[c])' = Appended(cl[c]) /\ Single(cl[c])'
  BY <1>1 DEF LogsHold, Serving
<1> QED
  BY <1>1, <1>2, <1>3, DiskFrame DEF IsUp, Serving

\* The first start makes an empty log, and the engine opens with another.
LEMMA OpenDisk ==
  ASSUME TypeInv, TypeInv', FirstRun, NoReplay', NumberedInOrder, TreeOrder, MemOrder, Keeps, Durable, starts' <= 1,
         LogsSynced, LogsHold, New \/ RecoverFinish
  PROVE  LogsSynced' /\ LogsHold' /\ CallsServed'
<1> USE DEF ctlVars, memVars, walVars, vsVars, compVars, histVars
<1>1. CASE New
  <2>1. starts = 0
    BY <1>1 DEF New, TypeInv, Counters
  <2>2. phase = "down" /\ DOMAIN wals = {} /\ manifest.log = 0
    BY <2>1 DEF FirstRun, Fresh, NoManifest
  <2>3. wals' = OpenWal(wals, 0) /\ phase' = "recovering" /\ cl' = cl
    BY <1>1, <2>2 DEF New, Durable
  <2>4. DOMAIN wals' = {0} /\ wals'[0] = EmptyWal
    BY <2>2, <2>3 DEF OpenWal, Create, Overlay
  <2>5. LogsSynced'
    BY <2>4, EmptyLog DEF LogsSynced
  <2>6. \A c \in Clients : cl[c] = Idle
    BY <2>2 DEF TypeInv, Lost
  <2> QED
    BY <2>3, <2>5, <2>6 DEF LogsHold, Serving, CallsServed
<1>2. CASE RecoverFinish
  <2>1. /\ rv.pc = "open" /\ phase' = "up" /\ wal' = nextFileNum /\ wals' = OpenWal(wals, nextFileNum)
        /\ UNCHANGED <<fl, mt, cl, issued>>
    BY <1>2 DEF RecoverFinish
  <2>2. phase = "recovering" /\ (\A c \in Clients : cl[c] = Idle) /\ issued = {}
    BY <2>1 DEF Keeps, OpenedAlone, NumberedInOrder
  <2>3. \A n \in DOMAIN wals : n \in Nat /\ Logged(n) = {}
    BY <2>2, LogFields
  <2>4. PICK new \in Nat : new = nextFileNum /\ wal < new /\ (wal \in Nat \/ wal = NoWal)
    BY DEF Keeps, LogAhead, TypeInv, Counters, LogTypes, LogNums
  <2>5. wal' = new /\ wals' = OpenWal(wals, new)
    BY <2>1, <2>4
  <2>6. \A n \in DOMAIN wals : /\ wals[n].synced = Len(wals[n].recs) /\ wals[n].torn = {} /\ (n = 0 \/ n <= wal')
    BY <2>2, <2>3, <2>4, <2>5 DEF LogsSynced, IsUp, NoWal
  <2>7. /\ new \in DOMAIN wals' /\ \A n \in DOMAIN wals' : (n \in DOMAIN wals /\ wals'[n] = wals[n]) \/ (n = new /\ wals'[n] = EmptyWal)
    BY <2>5 DEF OpenWal, Create, Overlay
  <2>8. LogsSynced'
    <3>1. \A n \in DOMAIN wals' : wals'[n].synced = Len(wals'[n].recs) /\ wals'[n].torn = {} /\ (n = 0 \/ n <= wal')
      BY <2>4, <2>5, <2>6, <2>7, EmptyLog
    <3> QED
      BY <3>1 DEF LogsSynced
  <2>9. \A n \in DOMAIN wals' : Logged(n)' = {}
    BY <2>3, <2>7, EmptyLog DEF Logged
  <2>10. mt' = {} /\ FrozenTasks' = {}
    <3>1. mt = {} /\ \A t \in Tasks(issued) : FALSE
      BY <2>2 DEF TypeInv, MemTypes, Tasks
    <3>2. FrozenTasks = {}
      BY <3>1, FrozenTypes DEF FirstRun
    <3>3. FrozenTasks' = FrozenTasks
      BY <1>2, BackgroundOrder
    <3> QED
      BY <2>1, <3>1, <3>2, <3>3
  <2>11. \A c \in Clients : Appended(cl'[c]) = {} /\ Single(cl'[c])
    <3>1. Appended(Idle) = {} /\ Single(Idle)
      BY DEF Appended, Single, Writing, Idle
    <3> QED
      BY <2>1, <2>2, <3>1
  <2>12. UNION {Appended(cl'[c]) : c \in Clients} = {}
    BY <2>11
  <2>13. TaskLogs' /\ OtherLogs'
    BY <2>9, <2>10 DEF TaskLogs, OtherLogs
  <2>14. wal' \in DOMAIN wals' /\ Logged(wal)' = {}
    BY <2>5, <2>7, <2>9
  <2>15. LogsHold'
    BY <2>10, <2>11, <2>12, <2>13, <2>14 DEF LogsHold
  <2> QED
    BY <2>1, <2>8, <2>15 DEF CallsServed, Serving
<1> QED
  BY <1>1, <1>2

\* A crash loses nothing of a log that is on disk, and Close nothing at all.
LEMMA StopDisk ==
  ASSUME TypeInv, LogsSynced, Crash \/ \E c \in Clients : CloseReturn(c)
  PROVE  /\ LogsSynced' /\ LogsHold' /\ CallsServed'
         /\ DOMAIN wals' = DOMAIN wals /\ \A n \in DOMAIN wals : wals'[n].recs = wals[n].recs
         /\ phase' = "down" /\ UNCHANGED <<manifest, files, issued, acked, starts>>
<1> USE DEF histVars
<1>1. /\ phase' = "down" /\ UNCHANGED <<manifest, files, issued, acked, starts>> /\ \A c \in Clients : cl'[c] = Idle
  BY DEF Crash, CloseReturn, LoseMemory
<1>2. /\ DOMAIN wals' = DOMAIN wals
      /\ \A n \in DOMAIN wals : /\ wals'[n].recs = wals[n].recs /\ wals'[n].synced = Len(wals[n].recs)
                                /\ wals'[n].torn \subseteq {Len(wals[n].recs)}
  <2>1. CASE Crash
    <3>1. DOMAIN wals' = DOMAIN wals /\ \A n \in DOMAIN wals : wals'[n] \in Leftovers(n)
      BY <2>1 DEF Crash
    <3> SUFFICES ASSUME NEW n \in DOMAIN wals
                 PROVE  /\ wals'[n].recs = wals[n].recs /\ wals'[n].synced = Len(wals[n].recs)
                        /\ wals'[n].torn \subseteq {Len(wals[n].recs)}
      BY <3>1
    <3>2. PICK k \in Nat : /\ k = Len(wals[n].recs) /\ wals[n].synced = k /\ wals[n].torn \subseteq {k}
                           /\ wals[n].recs \in Seq(issued)
      BY LogFields DEF LogsSynced
    <3>3. PICK i \in wals[n].synced..Len(wals[n].recs) :
            wals'[n] \in {[recs |-> SubSeq(wals[n].recs, 1, i), synced |-> i, torn |-> {j \in wals[n].torn : j < i} \cup t] :
                           t \in {{}} \cup (IF Tearable(n) \/ i \in wals[n].torn THEN {{i}} ELSE {})}
      BY <3>1, Zenon DEF Leftovers
    <3>4. PICK t \in {{}, {i}} :
            wals'[n] = [recs |-> SubSeq(wals[n].recs, 1, i), synced |-> i, torn |-> {j \in wals[n].torn : j < i} \cup t]
      BY <3>3
    <3>5. i = k /\ SubSeq(wals[n].recs, 1, k) = wals[n].recs
      BY <3>2
    <3>6. {j \in wals[n].torn : j < i} \cup t \subseteq {k}
      BY <3>2, <3>4, <3>5
    <3> QED
      BY <3>2, <3>4, <3>5, <3>6
  <2>2. CASE \E c \in Clients : CloseReturn(c)
    <3>1. wals' = wals \/ wals' = [wals EXCEPT ![wal].synced = Len(wals[wal].recs)]
      BY <2>2 DEF CloseReturn
    <3>2. \A n \in DOMAIN wals :
            /\ wals[n] = [recs |-> wals[n].recs, synced |-> wals[n].synced, torn |-> wals[n].torn]
            /\ wals[n].synced = Len(wals[n].recs) /\ wals[n].torn \subseteq {Len(wals[n].recs)}
      BY LogFields DEF LogsSynced
    <3> QED
      BY <3>1, <3>2
  <2> QED
    BY <2>1, <2>2
<1>3. LogsSynced'
  BY <1>1, <1>2 DEF LogsSynced, IsUp
<1> QED
  BY <1>1, <1>2, <1>3 DEF LogsHold, Serving, CallsServed

\* Every step keeps the records of the memtables in the logs.
LEMMA NextDisk ==
  ASSUME IInv, IInv', OneCall, OneCall', OrderInv, KeptInv, DiskInv, [Next]_vars
  PROVE  DiskInv'
<1>1. TypeInv /\ TypeInv' /\ starts \in Nat /\ faults \in Nat /\ starts' \in Nat /\ faults' \in Nat
  BY DEF IInv, TypeInv, Counters
<1> SUFFICES ASSUME Durable' PROVE LogsSynced' /\ LogsHold' /\ CallsServed'
  BY DEF DiskInv
<1>2. starts' <= 1 /\ starts <= 1 /\ faults = 0 /\ faults' = faults /\ Durable
  BY <1>1, StartsCounted, FaultsCounted DEF Durable, Undisturbed
<1>3. /\ FirstRun /\ NumberedInOrder /\ NoReplay' /\ TreeOrder /\ MemOrder /\ Keeps
      /\ LogsSynced /\ LogsHold /\ CallsServed
  BY <1>2 DEF IInv, FirstRun, OrderInv, KeptInv, DiskInv, Durable
<1>4. ASSUME NEW c \in Clients, ClientNext(c) PROVE LogsSynced' /\ LogsHold' /\ CallsServed'
  BY <1>1, <1>2, <1>3, <1>4, ClientDisk DEF CallsServed
<1>5. CASE FlusherNext
  <2>1. UNCHANGED <<phase, cl>>
    BY <1>5 DEF FlusherNext, FlushTake, FlushWrite, FlushInstall, FlushCleanup, ctlVars
  <2>2. CallsServed'
    BY <1>3, <2>1 DEF CallsServed, Serving
  <2> QED
    BY <1>1, <1>2, <1>3, <1>5, <2>2, FlushDisk
<1>6. CASE CompactorNext \/ SnapshotNext \/ UNCHANGED vars \/ Quiet
  <2>1. LogsSynced' /\ LogsHold' /\ UNCHANGED <<phase, cl>>
    BY <1>1, <1>3, <1>6, CompactorDisk DEF Quiet
  <2> QED
    BY <1>3, <2>1 DEF CallsServed, Serving
<1>7. CASE Crash \/ (\E c \in Clients : CloseReturn(c))
  BY <1>1, <1>3, <1>7, StopDisk
<1>8. CASE New \/ RecoverFinish
  BY <1>1, <1>2, <1>3, <1>8, OpenDisk
<1>9. CASE RecoverOpen \/ RecoverRecord \/ RecoverSend \/ RecoverLogDone
  BY <1>3, <1>9 DEF RecoverOpen, RecoverRecord, RecoverSend, RecoverLogDone, FirstRun, NoReplay
<1>10. CASE RecoverFails
  BY <1>1, <1>2, <1>10 DEF RecoverFails, Faults, Count
<1> QED
  BY <1>1, <1>2, <1>3, <1>4, <1>5, <1>6, <1>7, <1>8, <1>9, <1>10, NotTornFirst DEF Next, RecoveryNext

\* A process that was never started has no logs and has acknowledged nothing.
LEMMA InitDisk == ASSUME Init PROVE DiskInv /\ LeftInv
<1>1. phase = "down" /\ DOMAIN wals = {} /\ acked = {} /\ \A c \in Clients : cl[c] = Idle
  BY DEF Init
<1> QED
  BY <1>1 DEF DiskInv, LeftInv, LogsSynced, LogsHold, CallsServed, Serving, AckedOnDisk

\* With group commit and one record a call, the records of every memtable are in a log that
\* is fsynced and is not removed before their table is in the manifest; and the logs have
\* nothing else but what a call is about to insert.
THEOREM LogsAreKept == Spec /\ []OneCall => []DiskInv
<1>1. Init => DiskInv
  BY InitDisk
<1>2. IInv /\ IInv' /\ OneCall /\ OneCall' /\ OrderInv /\ KeptInv /\ DiskInv /\ [Next]_vars => DiskInv'
  BY NextDisk
<1>3. Spec => []IInv
  BY EngineInvariant
<1>4. Spec /\ []OneCall => []OrderInv
  BY TreeIsOrdered
<1>5. Spec /\ []OneCall => []KeptInv
  BY NothingIsDropped
<1> QED
  BY <1>1, <1>2, <1>3, <1>4, <1>5, PTL DEF Spec

\* What is on disk of a process that stops is what was there before.
LEMMA StopLeaves ==
  ASSUME TypeInv, LogsSynced, Crash \/ \E c \in Clients : CloseReturn(c)
  PROVE  OnDisk' = OnDisk
<1>1. /\ LogsSynced' /\ DOMAIN wals' = DOMAIN wals /\ (\A n \in DOMAIN wals : wals'[n].recs = wals[n].recs)
      /\ UNCHANGED <<manifest, files>>
  BY StopDisk
<1>2. \A n \in DOMAIN wals : wals[n].recs \in Seq(issued)
  BY LogFields
<1>3. \A n \in DOMAIN wals : Replayable(wals[n], wals[n].synced) = wals[n].recs
  BY <1>2, ReplayAll DEF LogsSynced
<1>4. \A n \in DOMAIN wals : Replayable(wals'[n], wals'[n].synced) = wals[n].recs
  <2> SUFFICES ASSUME NEW n \in DOMAIN wals PROVE Replayable(wals'[n], wals'[n].synced) = wals[n].recs
    OBVIOUS
  <2>1. PICK log : log = wals'[n]
    OBVIOUS
  <2>2. log.recs \in Seq(issued) /\ log.synced = Len(log.recs) /\ log.torn \subseteq {Len(log.recs)}
    BY <1>1, <1>2, <2>1 DEF LogsSynced
  <2>3. Replayable(log, log.synced) = log.recs
    BY <2>2, ReplayAll
  <2> QED
    BY <1>1, <2>1, <2>3
<1>5. {ToSet(Replayable(wals'[n], wals'[n].synced)) : n \in DOMAIN wals'}
        = {ToSet(Replayable(wals[n], wals[n].synced)) : n \in DOMAIN wals}
  BY <1>1, <1>3, <1>4
<1>6. {FileRecords(t)' : t \in ManifestTables'} = {FileRecords(t) : t \in ManifestTables}
  BY <1>1 DEF ManifestTables, FileRecords, Readable
<1> QED
  BY <1>5, <1>6 DEF OnDisk

\* A process that stops leaves what was acknowledged, and what it left stays.
LEMMA NextLeft ==
  ASSUME IInv, IInv', OneCall, OneCall', OrderInv, KeptInv, DiskInv, DiskInv', LeftInv, [Next]_vars
  PROVE  LeftInv'
<1> USE DEF ctlVars, memVars, walVars, vsVars, compVars, histVars
<1>1. TypeInv /\ TypeInv' /\ starts \in Nat /\ faults \in Nat /\ starts' \in Nat /\ faults' \in Nat
  BY DEF IInv, TypeInv, Counters
<1> SUFFICES ASSUME Durable', ~Serving' PROVE AckedOnDisk'
  BY DEF LeftInv
<1>2. starts' <= 1 /\ starts <= 1 /\ faults = 0 /\ faults' = faults /\ Durable
  BY <1>1, StartsCounted, FaultsCounted DEF Durable, Undisturbed
<1>3. /\ FirstRun /\ NumberedInOrder /\ NoReplay' /\ TreeOrder /\ MemOrder /\ Keeps
      /\ LogsSynced /\ LogsHold /\ CallsServed /\ NumberedInOrder'
  BY <1>2 DEF IInv, FirstRun, OrderInv, KeptInv, DiskInv, Durable
<1>4. ASSUME issued' = {} PROVE AckedOnDisk'
  BY <1>1, <1>4 DEF AckedOnDisk, TypeInv, History
<1>5. ASSUME AckedOnDisk, OnDisk' = OnDisk, issued' = issued, acked' = acked PROVE AckedOnDisk'
  BY <1>2, <1>5 DEF AckedOnDisk, Represented
<1>6. CASE phase \in {"down", "failed"}
  <2>1. CASE New
    <3>1. phase' = "recovering"
      BY <1>2, <2>1 DEF New, Durable
    <3> QED
      BY <1>3, <1>4, <3>1 DEF NumberedInOrder
  <2>2. CASE UNCHANGED vars
    <3>1. LeftInv => AckedOnDisk
      BY <1>2, <1>6 DEF LeftInv, Serving
    <3>2. UNCHANGED <<wals, manifest, files, issued, acked>>
      BY <2>2 DEF vars
    <3>3. OnDisk' = OnDisk
      BY <3>2 DEF OnDisk, ManifestTables, FileRecords, Readable, Replayable
    <3> QED
      BY <1>5, <3>1, <3>2, <3>3
  <2> QED
    BY <1>1, <1>2, <1>3, <1>6, <2>1, <2>2, OnlyOpened, NotTornFirst
<1>7. CASE IsUp
  <2>1. CASE Crash \/ (\E c \in Clients : CloseReturn(c))
    <3>1. UNCHANGED <<issued, acked>> /\ OnDisk' = OnDisk
      BY <1>1, <1>3, <2>1, StopDisk, StopLeaves
    <3>2. CASE Serving
      BY <1>1, <1>2, <1>3, <1>5, <3>1, <3>2, InsertedOnDisk
    <3>3. CASE ~Serving
      <4>1. phase = "recovering"
        BY <1>1, <1>7, <3>3 DEF IsUp, Serving, TypeInv, Counters
      <4> QED
        BY <1>3, <1>4, <3>1, <4>1 DEF NumberedInOrder
    <3> QED
      BY <3>2, <3>3
  <2>2. ASSUME NEW c \in Clients, ClientNext(c) PROVE FALSE
    BY <1>1, <1>2, <1>3, <2>2, ClientDisk
  <2>3. CASE FlusherNext \/ CompactorNext \/ SnapshotNext \/ UNCHANGED vars \/ Quiet
    <3>1. UNCHANGED <<phase, issued>>
      <4>1. CASE FlusherNext
        BY <4>1 DEF FlusherNext, FlushTake, FlushWrite, FlushInstall, FlushCleanup
      <4> QED
        BY <1>1, <1>3, <2>3, <4>1, CompactorDisk DEF Quiet
    <3>2. phase = "recovering"
      BY <1>1, <1>7, <3>1 DEF IsUp, Serving, TypeInv, Counters
    <3> QED
      BY <1>3, <1>4, <3>1, <3>2 DEF NumberedInOrder
  <2>4. CASE New \/ RecoverFinish
    BY <1>7, <2>4 DEF New, RecoverFinish, IsUp, Serving
  <2>5. CASE RecoverOpen \/ RecoverRecord \/ RecoverSend \/ RecoverLogDone
    BY <1>3, <2>5 DEF RecoverOpen, RecoverRecord, RecoverSend, RecoverLogDone, FirstRun, NoReplay
  <2>6. CASE RecoverFails
    BY <1>1, <1>2, <2>6 DEF RecoverFails, Faults, Count
  <2> QED
    BY <1>1, <1>2, <1>3, <2>1, <2>2, <2>3, <2>4, <2>5, <2>6, NotTornFirst DEF Next, RecoveryNext
<1> QED
  BY <1>6, <1>7 DEF IsUp

\* With group commit, a Put or Delete that has returned is on disk, or what replaced it: a
\* crash at any moment leaves it in a log or in a table of the manifest; and what a process
\* has left stays there.
THEOREM AckedIsOnDisk == Spec /\ []OneCall => [](Durable => AckedOnDisk)
<1>1. Init => LeftInv
  BY InitDisk
<1>2. IInv /\ IInv' /\ OneCall /\ OneCall' /\ OrderInv /\ KeptInv /\ DiskInv /\ DiskInv' /\ LeftInv /\ [Next]_vars
        => LeftInv'
  BY NextLeft
<1>3. ASSUME IInv, OrderInv, KeptInv, DiskInv, LeftInv PROVE Durable => AckedOnDisk
  <2> SUFFICES ASSUME Durable, Serving PROVE AckedOnDisk
    BY <1>3 DEF LeftInv
  <2>1. TypeInv /\ FirstRun /\ NumberedInOrder /\ MemOrder /\ Keeps /\ LogsSynced /\ LogsHold
    BY <1>3 DEF IInv, OrderInv, KeptInv, DiskInv, Durable, Undisturbed
  <2> QED
    BY <2>1, InsertedOnDisk
<1>4. Spec => []IInv
  BY EngineInvariant
<1>5. Spec /\ []OneCall => []OrderInv
  BY TreeIsOrdered
<1>6. Spec /\ []OneCall => []KeptInv
  BY NothingIsDropped
<1>7. Spec /\ []OneCall => []DiskInv
  BY LogsAreKept
<1> QED
  BY <1>1, <1>2, <1>3, <1>4, <1>5, <1>6, <1>7, PTL DEF Spec

----------------------------------------------------------------------------
\* The process has not stopped, and no file operation has failed.
Running == Undisturbed /\ (starts = 0 \/ IsUp)

\* The parts of the abstract tree: the frozen memtables and the levels.
TreeImm == {t.mt : t \in FrozenTasks}
TreeLev == [l \in Levels |-> {FileRecords(t) : t \in TablesAt(l)}]

\* The levels of the tree, where a step leaves the version and its files alone.
LEMMA LevelsStay ==
  ASSUME TypeInv, FirstRun, levels' = levels, KeepsFiles({PathOf(t) : t \in Listed})
  PROVE  TreeLev' = TreeLev
<1>1. \A t \in LiveTables : FileRecords(t)' = FileRecords(t)
  <2> SUFFICES ASSUME NEW t \in LiveTables PROVE FileRecords(t)' = FileRecords(t)
    OBVIOUS
  <2>1. Whole(t) /\ PathOf(t) \in {PathOf(s) : s \in Listed}
    BY DEF FirstRun, WholeTables, Listed
  <2> QED
    BY <2>1, SameRecords
<1>2. \A l \in Levels : TablesAt(l)' = TablesAt(l) /\ TablesAt(l) \subseteq LiveTables
  BY DEF TablesAt, LiveTables
<1>3. \A l \in Levels : {FileRecords(t)' : t \in TablesAt(l)'} = {FileRecords(t) : t \in TablesAt(l)}
  BY <1>1, <1>2
<1> QED
  BY <1>3, Zenon DEF TreeLev

\* A step that is none of the tree's.
LEMMA TreeStays ==
  ASSUME TypeInv, FirstRun, mt' = mt, FrozenTasks' = FrozenTasks, Inserted' = Inserted, levels' = levels,
         KeepsFiles({PathOf(t) : t \in Listed})
  PROVE  UNCHANGED Tree!vars
<1>1. TreeLev' = TreeLev
  BY LevelsStay
<1> QED
  BY <1>1 DEF Tree!vars, TreeLev

\* A write of the tree: a record reaches the memtable.
LEMMA ApplyTree ==
  ASSUME TypeInv, TypeInv', FirstRun, NoReplay', TreeOrder, MemOrder, Keeps, faults' = faults,
         NEW c \in Clients, \A d \in Clients : d # c => cl[d] = Idle, Apply(c)
  PROVE  Tree!Next
<1>1. PICK r, x, m :
        /\ cl[c].pc = "apply" /\ Become(c, r) /\ x \in Waiting(cl[c]) /\ m = mt \cup {x}
        /\ UNCHANGED <<flushQ, fl, job, rv, issued, starts, phase, levels>>
        /\ KeepsFiles({PathOf(t) : t \in Listed}) /\ (job.pc = "install" => KeepsFiles(Paths(job.outs)))
        /\ Waiting(r) = Waiting(cl[c]) \ {x}
        /\ Grows(cl[c], r, m) \/ Freezes(cl[c], r, m)
  BY Insertion
<1>2. TableRecords' = TableRecords
  BY <1>1, OrderFrame
<1>3. /\ \A d \in Clients : cl'[d] = IF d = c THEN r ELSE Idle
      /\ Inserted = issued \ Waiting(cl[c]) /\ Inserted' = issued' \ Waiting(r)
  BY <1>1, AloneInserted
<1>4. Waiting(cl[c]) \subseteq issued
  <2>1. cl[c].recs \in Seq(issued) /\ cl[c].i \in 1..Len(cl[c].recs)
    BY <1>1 DEF TypeInv, CallTypes, Calls, CallShape
  <2> QED
    BY <1>1, <2>1 DEF Waiting
<1>5. x \in Records /\ Inserted' = Inserted \cup {x} /\ \A q \in Inserted : q.seq < x.seq
  BY <1>1, <1>3, <1>4 DEF TypeInv, History, MemOrder, WaitingNewest
<1>6. r.pc # "append"
  BY <1>1, InsertedCall DEF Idle
<1>7. \/ mt' = mt \cup {x} /\ TreeImm' = TreeImm
      \/ mt' = {} /\ TreeImm' = TreeImm \cup {mt \cup {x}}
  <2>1. CASE Grows(cl[c], r, m)
    <3>1. ASSUME NEW s PROVE Frozen(s)' <=> Frozen(s)
      <4>1. (\E d \in Clients : \E i \in Pending(cl'[d]) : s = cl'[d].tasks[i]) <=> \E i \in Pending(r) : s = r.tasks[i]
        BY <1>3, IdleCall
      <4>2. (\E d \in Clients : \E i \in Pending(cl[d]) : s = cl[d].tasks[i])
              <=> \E i \in Pending(cl[c]) : s = cl[c].tasks[i]
        BY IdleCall
      <4>3. (\E i \in Pending(r) : s = r.tasks[i]) <=> \E i \in Pending(cl[c]) : s = cl[c].tasks[i]
        BY <2>1 DEF Grows
      <4> QED
        BY <1>1, <4>1, <4>2, <4>3 DEF Frozen, Busy
    <3>2. FrozenTasks' = FrozenTasks
      BY <3>1, FrozenParts DEF FirstRun
    <3> QED
      BY <1>1, <2>1, <3>2 DEF Grows, TreeImm
  <2>2. CASE Freezes(cl[c], r, m)
    <3>1. FrozenTasks' = FrozenTasks \cup {RotateTask(m)}
      BY <1>1, <1>2, <1>6, <2>2, FreezeLog DEF FirstRun
    <3>2. PICK t : t = RotateTask(m)
      OBVIOUS
    <3>3. t.mt = mt \cup {x} /\ mt' = {}
      BY <1>1, <2>2, <3>2 DEF Freezes, RotateTask, Task
    <3>4. TreeImm' = TreeImm \cup {mt \cup {x}}
      BY <3>1, <3>2, <3>3 DEF TreeImm
    <3> QED
      BY <3>3, <3>4
  <2> QED
    BY <1>1, <2>1, <2>2
<1>8. TreeLev' = TreeLev
  BY <1>1, LevelsStay
<1>9. Tree!Insert(x)
  BY <1>5, <1>7, <1>8 DEF Tree!Insert, TreeImm, TreeLev
<1> QED
  BY <1>5, <1>9 DEF Tree!Next

\* Sync and Close freeze what the memtable holds.
LEMMA RotateForSyncTree ==
  ASSUME TypeInv, TypeInv', FirstRun, NoReplay', TreeOrder, MemOrder, Keeps, faults' = faults,
         NEW c \in Clients, \A d \in Clients : d # c => cl[d] = Idle, RotateForSync(c)
  PROVE  Tree!Next \/ UNCHANGED Tree!vars
<1>1. PICK r :
        /\ cl[c].pc = "rotate" /\ Become(c, r) /\ ~Writing(r) /\ Pending(cl[c]) = {}
        /\ UNCHANGED <<flushQ, fl, job, levels>>
        /\ KeepsFiles({PathOf(t) : t \in Listed}) /\ (job.pc = "install" => KeepsFiles(Paths(job.outs)))
        /\ \/ mt' = mt /\ Pending(r) = {}
           \/ mt # {} /\ Freezes(cl[c], r, mt)
  BY Rotation
<1>2. TableRecords' = TableRecords
  BY <1>1, OrderFrame
<1>3. Inserted' = Inserted /\ r.pc # "append"
  BY <1>1, RotateForSyncKeeps DEF Writing
<1>4. CASE mt' = mt /\ Pending(r) = {}
  <2>1. FrozenTasks' = FrozenTasks
    BY <1>1, <1>4, SameFrozen DEF FirstRun
  <2> QED
    BY <1>1, <1>3, <1>4, <2>1, TreeStays
<1>5. CASE mt # {} /\ Freezes(cl[c], r, mt)
  <2>1. FrozenTasks' = FrozenTasks \cup {RotateTask(mt)}
    BY <1>1, <1>2, <1>3, <1>5, FreezeLog DEF FirstRun
  <2>2. PICK t : t = RotateTask(mt)
    OBVIOUS
  <2>3. t.mt = mt /\ mt' = {}
    BY <1>5, <2>2 DEF Freezes, RotateTask, Task
  <2>4. TreeImm' = TreeImm \cup {mt}
    BY <2>1, <2>2, <2>3 DEF TreeImm
  <2>5. TreeLev' = TreeLev
    BY <1>1, LevelsStay
  <2>6. Tree!Freeze
    BY <1>3, <1>5, <2>3, <2>4, <2>5 DEF Tree!Freeze, TreeImm, TreeLev
  <2> QED
    BY <2>6 DEF Tree!Next
<1> QED
  BY <1>1, <1>4, <1>5

\* A flush that is installed: its memtable, and no other, becomes a table.
LEMMA FlushTree ==
  ASSUME TypeInv, TypeInv', FirstRun, NoReplay', TreeOrder, MemOrder, Keeps, faults' = faults, FlushInstall
  PROVE  Tree!Next
<1>1. /\ fl.pc = "install" /\ fl.task \in Tasks(issued) /\ UNCHANGED <<files, flushQ, cl, mt, issued>>
      /\ \E t : /\ FileRecords(t) = fl.task.mt /\ TablesAt(0)' = TablesAt(0) \cup {t}
                /\ \A l \in Levels \ {0} : TablesAt(l)' = TablesAt(l)
  BY FlushInstalled
<1>2. PICK t : /\ FileRecords(t) = fl.task.mt /\ TablesAt(0)' = TablesAt(0) \cup {t}
               /\ \A l \in Levels \ {0} : TablesAt(l)' = TablesAt(l)
  BY <1>1
<1>3. PICK m : m = fl.task.mt
  OBVIOUS
<1>4. fl.task \in FrozenTasks /\ FrozenTasks' = FrozenTasks \ {fl.task}
  BY FlushInstallOrder
<1>5. \A s \in FrozenTasks' : s.mt # m
  <2> SUFFICES ASSUME NEW s \in FrozenTasks', s.mt = m PROVE FALSE
    OBVIOUS
  <2>1. Busy /\ NoReplay
    BY <1>1 DEF Busy, FirstRun
  <2>2. s \in FrozenTasks /\ s # fl.task /\ Frozen(s)
    BY <1>4, <2>1, FrozenParts
  <2>3. Later(s.mt, fl.task.mt)
    BY <2>1, <2>2, FlushedFirst DEF Frozen
  <2>4. PICK x \in fl.task.mt : x.seq \in Nat
    BY <1>1, RecordFields DEF Tasks
  <2> QED
    BY <1>3, <2>3, <2>4 DEF Later
<1>6. m \in TreeImm /\ TreeImm' = TreeImm \ {m}
  BY <1>3, <1>4, <1>5 DEF TreeImm
<1>7. \A s : FileRecords(s)' = FileRecords(s)
  BY <1>1 DEF FileRecords, Readable
<1>8. TreeLev' = [TreeLev EXCEPT ![0] = @ \cup {m}]
  <2>1. 0 \in Levels
    BY ConstantTypes DEF Levels
  <2>2. {FileRecords(s)' : s \in TablesAt(0)'} = {FileRecords(s) : s \in TablesAt(0)} \cup {m}
    BY <1>2, <1>3, <1>7
  <2>3. \A l \in Levels \ {0} : {FileRecords(s)' : s \in TablesAt(l)'} = {FileRecords(s) : s \in TablesAt(l)}
    BY <1>2, <1>7
  <2>4. \A l \in Levels : TreeLev'[l] = IF l = 0 THEN TreeLev[0] \cup {m} ELSE TreeLev[l]
    BY <2>1, <2>2, <2>3 DEF TreeLev
  <2>5. DOMAIN TreeLev' = Levels /\ DOMAIN TreeLev = Levels /\ TreeLev' = [l \in Levels |-> TreeLev'[l]]
    BY DEF TreeLev
  <2> QED
    BY <2>1, <2>4, <2>5
<1>9. Inserted' = Inserted
  BY <1>1 DEF Inserted
<1>10. Tree!Flush(m)
  BY <1>1, <1>6, <1>8, <1>9 DEF Tree!Flush, TreeImm, TreeLev
<1> QED
  BY <1>6, <1>10 DEF Tree!Next, TreeImm

\* Two tables of a level hold different records.
LEMMA TablesDiffer ==
  ASSUME TypeInv, FirstRun, TreeOrder, NEW l \in Levels, NEW s \in TablesAt(l), NEW t \in TablesAt(l),
         FileRecords(s) = FileRecords(t)
  PROVE  s = t
<1>1. Whole(s) /\ Whole(t)
  BY DEF FirstRun, WholeTables, Listed, LiveTables
<1>2. PICK r \in FileRecords(s) : r.seq \in Nat /\ r.key \in Int
  BY <1>1, WholeBounds, FilesIssued, RecordFields
<1>3. CASE l = 0
  BY <1>2, <1>3 DEF TreeOrder, TopApart, Later
<1>4. CASE l # 0
  BY <1>1, <1>2, <1>4, NoCommonKey DEF TreeOrder, DeepApart
<1> QED
  BY <1>3, <1>4

\* A table meets the inputs of a compaction by the key ranges in its description exactly
\* when it does by its records.
LEMMA MeetingRecords ==
  ASSUME TypeInv, NEW t, Whole(t), NEW s \in Seq(Tables), s # <<>>, \A u \in ToSet(s) : Whole(u),
         NEW R, R = UNION {FileRecords(u) : u \in ToSet(s)}
  PROVE  Meets(t, s) <=> ~Tree!Disjoint(FileRecords(t), R)
<1>1. \A u \in ToSet(s) : u.min.key \in Int /\ u.max.key \in Int
  BY WholeBounds
<1>2. PICK a, b : a = KeyRangeOf(s)[1] /\ b = KeyRangeOf(s)[2]
  OBVIOUS
<1>3. /\ a \in Int /\ b \in Int
      /\ \A u \in ToSet(s) : a <= u.min.key /\ u.max.key <= b
      /\ \E u \in ToSet(s) : u.min.key = a
      /\ \E u \in ToSet(s) : u.max.key = b
  BY <1>1, <1>2, InputRange
<1>4. /\ t.min.key \in Int /\ t.max.key \in Int
      /\ \A r \in FileRecords(t) : t.min.key <= r.key /\ r.key <= t.max.key
      /\ \E r \in FileRecords(t) : r.key = t.min.key
      /\ \E r \in FileRecords(t) : r.key = t.max.key
  BY WholeBounds
<1>5. \A q \in R : a <= q.key /\ q.key <= b
  <2> SUFFICES ASSUME NEW q \in R PROVE a <= q.key /\ q.key <= b
    OBVIOUS
  <2>1. PICK u \in ToSet(s) : q \in FileRecords(u)
    OBVIOUS
  <2>2. /\ u.min.key <= q.key /\ q.key <= u.max.key /\ u.min.key \in Int /\ u.max.key \in Int /\ q.key \in Int
        /\ a <= u.min.key /\ u.max.key <= b
    BY <1>3, <2>1, WholeBounds, FilesIssued, RecordFields
  <2> QED
    BY <1>3, <2>2
<1>6. (\E q \in R : q.key = a) /\ \E q \in R : q.key = b
  <2>1. PICK u \in ToSet(s) : u.min.key = a
    BY <1>3
  <2>2. PICK w \in ToSet(s) : w.max.key = b
    BY <1>3
  <2>3. (\E q \in FileRecords(u) : q.key = a) /\ \E q \in FileRecords(w) : q.key = b
    BY <2>1, <2>2, WholeBounds
  <2> QED
    BY <2>3
<1>7. (\A q \in R : q.key \in Int) /\ \A q \in FileRecords(t) : q.key \in Int
  <2>1. R \subseteq issued /\ FileRecords(t) \subseteq issued
    BY FilesIssued
  <2> QED
    BY <2>1, RecordFields
<1>8. t.max.key < a <=> Tree!Before(FileRecords(t), R)
  BY <1>3, <1>4, <1>5, <1>6, <1>7 DEF Tree!Before
<1>9. t.min.key > b <=> Tree!Before(R, FileRecords(t))
  <2>1. ASSUME t.min.key > b, NEW q \in R, NEW r \in FileRecords(t) PROVE q.key < r.key
    <3>1. q.key <= b /\ t.min.key <= r.key /\ q.key \in Int /\ r.key \in Int
      BY <1>4, <1>5, <1>7
    <3> QED
      BY <1>3, <1>4, <2>1, <3>1
  <2>2. ASSUME \A q \in R, r \in FileRecords(t) : q.key < r.key PROVE t.min.key > b
    <3>1. PICK q \in R : q.key = b
      BY <1>6
    <3>2. PICK r \in FileRecords(t) : r.key = t.min.key
      BY <1>4
    <3>3. b < t.min.key
      BY <2>2, <3>1, <3>2
    <3> QED
      BY <1>3, <1>4, <3>3
  <2> QED
    BY <2>1, <2>2 DEF Tree!Before
<1> QED
  BY <1>2, <1>8, <1>9 DEF Meets, Tree!Disjoint

\* A table is listed on one level.
LEMMA OwnLevel ==
  ASSUME TypeInv, NEW l \in Levels, NEW m \in Levels, NEW t \in TablesAt(l), t \in TablesAt(m)
  PROVE  l = m
BY ListedTables DEF TypeInv, TablesAt

\* A compaction that is installed: one of the tree, or nothing if it had no inputs.
LEMMA CompactTree ==
  ASSUME TypeInv, TypeInv', FirstRun, NoReplay', TreeOrder, MemOrder, faults' = faults, CompactInstall
  PROVE  Tree!Next \/ UNCHANGED Tree!vars
<1>1. /\ job.pc = "install" /\ UNCHANGED <<files, cl, mt, issued>>
      /\ \A l \in Levels : \A t :
           t \in TablesAt(l)' <=> \/ t \in TablesAt(l) /\ t \notin ToSet(job.all)
                                  \/ t \in ToSet(job.outs) /\ l = job.level + 1
  BY CompactInstalled
<1>2. FrozenTasks' = FrozenTasks /\ Inserted' = Inserted /\ \A t : FileRecords(t)' = FileRecords(t)
  BY <1>1, CompactInstallOrder DEF Inserted, FileRecords, Readable
<1>3. PICK l, all, ins, os :
        l = job.level /\ all = ToSet(job.all) /\ ins = ToSet(job.inputs) /\ os = ToSet(job.outs)
  OBVIOUS
<1>4. /\ l \in 0..(Bottom - 1) /\ l \in Levels /\ l + 1 \in Levels \ {0} /\ l # l + 1
      /\ Bottom \in Nat
  BY <1>3, ConstantTypes DEF TypeInv, Jobs, Levels
<1>5. /\ ins \subseteq TablesAt(l) /\ ins \subseteq all
      /\ \A t \in all : Whole(t)
      /\ \A t \in all : t \in ins \/ (t \in TablesAt(l + 1) /\ Meets(t, job.inputs) /\ job.inputs # <<>>)
      /\ job.inputs = <<>> => all = {}
      /\ job.inputs # <<>> => \A t \in TablesAt(l + 1) : Meets(t, job.inputs) => t \in all
      /\ \A o \in os : Whole(o) /\ \A r \in FileRecords(o) : \E t \in all : r \in FileRecords(t)
  BY <1>1, <1>3, ReplacedTables
<1>6. \A m \in Levels : \A t :
        t \in TablesAt(m)' <=> (t \in TablesAt(m) /\ t \notin all) \/ (t \in os /\ m = l + 1)
  BY <1>1, <1>3
<1>7. CASE job.inputs = <<>>
  <2>1. os = {} /\ all = {}
    BY <1>5, <1>7, WholeBounds
  <2>2. \A m \in Levels : TablesAt(m)' = TablesAt(m)
    BY <1>6, <2>1
  <2>3. TreeLev' = TreeLev
    BY <1>2, <2>2 DEF TreeLev
  <2> QED
    BY <1>1, <1>2, <2>3 DEF Tree!vars, TreeLev
<1>8. CASE job.inputs # <<>>
  <2>1. PICK I, O, outs :
          /\ I = {FileRecords(t) : t \in ins}
          /\ O = {FileRecords(t) : t \in {u \in TablesAt(l + 1) : Meets(u, job.inputs)}}
          /\ outs = {FileRecords(t) : t \in os}
    OBVIOUS
  <2>2. \A m \in Levels : TreeLev[m] = {FileRecords(t) : t \in TablesAt(m)}
    BY DEF TreeLev
  <2>3. I # {} /\ I \subseteq TreeLev[l]
    <3>1. \E t : t \in ins
      BY <1>3, <1>8, ReplacedTables, InToSet, <1>1
    <3> QED
      BY <1>4, <1>5, <2>1, <2>2, <3>1
  <2>4. Tree!Overlapping(l + 1, I) = O
    <3>1. PICK R : R = UNION {FileRecords(u) : u \in ToSet(job.inputs)}
      OBVIOUS
    <3>2. R = UNION I
      BY <1>3, <2>1, <3>1
    <3>3. \A t \in TablesAt(l + 1) : Meets(t, job.inputs) <=> ~Tree!Disjoint(FileRecords(t), R)
      <4> SUFFICES ASSUME NEW t \in TablesAt(l + 1)
                   PROVE  Meets(t, job.inputs) <=> ~Tree!Disjoint(FileRecords(t), R)
        OBVIOUS
      <4>1. Whole(t)
        BY <1>4 DEF FirstRun, WholeTables, Listed, LiveTables
      <4>2. PICK s : s = job.inputs
        OBVIOUS
      <4>3. s \in Seq(Tables) /\ s # <<>> /\ \A u \in ToSet(s) : Whole(u)
        BY <1>1, <1>8, <4>2, ReplacedTables
      <4>4. Meets(t, s) <=> ~Tree!Disjoint(FileRecords(t), R)
        BY <3>1, <4>1, <4>2, <4>3, MeetingRecords
      <4> QED
        BY <4>2, <4>4
    <3>4. Tree!Overlapping(l + 1, I) = {T \in {FileRecords(t) : t \in TablesAt(l + 1)} : ~Tree!Disjoint(T, R)}
      BY <1>4, <3>2 DEF Tree!Overlapping
    <3> QED
      BY <2>1, <3>3, <3>4
  <2>5. all = ins \cup {u \in TablesAt(l + 1) : Meets(u, job.inputs)}
    BY <1>5, <1>8
  <2>6. PICK R : R = Replaced
    OBVIOUS
  <2>7. (UNION I) \cup (UNION O) = R
    BY <1>3, <2>1, <2>5, <2>6, Zenon DEF Replaced
  <2>8. PICK K : K = OutRecords
    OBVIOUS
  <2>9. UNION outs = K /\ outs \subseteq (SUBSET K) \ {{}}
    <3>1. UNION outs = K
      BY <1>3, <2>1, <2>8 DEF OutRecords
    <3>2. \A o \in os : FileRecords(o) # {}
      BY <1>5, WholeBounds
    <3> QED
      BY <2>1, <3>1, <3>2
  <2>10. \A s, t \in outs : s # t => Tree!Disjoint(s, t)
    <3> SUFFICES ASSUME NEW o \in os, NEW u \in os, o # u PROVE Tree!Disjoint(FileRecords(o), FileRecords(u))
      BY <2>1
    <3>1. Beside(o, u)
      BY <1>1, <1>3 DEF TreeOrder, OutsMerged
    <3>2. /\ o.min.key \in Int /\ o.max.key \in Int /\ u.min.key \in Int /\ u.max.key \in Int
          /\ \A r \in FileRecords(o) : o.min.key <= r.key /\ r.key <= o.max.key /\ r.key \in Int
          /\ \A r \in FileRecords(u) : u.min.key <= r.key /\ r.key <= u.max.key /\ r.key \in Int
      BY <1>5, WholeBounds, FilesIssued, RecordFields
    <3> QED
      BY <3>1, <3>2 DEF Beside, Tree!Disjoint, Tree!Before
  <2>11. \A r \in Heads(R) \ K : Tree!CanDrop(r, Tree!Rest(l, I))
    <3> SUFFICES ASSUME NEW r \in Heads(R) \ K PROVE Tree!CanDrop(r, Tree!Rest(l, I))
      OBVIOUS
    <3>1. r.del /\ l + 1 = Bottom /\ r \in R
      BY <1>1, <1>3, <2>6, <2>8 DEF TreeOrder, OutsMerged, Heads
    <3>2. ASSUME NEW q \in Tree!Rest(l, I)
          PROVE  \/ q \in mt \/ (\E t \in FrozenTasks : q \in t.mt)
                 \/ \E m \in Levels : \E s \in TablesAt(m) : s \notin all /\ q \in FileRecords(s)
      <4>1. CASE q \in mt \cup (UNION TreeImm)
        BY <4>1 DEF TreeImm
      <4>2. CASE q \notin mt \cup (UNION TreeImm)
        <5>1. q \in UNION UNION {TreeLev[m] \ (IF m = l THEN I ELSE IF m = l + 1 THEN O ELSE {}) : m \in Levels}
          BY <2>4, <3>2, <4>2, Zenon DEF Tree!Rest, Tree!Levels, Levels, TreeImm, TreeLev
        <5>2. PICK m \in Levels : q \in UNION (TreeLev[m] \ (IF m = l THEN I ELSE IF m = l + 1 THEN O ELSE {}))
          BY <5>1
        <5>3. PICK T \in TreeLev[m] : q \in T /\ T \notin (IF m = l THEN I ELSE IF m = l + 1 THEN O ELSE {})
          BY <5>2
        <5>4. PICK s \in TablesAt(m) : T = FileRecords(s)
          BY <2>2, <5>3
        <5>5. s \notin all
          <6>1. s \in ins => m = l
            BY <1>4, <1>5, <5>4, OwnLevel
          <6>2. s \in TablesAt(l + 1) => m = l + 1
            BY <1>4, <5>4, OwnLevel
          <6> QED
            BY <1>4, <2>1, <2>5, <5>3, <5>4, <6>1, <6>2
        <5> QED
          BY <5>3, <5>4, <5>5
      <4> QED
        BY <4>1, <4>2
    <3>3. ASSUME NEW q \in Tree!Rest(l, I), q.key = r.key PROVE r.seq < q.seq
      BY <1>1, <1>3, <2>6, <3>1, <3>2, <3>3, NewerThanReplaced
    <3> QED
      BY <3>1, <3>3 DEF Tree!CanDrop
  <2>12. TreeLev' = [TreeLev EXCEPT ![l] = @ \ I, ![l + 1] = (@ \ O) \cup outs]
    <3>1. \A m \in Levels : TreeLev'[m] = {FileRecords(t) : t \in TablesAt(m)'}
      BY <1>2 DEF TreeLev
    <3>2. ASSUME NEW m \in Levels, NEW s \in TablesAt(m), NEW t \in TablesAt(m), FileRecords(s) = FileRecords(t)
          PROVE  s = t
      BY <3>2, TablesDiffer
    <3>3. TreeLev'[l] = TreeLev[l] \ I
      <4>1. \A t : t \in TablesAt(l)' <=> t \in TablesAt(l) /\ t \notin ins
        <5>1. \A t \in TablesAt(l) : t \notin TablesAt(l + 1)
          BY <1>4, OwnLevel
        <5> QED
          BY <1>4, <1>6, <2>5, <5>1
      <4>2. \A t \in TablesAt(l) : t \notin ins => FileRecords(t) \notin I
        BY <1>4, <1>5, <2>1, <3>2
      <4> QED
        BY <1>4, <2>1, <2>2, <3>1, <4>1, <4>2
    <3>4. TreeLev'[l + 1] = (TreeLev[l + 1] \ O) \cup outs
      <4>1. \A t : t \in TablesAt(l + 1)' <=>
                     (t \in TablesAt(l + 1) /\ ~Meets(t, job.inputs)) \/ t \in os
        <5>1. \A t \in TablesAt(l + 1) : t \notin ins
          BY <1>4, <1>5, OwnLevel
        <5> QED
          BY <1>4, <1>6, <2>5, <5>1
      <4>2. \A t \in TablesAt(l + 1) : ~Meets(t, job.inputs) => FileRecords(t) \notin O
        BY <1>4, <2>1, <3>2
      <4> QED
        BY <1>4, <2>1, <2>2, <3>1, <4>1, <4>2
    <3>5. \A m \in Levels \ {l, l + 1} : TreeLev'[m] = TreeLev[m]
      <4>1. \A m \in Levels \ {l, l + 1} : \A t \in TablesAt(m) : t \notin all
        BY <1>4, <1>5, OwnLevel
      <4>2. \A m \in Levels \ {l, l + 1} : TablesAt(m)' = TablesAt(m)
        BY <1>6, <4>1
      <4> QED
        BY <2>2, <3>1, <4>2
    <3>6. /\ DOMAIN TreeLev' = Levels /\ DOMAIN TreeLev = Levels
          /\ TreeLev' = [m \in Levels |-> TreeLev'[m]]
      BY DEF TreeLev
    <3>7. \A m \in Levels : TreeLev'[m] = IF m = l + 1 THEN (TreeLev[m] \ O) \cup outs
                                          ELSE IF m = l THEN TreeLev[m] \ I ELSE TreeLev[m]
      BY <1>4, <3>3, <3>4, <3>5
    <3> QED
      BY <1>4, <3>6, <3>7
  <2>13. Tree!Heads(R) = Heads(R) /\ K \subseteq Heads(R)
    BY <1>1, <2>6, <2>8 DEF Tree!Heads, Heads, TreeOrder, OutsMerged
  <2>14. \E kept \in SUBSET Tree!Heads(R) : \E new \in SUBSET ((SUBSET kept) \ {{}}) :
           /\ \A r \in Tree!Heads(R) \ kept : Tree!CanDrop(r, Tree!Rest(l, I))
           /\ UNION new = kept
           /\ \A s, t \in new : s # t => Tree!Disjoint(s, t)
           /\ TreeLev' = [TreeLev EXCEPT ![l] = @ \ I, ![l + 1] = (@ \ O) \cup new]
    <3>1. K \in SUBSET Tree!Heads(R) /\ outs \in SUBSET ((SUBSET K) \ {{}})
      BY <2>9, <2>13
    <3> QED
      BY <2>9, <2>10, <2>11, <2>12, <2>13, <3>1
  <2>15. Tree!Compact(l, I)
    BY <1>1, <1>2, <2>3, <2>4, <2>7, <2>14 DEF Tree!Compact, TreeLev
  <2> QED
    BY <1>4, <2>3, <2>15 DEF Tree!Next, TreeLev
<1> QED
  BY <1>7, <1>8

\* The calls of one client: a write is one of the tree when its record is inserted.
LEMMA ClientTree ==
  ASSUME TypeInv, TypeInv', FirstRun, NoReplay', NumberedInOrder, TreeOrder, MemOrder, Keeps, OneCall, OneCall',
         faults' = faults, NEW c \in Clients, ClientNext(c)
  PROVE  Tree!Next \/ UNCHANGED Tree!vars
<1> USE DEF ctlVars, memVars, walVars, vsVars, compVars, histVars
<1>1. CASE Put(c) \/ Delete(c) \/ WriteBatch(c)
  <2>1. PICK n \in Nat \ {0} : \E ks \in [1..n -> Keys], ds \in [1..n -> BOOLEAN] : Starts(c, ks, ds)
    BY <1>1, WriteStarts
  <2>2. \E op \in {"write", "batch"}, pc \in {"stall", "log", "apply"} : \E recs : Start(c, op, pc, recs)
    BY <2>1 DEF Starts
  <2> PICK op \in {"write", "batch"}, pc \in {"stall", "log", "apply"} : \E recs : Start(c, op, pc, recs)
    BY <2>2
  <2> PICK recs : Start(c, op, pc, recs)
    OBVIOUS
  <2>3. PICK r : r = [Idle EXCEPT !.op = op, !.pc = pc, !.recs = recs]
    OBVIOUS
  <2>4. r.pc = pc /\ Idle.pc = "idle" /\ Become(c, r) /\ UNCHANGED <<mt, levels, files>>
    BY <2>3 DEF Idle, Start
  <2>5. \A d \in Clients : d # c => cl[d] = Idle
    BY <2>4, OthersIdle
  <2>6. FrozenTasks' = FrozenTasks /\ Inserted' = Inserted
    BY <1>1, <2>5, StartOrder
  <2> QED
    BY <2>4, <2>6, TreeStays DEF KeepsFiles
<1>2. CASE Apply(c) \/ RotateForSync(c)
  <2>1. cl[c].pc # "idle" /\ Idle.pc = "idle"
    BY <1>2 DEF Apply, RotateForSync, Idle
  <2>2. \A d \in Clients : d # c => cl[d] = Idle
    BY <2>1 DEF OneCall
  <2> QED
    BY <1>2, <2>2, ApplyTree, RotateForSyncTree
<1>3. CASE Send(c) \/ Stall(c) \/ ReadWal(c) \/ AppendWal(c) \/ SyncReturn(c)
  <2>1. cl[c].pc # "idle" /\ Idle.pc = "idle" /\ UNCHANGED <<mt, levels, files>>
    BY <1>3 DEF Send, Stall, ReadWal, AppendWal, SyncReturn, Idle
  <2>2. \A d \in Clients : d # c => cl[d] = Idle
    BY <2>1 DEF OneCall
  <2>3. FrozenTasks' = FrozenTasks /\ Inserted' = Inserted
    BY <1>3, <2>2, SendOrder, LogKeeps, SyncKeeps
  <2> QED
    BY <2>1, <2>3, TreeStays DEF KeepsFiles
<1>4. CASE Sync(c) \/ Close(c)
  <2>1. \E o \in {"sync", "close"} : Become(c, [Idle EXCEPT !.op = o, !.pc = "rotate"])
    <3>1. CASE Sync(c)
      <4>1. PICK fault \in Faults(IF CrashRecovery THEN {"fsync"} ELSE {}) :
              Count(fault) /\ Become(c, IF fault = "none" THEN [Idle EXCEPT !.op = "sync", !.pc = "rotate"] ELSE Idle)
        BY <3>1 DEF Sync
      <4>2. fault = "none"
        BY <4>1 DEF Count, TypeInv, Counters
      <4> QED
        BY <4>1, <4>2
    <3>2. CASE Close(c)
      BY <3>2 DEF Close
    <3> QED
      BY <1>4, <3>1, <3>2
  <2>2. PICK o \in {"sync", "close"} : Become(c, [Idle EXCEPT !.op = o, !.pc = "rotate"])
    BY <2>1
  <2>3. PICK r : r = [Idle EXCEPT !.op = o, !.pc = "rotate"]
    OBVIOUS
  <2>4. r.pc = "rotate" /\ Idle.pc = "idle" /\ Become(c, r)
    BY <2>2, <2>3 DEF Idle
  <2>5. \A d \in Clients : d # c => cl[d] = Idle
    BY <2>4, OthersIdle
  <2>6. FrozenTasks' = FrozenTasks /\ Inserted' = Inserted /\ UNCHANGED <<mt, levels, files>>
    BY <1>4, <2>5, SyncKeeps DEF Sync, Close
  <2> QED
    BY <2>6, TreeStays DEF KeepsFiles
<1> QED
  BY <1>1, <1>2, <1>3, <1>4 DEF ClientNext

\* The goroutines: what they do apart from installing a flush or a compaction is nothing
\* to the tree.
LEMMA BackgroundTree ==
  ASSUME TypeInv, TypeInv', FirstRun, NoReplay', NumberedInOrder, TreeOrder, MemOrder, Keeps, faults' = faults,
         FlusherNext \/ CompactorNext \/ SnapshotNext \/ RecoverFinish \/ UNCHANGED vars
  PROVE  Tree!Next \/ UNCHANGED Tree!vars
<1> USE DEF ctlVars, memVars, walVars, vsVars, compVars, histVars
<1>1. CASE FlushInstall \/ CompactInstall
  BY <1>1, FlushTree, CompactTree
<1>2. CASE FlushTake \/ FlushWrite
  <2>1. /\ FrozenTasks' = FrozenTasks /\ KeepsFiles({PathOf(t) : t \in Listed})
        /\ UNCHANGED <<mt, levels, cl, issued>>
    BY <1>2, FlushTakeOrder, FlushWriteOrder DEF FlushTake, KeepsFiles
  <2>2. Inserted' = Inserted
    BY <2>1 DEF Inserted
  <2> QED
    BY <2>1, <2>2, TreeStays
<1>3. CASE \/ FlushCleanup \/ CompactBegin \/ CompactMerge \/ CompactRemove
           \/ CompactDone \/ Reschedule \/ RescheduleClear \/ SnapshotNext \/ RecoverFinish \/ UNCHANGED vars
  <2>1. /\ FrozenTasks' = FrozenTasks /\ KeepsFiles({PathOf(t) : t \in Listed})
        /\ UNCHANGED <<mt, levels, cl, issued>>
    BY <1>3, BackgroundOrder
  <2>2. Inserted' = Inserted
    BY <2>1 DEF Inserted
  <2> QED
    BY <2>1, <2>2, TreeStays
<1> QED
  BY <1>1, <1>2, <1>3 DEF FlusherNext, CompactorNext

\* The engine is opened for the first time: the tree is empty before and after.
LEMMA OpenTree ==
  ASSUME TypeInv, TypeInv', FirstRun, NoReplay', starts = 0, New
  PROVE  UNCHANGED Tree!vars
<1>1. phase = "down" /\ manifest = NoManifest
  BY DEF FirstRun, Fresh
<1>2. levels = NoLevels /\ levels' = NoLevels
  BY <1>1 DEF New, NoManifest, TypeInv, Lost
<1>3. UNCHANGED <<mt, files, flushQ, fl, cl, issued>>
  BY DEF New, memVars, histVars
<1>4. FrozenTasks' = FrozenTasks
  <2>1. \A t : Frozen(t)' <=> Frozen(t)
    BY <1>3 DEF Frozen, Busy
  <2> QED
    BY <2>1, FrozenParts DEF FirstRun
<1>5. Inserted' = Inserted /\ levels' = levels /\ KeepsFiles({PathOf(t) : t \in Listed})
  BY <1>2, <1>3 DEF Inserted, KeepsFiles
<1> QED
  BY <1>3, <1>4, <1>5, TreeStays

\* Every step of a process that runs undisturbed is one of the tree, or none to it.
LEMMA NextTree ==
  ASSUME IInv, IInv', OneCall, OneCall', OrderInv, KeptInv, Running, Running', [Next]_vars
  PROVE  Tree!Next \/ UNCHANGED Tree!vars
<1>1. TypeInv /\ TypeInv' /\ starts <= 1 /\ faults = 0 /\ starts' <= 1 /\ faults' = faults
  BY DEF IInv, Running, Undisturbed
<1>2. FirstRun /\ NumberedInOrder /\ NoReplay' /\ TreeOrder /\ MemOrder /\ Keeps
  BY <1>1 DEF IInv, FirstRun, OrderInv, KeptInv, Undisturbed
<1>3. ASSUME NEW c \in Clients, ClientNext(c) PROVE Tree!Next \/ UNCHANGED Tree!vars
  BY <1>1, <1>2, <1>3, ClientTree
<1>4. CASE FlusherNext \/ CompactorNext \/ SnapshotNext \/ RecoverFinish \/ UNCHANGED vars
  BY <1>1, <1>2, <1>4, BackgroundTree
<1>5. CASE Quiet
  BY <1>4, <1>5 DEF Quiet
<1>6. CASE New
  <2>1. starts = 0
    BY <1>1, <1>6 DEF New, TypeInv, Counters
  <2> QED
    BY <1>1, <1>2, <1>6, <2>1, OpenTree
<1>7. ~Crash /\ \A c \in Clients : ~CloseReturn(c)
  <2> SUFFICES ASSUME Crash \/ \E c \in Clients : CloseReturn(c) PROVE FALSE
    OBVIOUS
  <2>1. phase' = "down" /\ starts' = starts
    BY DEF Crash, CloseReturn
  <2>2. starts = 0 /\ phase = "down"
    BY <1>2, <2>1 DEF Running, IsUp, FirstRun, Fresh
  <2>3. cl = [c \in Clients |-> Idle]
    BY <1>1, <2>2 DEF TypeInv, Lost
  <2> QED
    BY <2>2, <2>3 DEF Crash, CloseReturn, Idle
<1>8. CASE RecoverOpen \/ RecoverRecord \/ RecoverSend \/ RecoverLogDone
  BY <1>2, <1>8 DEF RecoverOpen, RecoverRecord, RecoverSend, RecoverLogDone, FirstRun, NoReplay
<1>9. CASE RecoverFails
  BY <1>1, <1>9 DEF RecoverFails, Faults, Count
<1> QED
  BY <1>1, <1>2, <1>3, <1>4, <1>5, <1>6, <1>7, <1>8, <1>9, NotTornFirst DEF Next, RecoveryNext

\* An engine that was never started is an empty tree.
LEMMA InitTree == ASSUME Init, TypeInv, NoReplay PROVE Tree!Init
<1>1. /\ mt = {} /\ issued = {} /\ levels = NoLevels /\ Len(flushQ) = 0
      /\ fl.pc = "idle" /\ \A c \in Clients : cl[c] = Idle
  BY DEF Init, FlIdle
<1>2. FrozenTasks = {} /\ Inserted = {}
  BY <1>1, IdleCall, FrozenParts DEF Frozen, Busy, Inserted
<1>3. \A l \in Levels : TablesAt(l) = {}
  <2>1. ToSet(<<>>) = {}
    BY EmptyLog
  <2> QED
    BY <1>1, <2>1 DEF TablesAt, NoLevels
<1>4. TreeImm = {} /\ TreeLev = [l \in Levels |-> {}]
  BY <1>2, <1>3 DEF TreeImm, TreeLev
<1> QED
  BY <1>1, <1>2, <1>4 DEF Tree!Init, Tree!Levels, Levels, TreeImm, TreeLev

\* The goroutines, queues, files and version edits of an engine that runs undisturbed,
\* with calls that do not overlap, implement the abstract tree: every step is a write, a
\* rotation, a flush or a compaction of it, or changes nothing there.
THEOREM EngineImplementsLSM == Spec /\ [](OneCall /\ Running) => ImplementsLSM
<1>1. ASSUME Init, IInv PROVE Tree!Init
  <2>1. starts = 0 /\ TypeInv
    BY <1>1 DEF Init, IInv
  <2>2. NoReplay
    BY <1>1, <2>1 DEF IInv, FirstRun
  <2> QED
    BY <1>1, <2>1, <2>2, InitTree
<1>2. /\ IInv /\ IInv' /\ OneCall /\ OneCall' /\ OrderInv /\ KeptInv /\ Running /\ Running' /\ [Next]_vars
      => [UNCHANGED Tree!vars \/ Tree!Next]_(Tree!vars)
  BY NextTree
<1>3. Init => IInv
  BY InitFirst
<1>4. Spec => []IInv
  BY EngineInvariant
<1>5. Spec /\ []OneCall => []OrderInv
  BY TreeIsOrdered
<1>6. Spec /\ []OneCall => []KeptInv
  BY NothingIsDropped
<1> QED
  BY <1>1, <1>2, <1>3, <1>4, <1>5, <1>6, PTL DEF Spec, ImplementsLSM


----------------------------------------------------------------------------
\* What the manifest has of the values in the tables of the version, until the first
\* restart and whatever file operations fail; here calls may overlap.

\* A value is in a table of the manifest, or a later one of its key is, or its key was
\* deleted later.
ManRecords == UNION {FileRecords(t) : t \in ManifestTables}
Covered(r) == \/ r.del
              \/ \E q \in ManRecords : q.key = r.key /\ r.val <= q.val
              \/ \E d \in issued : d.del /\ d.key = r.key /\ r.val < d.val
ListCovers == \A r \in TableRecords : Covered(r)
CoverInv == starts <= 1 => OutsMerged /\ ListCovers

\* A step that leaves the lists and the tables in them alone.
SameLists == /\ levels' = levels /\ manifest'.levels = manifest.levels
             /\ KeepsFiles({PathOf(t) : t \in Listed}) /\ issued \subseteq issued'
SameJob   == \/ job'.pc # "install"
             \/ job' = job /\ (job.pc = "install" => KeepsFiles(Paths(job.outs)))

\* What is covered stays so.
LEMMA ListFrame ==
  ASSUME FirstRun, ListCovers, SameLists
  PROVE  ListCovers' /\ \A t \in Listed : FileRecords(t)' = FileRecords(t)
<1>1. ASSUME NEW t \in Listed PROVE FileRecords(t)' = FileRecords(t)
  <2>1. Whole(t) /\ PathOf(t) \in {PathOf(s) : s \in Listed}
    BY DEF FirstRun, WholeTables
  <2> QED
    BY <2>1, SameRecords DEF SameLists
<1>2. LiveTables' = LiveTables /\ ManifestTables' = ManifestTables
  BY DEF LiveTables, ManifestTables, TablesAt, SameLists
<1>3. TableRecords' = TableRecords
  BY <1>1, <1>2 DEF TableRecords, Listed
<1>4. ManRecords' = ManRecords
  BY <1>1, <1>2 DEF ManRecords, Listed
<1>5. ListCovers'
  BY <1>3, <1>4 DEF ListCovers, Covered, SameLists
<1> QED
  BY <1>1, <1>5

\* And so does the outcome of a merge.
LEMMA CoverFrame ==
  ASSUME TypeInv, FirstRun, OutsMerged, ListCovers, SameLists, SameJob
  PROVE  OutsMerged' /\ ListCovers'
<1>1. ListCovers' /\ \A t \in Listed : FileRecords(t)' = FileRecords(t)
  BY ListFrame
<1>2. CASE job'.pc # "install"
  BY <1>1, <1>2 DEF OutsMerged
<1>3. CASE job' = job /\ job.pc = "install" /\ KeepsFiles(Paths(job.outs))
  <2>1. job.outs \in Seq(Tables)
    BY DEF TypeInv, Jobs
  <2>2. ASSUME NEW t \in ToSet(job.outs) PROVE FileRecords(t)' = FileRecords(t)
    <3>1. Whole(t) /\ PathOf(t) \in Paths(job.outs)
      BY <1>3, <2>1, PathsOf DEF FirstRun, JobInv
    <3> QED
      BY <1>3, <3>1, SameRecords
  <2>3. \A t \in ToSet(job.all) : FileRecords(t)' = FileRecords(t)
    BY <1>1, <1>3 DEF FirstRun, JobInv, Listed
  <2>4. Replaced' = Replaced /\ OutRecords' = OutRecords
    BY <1>3, <2>2, <2>3 DEF Replaced, OutRecords
  <2> QED
    BY <1>1, <1>3, <2>4 DEF OutsMerged, Beside
<1> QED
  BY <1>2, <1>3 DEF SameJob

\* The lists of the manifest after a part of an edit was appended to it.
LEMMA ManifestWritten ==
  ASSUME TypeInv, NEW part \in Edits, manifest'.levels = replay(manifest, part).levels, NEW l \in Levels, NEW t
  PROVE  t \in ToSet(manifest'.levels[l]) <=> /\ PathOf(t) \notin part.dels
                                              /\ \/ t \in ToSet(manifest.levels[l])
                                                 \/ t \in ToSet(part.adds) /\ t.level = l
<1> DEFINE y == manifest.levels[l]
<1>1. manifest \in Manifests /\ OnLevels(manifest.levels) /\ manifest.levels \in TreeOf
  BY DEF TypeInv, TreeTypes, OnLevels, Manifests
<1>2. manifest'.levels[l] = Replayed(y, part, l)
  BY <1>1, ReplayTypes
<1>3. y \in Seq(Tables)
  BY <1>1 DEF TreeOf
<1> HIDE DEF y
<1>4. t \in ToSet(Replayed(y, part, l)) <=> /\ PathOf(t) \notin part.dels
                                            /\ \/ t \in ToSet(y)
                                               \/ t \in ToSet(part.adds) /\ t.level = l
  BY <1>3, ReplayedTable
<1> QED
  BY <1>2, <1>4, Zenon DEF y

\* LogAndApply, failing or not, of an edit that adds the newest of what it deletes: a part
\* of it that deletes anything has all that it adds.
LEMMA EditCovers ==
  ASSUME TypeInv, ListCovers, NEW edit \in Edits, NEW fault, LogAndApply(edit, fault),
         UNCHANGED <<files, issued>>,
         \A v \in ToSet(edit.adds) : PathOf(v) \notin edit.dels,
         \A u \in ManifestTables : PathOf(u) \in edit.dels =>
           \A q \in FileRecords(u) :
             \E h \in issued : /\ h.key = q.key /\ q.val <= h.val
                               /\ h.del \/ \E v \in ToSet(edit.adds) : h \in FileRecords(v)
  PROVE  ListCovers'
<1>1. \A t : FileRecords(t)' = FileRecords(t)
  BY DEF FileRecords, Readable
<1>2. /\ manifest \in Manifests /\ OnLevels(manifest.levels) /\ manifest.levels \in TreeOf
      /\ edit.adds \in Seq(Tables)
  BY DEF TypeInv, TreeTypes, OnLevels, Manifests, Edits
<1>3. PICK part \in PartsOf(edit) :
        /\ part \in Edits /\ manifest'.levels = replay(manifest, part).levels
        /\ fault # "manifest" => part = edit
  BY <1>2, WrittenPart
<1>4. part.dels \subseteq edit.dels /\ (part.dels = {} \/ part.adds = edit.adds)
  BY PartTypes
<1>5. ASSUME NEW l \in Levels, NEW t
      PROVE  t \in ToSet(manifest'.levels[l]) <=> /\ PathOf(t) \notin part.dels
                                                  /\ \/ t \in ToSet(manifest.levels[l])
                                                     \/ t \in ToSet(part.adds) /\ t.level = l
  BY <1>3, ManifestWritten
<1>6. \A t \in ManifestTables : PathOf(t) \notin part.dels => t \in ManifestTables'
  BY <1>5 DEF ManifestTables
<1>7. ASSUME part.adds = edit.adds, NEW v \in ToSet(edit.adds) PROVE v \in ManifestTables'
  <2>1. v \in Tables
    BY <1>2, <1>7, InToSet
  <2>2. v.level \in Levels
    BY <2>1 DEF Tables
  <2> QED
    BY <1>4, <1>5, <1>7, <2>2 DEF ManifestTables
<1>8. ASSUME NEW r \in TableRecords'
      PROVE  r \in TableRecords \/ (part.adds = edit.adds /\ \E v \in ToSet(edit.adds) : r \in FileRecords(v))
  <2>1. PICK l \in Levels : \E t \in ToSet(levels'[l]) : r \in FileRecords(t)
    BY <1>1, <1>8 DEF TableRecords, LiveTables, TablesAt
  <2>2. PICK t \in ToSet(levels'[l]) : r \in FileRecords(t)
    BY <2>1
  <2>3. t \in TablesAt(l) => r \in TableRecords
    BY <2>2 DEF TableRecords, LiveTables
  <2>4. CASE fault = "manifest"
    BY <2>2, <2>3, <2>4 DEF LogAndApply, TablesAt
  <2>5. CASE fault # "manifest"
    <3>1. levels' = apply(levels, edit) /\ part = edit
      BY <1>3, <2>5 DEF LogAndApply
    <3>2. t \in TablesAt(l) \/ t \in ToSet(edit.adds)
      BY <2>2, <3>1, EditedTables DEF TablesAt
    <3> QED
      BY <2>2, <2>3, <3>1, <3>2
  <2> QED
    BY <2>4, <2>5
<1>9. \A q \in issued : q.val \in Nat
  BY RecordFields
<1>10. \A q, r \in issued : q.val = r.val => q = r
  BY RecordFields
<1>11. ASSUME NEW u \in ManifestTables' PROVE FileRecords(u) \subseteq ManRecords'
  BY <1>1, <1>11 DEF ManRecords
<1>12. TableRecords \subseteq issued
  BY FilesIssued DEF TableRecords
<1> SUFFICES ASSUME NEW r \in TableRecords' PROVE Covered(r)'
  BY DEF ListCovers
<1>13. CASE part.adds = edit.adds /\ \E v \in ToSet(edit.adds) : r \in FileRecords(v)
  <2>1. r \in ManRecords' /\ r \in issued
    BY <1>7, <1>11, <1>13, FilesIssued
  <2> QED
    BY <1>9, <2>1 DEF Covered
<1>14. CASE r \in TableRecords
  <2>1. Covered(r) /\ r \in issued
    BY <1>12, <1>14 DEF ListCovers
  <2>2. CASE r.del \/ \E d \in issued : d.del /\ d.key = r.key /\ r.val < d.val
    BY <2>2 DEF Covered
  <2>3. CASE \E q \in ManRecords : q.key = r.key /\ r.val <= q.val
    <3>1. PICK u \in ManifestTables : \E q \in FileRecords(u) : q.key = r.key /\ r.val <= q.val
      BY <2>3 DEF ManRecords
    <3>2. PICK q \in FileRecords(u) : q.key = r.key /\ r.val <= q.val
      BY <3>1
    <3>3. q \in issued
      BY <3>2, FilesIssued
    <3>4. CASE PathOf(u) \notin part.dels
      BY <1>6, <1>11, <3>2, <3>4 DEF Covered
    <3>5. CASE PathOf(u) \in part.dels
      <4>1. PathOf(u) \in edit.dels /\ part.adds = edit.adds
        BY <1>4, <3>5
      <4>2. PICK h \in issued : /\ h.key = q.key /\ q.val <= h.val
                                /\ h.del \/ \E v \in ToSet(edit.adds) : h \in FileRecords(v)
        BY <3>2, <4>1
      <4>3. h.key = r.key /\ r.val <= h.val
        BY <1>9, <2>1, <3>2, <3>3, <4>2
      <4>4. CASE \E v \in ToSet(edit.adds) : h \in FileRecords(v)
        BY <1>7, <1>11, <4>1, <4>3, <4>4 DEF Covered
      <4>5. CASE h.del
        <5>1. h = r \/ r.val < h.val
          BY <1>9, <1>10, <2>1, <4>2, <4>3
        <5> QED
          BY <4>2, <4>3, <4>5, <5>1 DEF Covered
      <4> QED
        BY <4>2, <4>4, <4>5
    <3> QED
      BY <3>4, <3>5
  <2> QED
    BY <2>1, <2>2, <2>3 DEF Covered
<1> QED
  BY <1>8, <1>13, <1>14

\* A flush that is installed adds its table and deletes none.
LEMMA FlushInstallCovers ==
  ASSUME TypeInv, FirstRun, OutsMerged, ListCovers, FlushInstall
  PROVE  OutsMerged' /\ ListCovers'
<1> USE DEF ctlVars, memVars, walVars, compVars, histVars
<1>1. PICK fault : /\ fl.pc = "install" /\ LogAndApply(FlushEdit, fault) /\ UNCHANGED <<files, issued, job>>
  BY DEF FlushInstall
<1>2. FlushEdit \in Edits /\ FlushEdit.dels = {}
  BY <1>1, FlushEditTypes
<1>3. ListCovers'
  BY <1>1, <1>2, EditCovers
<1>4. Replaced' = Replaced /\ OutRecords' = OutRecords
  BY <1>1 DEF Replaced, OutRecords, FileRecords, Readable
<1> QED
  BY <1>1, <1>3, <1>4 DEF OutsMerged, Beside

\* A compaction that is installed adds the newest versions of what it deletes, except for
\* deletes on the last level.
LEMMA CompactInstallCovers ==
  ASSUME TypeInv, FirstRun, NumberedInOrder, OutsMerged, ListCovers, CompactInstall
  PROVE  OutsMerged' /\ ListCovers'
<1> USE DEF ctlVars, memVars, walVars, compVars, histVars
<1>1. PICK fault : /\ job.pc = "install" /\ LogAndApply(CompactionEdit, fault) /\ UNCHANGED <<files, issued>>
                   /\ job' = NoJob \/ job' = [job EXCEPT !.pc = "remove"]
  BY DEF CompactInstall
<1>2. job \in Jobs /\ job.all \in Seq(Tables) /\ job.outs \in Seq(Tables)
  BY DEF TypeInv, Jobs
<1>3. job'.pc # "install"
  BY <1>1, <1>2 DEF Jobs, NoJob
<1>4. CompactionEdit \in Edits /\ CompactionEdit.dels = Paths(job.all) /\ CompactionEdit.adds = job.outs
  BY CompactionEditTypes
<1>5. ASSUME NEW v \in ToSet(job.outs) PROVE PathOf(v) \notin Paths(job.all)
  <2>1. PathOf(v) \notin Used /\ ToSet(job.all) \subseteq LiveTables
    BY <1>1 DEF FirstRun, JobInv
  <2>2. \A t \in ToSet(job.all) : PathOf(t) \in Used
    BY <2>1, InUse DEF Listed
  <2> QED
    BY <1>2, <2>1, <2>2, PathsOf
<1>6. ASSUME NEW u \in ManifestTables, PathOf(u) \in Paths(job.all), NEW q \in FileRecords(u)
      PROVE  \E h \in issued : /\ h.key = q.key /\ q.val <= h.val
                               /\ h.del \/ \E v \in ToSet(job.outs) : h \in FileRecords(v)
  <2>1. PICK t \in ToSet(job.all) : PathOf(u) = PathOf(t)
    BY <1>2, <1>6, PathsOf
  <2>2. q \in FileRecords(t)
    BY <1>6, <2>1 DEF FileRecords, PathOf
  <2>3. q \in Replaced /\ Replaced \subseteq issued
    BY <2>2, FilesIssued DEF Replaced
  <2>4. PICK h \in Heads(Replaced) : h.key = q.key /\ q.seq <= h.seq
    BY <2>3, NewestReplaced
  <2>5. h \in issued /\ q \in issued
    BY <2>3, <2>4 DEF Heads
  <2>6. q.val <= h.val
    BY <2>4, <2>5 DEF NumberedInOrder
  <2>7. h \in OutRecords \/ h.del
    BY <1>1, <2>4 DEF OutsMerged
  <2>8. h.del \/ \E v \in ToSet(job.outs) : h \in FileRecords(v)
    BY <2>7 DEF OutRecords
  <2> QED
    BY <2>4, <2>5, <2>6, <2>8
<1>7. ListCovers'
  <2>1. PICK edit : edit = CompactionEdit
    OBVIOUS
  <2>2. edit \in Edits /\ edit.dels = Paths(job.all) /\ edit.adds = job.outs /\ LogAndApply(edit, fault)
    BY <1>1, <1>4, <2>1
  <2>3. /\ \A v \in ToSet(edit.adds) : PathOf(v) \notin edit.dels
        /\ \A u \in ManifestTables : PathOf(u) \in edit.dels =>
             \A q \in FileRecords(u) :
               \E h \in issued : /\ h.key = q.key /\ q.val <= h.val
                                 /\ h.del \/ \E v \in ToSet(edit.adds) : h \in FileRecords(v)
    BY <1>5, <1>6, <2>2
  <2> QED
    BY <1>1, <2>2, <2>3, EditCovers
<1> QED
  BY <1>3, <1>7 DEF OutsMerged

\* The steps of a client change neither list, and only rotate touches a table's file.
LEMMA ClientSame ==
  ASSUME TypeInv, FirstRun, NEW c \in Clients, ClientNext(c)
  PROVE  SameLists /\ SameJob
<1> USE DEF ctlVars, memVars, walVars, vsVars, compVars, histVars
<1>1. CASE UNCHANGED <<levels, manifest, files, job>> /\ issued \subseteq issued'
  BY <1>1 DEF SameLists, SameJob, KeepsFiles
<1>2. CASE Put(c) \/ Delete(c) \/ WriteBatch(c)
  <2>1. PICK n \in Nat \ {0} : \E ks \in [1..n -> Keys], ds \in [1..n -> BOOLEAN] : Starts(c, ks, ds)
    BY <1>2, WriteStarts
  <2>2. \E op \in {"write", "batch"}, pc \in {"stall", "log", "apply"} : \E recs : Start(c, op, pc, recs)
    BY <2>1 DEF Starts
  <2>3. UNCHANGED <<levels, manifest, files, job>> /\ issued \subseteq issued'
    BY <2>2 DEF Start
  <2> QED
    BY <1>1, <2>3
<1>3. CASE Stall(c) \/ ReadWal(c) \/ AppendWal(c) \/ Send(c) \/ Sync(c) \/ Close(c) \/ SyncReturn(c)
  <2>1. UNCHANGED <<levels, manifest, files, job, issued>>
    BY <1>3 DEF Stall, ReadWal, AppendWal, Send, Sync, Close, SyncReturn
  <2> QED
    BY <1>1, <2>1
<1>4. ASSUME NEW m \in (SUBSET issued) \ {{}}, NEW fault, IsUp, rotate(m, fault), UNCHANGED <<fl, job, issued>>
      PROVE  SameLists /\ SameJob
  <2>1. /\ levels' = levels /\ manifest'.levels = manifest.levels
        /\ KeepsFiles({PathOf(t) : t \in Listed})
        /\ job.pc = "install" => KeepsFiles(Paths(job.outs))
    BY <1>4, RotateKeeps
  <2> QED
    BY <1>4, <2>1 DEF SameLists, SameJob
<1>5. CASE Apply(c)
  <2> DEFINE call == cl[c]
             m    == mt \cup {call.recs[call.i]}
             full == Cardinality(m) >= MemtableSize
  <2>1. PICK fault : /\ call.pc = "apply"
                     /\ IF full THEN rotate(m, fault)
                        ELSE mt' = m /\ UNCHANGED <<immt, walVars, vsVars, nextFileNum, files>>
                     /\ UNCHANGED <<ctlVars, seqNum, flushQ, fl, compVars, snaps, rv, issued>>
    BY <1>5, Zenon DEF Apply
  <2>2. call \in Calls(issued) /\ CallShape(call) /\ IsUp
    BY <2>1, UpFacts DEF TypeInv, CallTypes
  <2>3. call.recs \in Seq(issued) /\ call.i \in 1..Len(call.recs) /\ mt \subseteq issued
    BY <2>1, <2>2 DEF Calls, CallShape, TypeInv, MemTypes
  <2>4. m \in (SUBSET issued) \ {{}}
    BY <2>3
  <2> HIDE DEF m, full, call
  <2> QED
    BY <1>1, <1>4, <2>1, <2>2, <2>4
<1>6. CASE RotateForSync(c)
  <2>1. PICK fault : /\ cl[c].pc = "rotate" /\ UNCHANGED <<fl, job, issued>>
                     /\ UNCHANGED <<levels, manifest, files>> \/ (mt # {} /\ rotate(mt, fault))
    BY <1>6 DEF RotateForSync
  <2>2. IsUp /\ mt \subseteq issued
    BY <2>1, UpFacts DEF TypeInv, MemTypes
  <2> QED
    BY <1>1, <1>4, <2>1, <2>2
<1> QED
  BY <1>2, <1>3, <1>5, <1>6 DEF ClientNext

\* Nor do those of the flusher and the compactor that log no edit.
LEMMA BackgroundSame ==
  ASSUME TypeInv, FirstRun,
         \/ FlushTake \/ FlushWrite \/ FlushCleanup \/ CompactBegin \/ CompactRemove
         \/ CompactDone \/ Reschedule \/ RescheduleClear \/ SnapshotNext \/ RecoverFinish \/ UNCHANGED vars
  PROVE  SameLists /\ SameJob
<1> USE DEF ctlVars, memVars, walVars, vsVars, compVars, histVars
<1>1. CASE /\ UNCHANGED <<levels, manifest, files, issued>>
           /\ job' = job \/ job'.pc # "install"
  BY <1>1 DEF SameLists, SameJob, KeepsFiles
<1>2. ASSUME NEW l \in 0..(Bottom - 1), StartCompaction(l) PROVE job'.pc # "install"
  BY <1>2, StartCompactionTypes
<1>3. CASE FlushTake \/ SnapshotNext \/ RecoverFinish \/ UNCHANGED vars
  <2>1. UNCHANGED <<levels, manifest, files, issued, job>>
    BY <1>3 DEF FlushTake, SnapshotNext, NewSnapshot, Release, RecoverFinish, vars
  <2> QED
    BY <1>1, <2>1
<1>4. CASE CompactDone \/ Reschedule \/ RescheduleClear
  <2>1. /\ UNCHANGED <<levels, manifest, files, issued>>
        /\ \/ job' = NoJob \/ job' = [NoJob EXCEPT !.pc = "clear"] \/ job' = job
           \/ \E l \in CompactionLevel : StartCompaction(l)
    BY <1>4 DEF CompactDone, Reschedule, RescheduleClear
  <2>2. job' = job \/ job'.pc # "install"
    BY <1>2, <2>1, LevelPicked DEF NoJob
  <2> QED
    BY <1>1, <2>1, <2>2
<1>5. CASE FlushCleanup
  <2>1. UNCHANGED <<levels, manifest, files, issued>> /\ (job' = job \/ StartCompaction(0))
    BY <1>5 DEF FlushCleanup
  <2>2. 0 \in 0..(Bottom - 1)
    BY ConstantTypes
  <2> QED
    BY <1>1, <1>2, <2>1, <2>2
<1>6. CASE CompactBegin
  <2>1. UNCHANGED <<levels, manifest, files, issued>> /\ job'.pc # "install"
    BY <1>6 DEF CompactBegin, TypeInv, Jobs, NoJob
  <2> QED
    BY <1>1, <2>1
<1>7. CASE CompactRemove
  <2>1. /\ job.pc = "remove" /\ files' = Unlink(files, Paths(job.all)) /\ job' = [NoJob EXCEPT !.pc = "done"]
        /\ UNCHANGED <<levels, manifest, issued>>
    BY <1>7 DEF CompactRemove
  <2>2. \A t \in Listed : PathOf(t) \notin Paths(job.all)
    BY <2>1 DEF FirstRun, JobInv
  <2>3. KeepsFiles({PathOf(t) : t \in Listed})
    BY <2>1, <2>2 DEF KeepsFiles, Unlink
  <2> QED
    BY <2>1, <2>3 DEF SameLists, SameJob, NoJob
<1>8. CASE FlushWrite
  <2>1. /\ UNCHANGED <<levels, manifest, job, issued>> /\ fl.pc = "write"
        /\ files' = files \/ files' = Create(files, <<0, fl.task.num>>, fl.task.mt)
    BY <1>8 DEF FlushWrite
  <2>2. KeepsFiles({PathOf(t) : t \in Listed}) /\ (job.pc = "install" => KeepsFiles(Paths(job.outs)))
    BY <1>8, WriteKeeps
  <2> QED
    BY <2>1, <2>2 DEF SameLists, SameJob
<1> QED
  BY <1>3, <1>4, <1>5, <1>6, <1>7, <1>8

\* Every step keeps the values of the tables covered, up to the second start.
LEMMA NextCovers ==
  ASSUME IInv, IInv', CoverInv, [Next]_vars
  PROVE  CoverInv'
<1> SUFFICES ASSUME starts' <= 1 PROVE OutsMerged' /\ ListCovers'
  BY DEF CoverInv
<1>1. TypeInv /\ TypeInv' /\ starts \in Nat
  BY DEF IInv, TypeInv, Counters
<1>2. starts <= 1
  BY <1>1, StartsCounted DEF TypeInv, Counters
<1>3. FirstRun /\ NumberedInOrder /\ OutsMerged /\ ListCovers
  BY <1>2 DEF IInv, CoverInv
<1>4. ASSUME NEW c \in Clients, ClientNext(c) PROVE OutsMerged' /\ ListCovers'
  BY <1>1, <1>3, <1>4, ClientSame, CoverFrame
<1>5. CASE FlusherNext
  BY <1>1, <1>3, <1>5, FlushInstallCovers, BackgroundSame, CoverFrame DEF FlusherNext
<1>6. CASE CompactMerge
  <2>1. /\ UNCHANGED <<levels, manifest, issued>> /\ KeepsFiles({PathOf(t) : t \in Listed})
    BY <1>1, <1>3, <1>6, MergeKeepsUsed DEF CompactMerge, vsVars, histVars
  <2>2. ListCovers'
    BY <1>3, <2>1, ListFrame DEF SameLists
  <2>3. OutsMerged'
    BY <1>1, <1>3, <1>6, MergedOuts DEF OutsMerged
  <2> QED
    BY <2>2, <2>3
<1>7. CASE CompactorNext
  BY <1>1, <1>3, <1>6, <1>7, CompactInstallCovers, BackgroundSame, CoverFrame DEF CompactorNext
<1>8. CASE SnapshotNext \/ RecoverFinish \/ Quiet \/ UNCHANGED vars
  BY <1>1, <1>3, <1>8, BackgroundSame, CoverFrame DEF Quiet
<1>9. CASE Crash \/ (\E c \in Clients : CloseReturn(c)) \/ RecoverFails \/ New
  <2>1. levels' = NoLevels /\ job' = NoJob
    <3>1. CASE New
      <4>1. phase = "down" /\ manifest = NoManifest
        BY <1>1, <1>3, <3>1 DEF New, FirstRun, Fresh
      <4>2. levels' = NoLevels /\ job' = job
        BY <3>1, <4>1 DEF New, memVars, compVars, NoManifest
      <4> QED
        BY <1>1, <4>1, <4>2 DEF TypeInv, Lost
    <3>2. CASE Crash \/ (\E c \in Clients : CloseReturn(c)) \/ RecoverFails
      BY <3>2 DEF Crash, CloseReturn, RecoverFails, LoseMemory
    <3> QED
      BY <1>9, <3>1, <3>2
  <2>2. LiveTables' = {} /\ job'.pc # "install"
    BY <2>1 DEF LiveTables, TablesAt, NoLevels, ToSet, NoJob
  <2> QED
    BY <2>2 DEF OutsMerged, ListCovers, TableRecords
<1>10. CASE RecoverOpen \/ RecoverRecord \/ RecoverSend \/ RecoverLogDone
  BY <1>3, <1>10 DEF RecoverOpen, RecoverRecord, RecoverSend, RecoverLogDone, FirstRun, NoReplay
<1> QED
  BY <1>1, <1>3, <1>4, <1>5, <1>7, <1>8, <1>9, <1>10, NotTornFirst DEF Next, RecoveryNext

\* Until the second start, and whatever part of an edit a failing write leaves, the
\* manifest lists for each value in a table of the Version a table with that value or a
\* later one of its key, unless the key was deleted later.  Calls may overlap, and any
\* file operations fail.
THEOREM ManifestHasAll == Spec => []ManifestCovers
<1>1. ASSUME Init PROVE CoverInv
  <2>1. LiveTables = {} /\ job.pc # "install"
    BY <1>1 DEF Init, LiveTables, TablesAt, NoLevels, ToSet, NoJob
  <2> QED
    BY <2>1 DEF CoverInv, OutsMerged, ListCovers, TableRecords
<1>2. IInv /\ IInv' /\ CoverInv /\ [Next]_vars => CoverInv'
  BY NextCovers
<1>3. ASSUME IInv, CoverInv PROVE ManifestCovers
  <2> SUFFICES ASSUME starts <= 1, NEW r \in TableRecords
               PROVE  \/ r.del
                      \/ \E t \in ManifestTables : \E q \in FileRecords(t) : q.key = r.key /\ q.val >= r.val
                      \/ \E d \in issued : d.del /\ d.key = r.key /\ d.val > r.val
    BY DEF ManifestCovers
  <2>1. TypeInv /\ Covered(r)
    BY <1>3 DEF IInv, CoverInv, ListCovers
  <2>2. r \in issued /\ \A q \in issued : q.val \in Nat
    BY <2>1, FilesIssued, RecordFields DEF TableRecords
  <2>3. \A t : FileRecords(t) \subseteq issued
    BY <2>1, FilesIssued
  <2> QED
    BY <2>1, <2>2, <2>3 DEF Covered, ManRecords
<1>4. Spec => []IInv
  BY EngineInvariant
<1> QED
  BY <1>1, <1>2, <1>3, <1>4, PTL DEF Spec
=============================================================================
