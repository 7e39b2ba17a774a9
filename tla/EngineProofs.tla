---------------------------- MODULE EngineProofs ----------------------------
(***************************************************************************)
(* The storage engine from its first start to its first restart, for any   *)
(* number of clients, keys, levels and failing file operations: the tables *)
(* of the version and of the manifest are whole files, the two agree, one  *)
(* compaction runs at a time and sequence numbers order the versions.      *)
(*                                                                         *)
(* All of it rests on file numbers: nobody writes or removes a file that a *)
(* version lists, because the number of every memtable to be flushed and   *)
(* of every output of a compaction is new.  After a restart it need not be *)
(* (the manifest's next file number can be lower than one in use), which   *)
(* is why the invariant ends there.                                        *)
(***************************************************************************)
EXTENDS EngineTypeProofs

Listed == LiveTables \cup ManifestTables
\* The files of the tables that the version or the manifest lists, and of those a
\* compaction is about to remove.
Used == {PathOf(t) : t \in Listed} \cup (IF job.pc = "remove" THEN Paths(job.all) ELSE {})

\* The table numbers of the tasks a call has not sent yet.
CallNums(call)  == {call.tasks[i].num : i \in Pending(call)}
CallApart(call) == \A i, j \in Pending(call) : call.tasks[i].num = call.tasks[j].num => i = j
SeqNums(s) == {s[i].num : i \in 1..Len(s)}

\* Who holds the number of a table to be flushed: the calls, the channel, recovery
\* and the flusher.
HeldCalls == [c \in Clients |-> CallNums(cl[c])]
FlNums    == IF fl.pc \in {"write", "install"} THEN {fl.task.num} ELSE {}
Disjoint(C, Q, R, F) ==
  /\ \A c \in Clients : C[c] \cap (Q \cup R \cup F) = {}
  /\ \A c, d \in Clients : c # d => C[c] \cap C[d] = {}
  /\ Q \cap (R \cup F) = {} /\ R \cap F = {}
AllOf(C, Q, R, F) == (UNION {C[c] : c \in Clients}) \cup Q \cup R \cup F
TaskNums == AllOf(HeldCalls, SeqNums(flushQ), SeqNums(rv.tasks), FlNums)

\* No two tasks have the same table number, and none has that of a table of level 0.
TasksApart ==
  /\ \A c \in Clients : CallApart(cl[c])
  /\ Apart(flushQ)
  /\ Disjoint(HeldCalls, SeqNums(flushQ), SeqNums(rv.tasks), FlNums)
TasksFresh == \A n \in TaskNums : n < nextFileNum /\ <<0, n>> \notin Used

\* The numbers of listed tables have been drawn, and a level lists none twice.
UsedBelow   == IsUp => \A p \in Used : p[2] < nextFileNum
LevelsApart == \A l \in Levels : Apart(levels[l]) /\ Apart(manifest.levels[l])

\* A table is completely in its file, under the keys it is listed with.
Whole(t) == Readable(PathOf(t)) /\ TableMeta(t.level, t.num, files[PathOf(t)]) = t
WholeTables  == \A t \in Listed : Whole(t)
FlushedWhole == fl.pc = "install" => /\ <<0, fl.task.num>> \in DOMAIN files
                                     /\ files[<<0, fl.task.num>>] = fl.task.mt

\* A compaction: its inputs are live until its edit is applied, its first output has
\* a number of its own, and so have all of them when they are written.
OutPath == <<job.level + 1, job.out>>
JobInv ==
  /\ job.pc = "begin" => ToSet(job.inputs) \subseteq TablesAt(job.level)
  /\ job.pc \in {"begin", "merge"} => job.out < nextFileNum /\ OutPath \notin Used
  /\ job.pc \in {"merge", "install"} => ToSet(job.all) \subseteq LiveTables
  /\ job.pc = "install" =>
       /\ Apart(job.outs)
       /\ \A t \in ToSet(job.outs) : /\ t.level = job.level + 1 /\ t.num < nextFileNum
                                     /\ PathOf(t) \notin Used /\ Whole(t)
  /\ job.pc = "remove" => \A t \in Listed : PathOf(t) \notin Paths(job.all)

Fresh     == starts = 0 => phase = "down" /\ manifest = NoManifest /\ DOMAIN wals = {}
\* The first start finds no log to replay.
NoReplay  == rv.pc \in {"idle", "open"} /\ rv.todo = {}
Mirrored  == IsUp /\ faults = 0 => manifest.levels = levels
FlagOwned == faults = 0 /\ isCompacting => job.pc # "none"

FirstRun == /\ TasksApart /\ TasksFresh /\ UsedBelow /\ LevelsApart /\ WholeTables /\ FlushedWhole
            /\ JobInv /\ Fresh /\ NoReplay /\ Mirrored /\ FlagOwned

\* The sequence number of a record is its place in the order of writing.
NumberedInOrder ==
  /\ \A r \in issued : r.seq = r.val
  /\ IsUp => seqNum = Cardinality(issued)
  /\ (starts = 0 \/ phase = "recovering") => issued = {}

IInv == TypeInv /\ (starts <= 1 => FirstRun /\ NumberedInOrder)

----------------------------------------------------------------------------
\* One number may change hands, or be new, as long as one holder has it then.
LEMMA DisjointMove ==
  ASSUME NEW C, NEW Q, NEW R, NEW F, Disjoint(C, Q, R, F),
         NEW D, NEW Q2, NEW R2, NEW F2, NEW n,
         \A c \in Clients : D[c] \subseteq C[c] \cup {n},
         Q2 \subseteq Q \cup {n}, R2 \subseteq R \cup {n}, F2 \subseteq F \cup {n},
         \A c \in Clients : n \in D[c] => n \notin Q2 \cup R2 \cup F2 /\ \A d \in Clients : n \in D[d] => c = d,
         n \in Q2 => n \notin R2 \cup F2, n \in R2 => n \notin F2
  PROVE  Disjoint(D, Q2, R2, F2)
BY DEF Disjoint

\* Holders with fewer numbers.
LEMMA DisjointFewer ==
  ASSUME NEW C, NEW Q, NEW R, NEW F, Disjoint(C, Q, R, F), NEW D, NEW Q2, NEW R2, NEW F2,
         \A c \in Clients : D[c] \subseteq C[c], Q2 \subseteq Q, R2 \subseteq R, F2 \subseteq F
  PROVE  Disjoint(D, Q2, R2, F2) /\ AllOf(D, Q2, R2, F2) \subseteq AllOf(C, Q, R, F)
BY DEF Disjoint, AllOf

\* The numbers of a longer and of a shorter queue.
LEMMA QueueAppend ==
  ASSUME NEW S, NEW s \in Seq(S), NEW e \in S, Apart(s), e.num \notin SeqNums(s)
  PROVE  Apart(Append(s, e)) /\ SeqNums(Append(s, e)) = SeqNums(s) \cup {e.num}
<1>1. \A i \in 1..Len(s) : s[i].num # e.num
  BY DEF SeqNums
<1>2. Apart(Append(s, e))
  BY <1>1, AppendApart
<1>3. Len(Append(s, e)) = Len(s) + 1 /\ Append(s, e)[Len(s) + 1] = e /\ \A i \in 1..Len(s) : Append(s, e)[i] = s[i]
  OBVIOUS
<1>4. \A i : i \in 1..(Len(s) + 1) <=> i \in 1..Len(s) \/ i = Len(s) + 1
  OBVIOUS
<1> QED
  BY <1>2, <1>3, <1>4 DEF SeqNums

\* The numbers of a queue whose first element is taken.
LEMMA QueueTail ==
  ASSUME NEW S, NEW s \in Seq(S), s # <<>>, Apart(s)
  PROVE  /\ Apart(Tail(s)) /\ SeqNums(Tail(s)) \subseteq SeqNums(s)
         /\ Head(s).num \in SeqNums(s) /\ Head(s).num \notin SeqNums(Tail(s))
<1>1. Len(Tail(s)) = Len(s) - 1 /\ Head(s) = s[1] /\ Len(s) \in Nat /\ Len(s) >= 1
  OBVIOUS
<1>2. \A i \in 1..(Len(s) - 1) : Tail(s)[i] = s[i + 1] /\ i + 1 \in 1..Len(s)
  BY <1>1
<1>3. Apart(Tail(s))
  BY <1>1, <1>2 DEF Apart
<1>4. SeqNums(Tail(s)) \subseteq SeqNums(s) /\ Head(s).num \in SeqNums(s)
  BY <1>1, <1>2 DEF SeqNums
<1>5. Head(s).num \notin SeqNums(Tail(s))
  BY <1>1, <1>2 DEF SeqNums, Apart
<1> QED
  BY <1>3, <1>4, <1>5

----------------------------------------------------------------------------
\* The files of listed tables are in use; a file in use is one of them or about to be
\* removed.
LEMMA InUse ==
  /\ \A t \in Listed : PathOf(t) \in Used
  /\ \A p \in Used : (\E t \in Listed : p = PathOf(t)) \/ (job.pc = "remove" /\ p \in Paths(job.all))
BY DEF Used

\* Listed tables, and the level each is on.
LEMMA ListedTables ==
  ASSUME TreeTypes
  PROVE  /\ \A t \in LiveTables : t \in Tables /\ t.level \in Levels /\ t \in ToSet(levels[t.level])
         /\ \A t \in ManifestTables : t \in Tables /\ t.level \in Levels /\ t \in ToSet(manifest.levels[t.level])
         /\ \A l \in Levels : \A t \in ToSet(levels[l]) : t \in LiveTables /\ t.level = l
         /\ \A l \in Levels : \A t \in ToSet(manifest.levels[l]) : t \in ManifestTables /\ t.level = l
<1>1. \A l \in Levels : levels[l] \in Seq(Tables) /\ manifest.levels[l] \in Seq(Tables)
  BY DEF TreeTypes, TreeOf, Manifests
<1>2. ASSUME NEW s \in Seq(Tables), NEW t \in ToSet(s) PROVE t \in Tables
  BY <1>2, InToSet
<1> QED
  BY <1>1, <1>2 DEF TreeTypes, LiveTables, ManifestTables, TablesAt

\* A table, by its file.
LEMMA PathTypes ==
  ASSUME NEW t \in Tables
  PROVE  PathOf(t) \in Levels \X Nat /\ PathOf(t)[1] = t.level /\ PathOf(t)[2] = t.num /\ t.num \in Nat
BY DEF PathOf, Tables

\* The files of a sequence of tables, one by one.
LEMMA PathsOf ==
  ASSUME NEW s \in Seq(Tables), NEW p
  PROVE  p \in Paths(s) <=> \E t \in ToSet(s) : p = PathOf(t)
BY DEF Paths, PathOf

\* Files in use are files of levels.
LEMMA UsedTypes == ASSUME TypeInv PROVE Used \subseteq Levels \X Nat
<1>1. \A t \in Listed : t \in Tables
  BY ListedTables DEF Listed, TypeInv
<1>2. job.all \in Seq(Tables)
  BY DEF TypeInv, Jobs
<1>3. \A t \in ToSet(job.all) : t \in Tables
  BY <1>2, InToSet
<1> QED
  BY <1>1, <1>2, <1>3, InUse, PathsOf, PathTypes

\* A step keeps the files at some paths.
KeepsFiles(P) == \A p \in P : p \in DOMAIN files => p \in DOMAIN files' /\ files'[p] = files[p]

\* A table in a file that a step keeps stays whole.
LEMMA StaysWhole ==
  ASSUME NEW t, NEW P, KeepsFiles(P), PathOf(t) \in P, Whole(t)
  PROVE  Whole(t)'
BY DEF Whole, KeepsFiles, Readable

\* What a step that changes neither the version nor the levels of the manifest keeps.
LEMMA TreeStep ==
  ASSUME TypeInv, TypeInv', FirstRun, IsUp, levels' = levels, manifest'.levels = manifest.levels,
         starts' = starts, nextFileNum <= nextFileNum', faults <= faults',
         job' = job \/ job'.pc # "remove", KeepsFiles({PathOf(t) : t \in Listed})
  PROVE  /\ UsedBelow' /\ LevelsApart' /\ WholeTables' /\ Fresh' /\ Mirrored'
         /\ Used' \subseteq Used /\ Listed' = Listed /\ LiveTables' = LiveTables
<1>1. Listed' = Listed /\ LiveTables' = LiveTables
  BY DEF Listed, LiveTables, ManifestTables, TablesAt
<1>2. Used' \subseteq Used
  BY <1>1 DEF Used
<1>3. UsedBelow'
  <2>1. \A p \in Used : p[2] \in Nat /\ p[2] < nextFileNum
    BY UsedTypes DEF FirstRun, UsedBelow
  <2>2. nextFileNum \in Nat /\ nextFileNum' \in Nat
    BY DEF TypeInv, Counters
  <2> QED
    BY <1>2, <2>1, <2>2 DEF UsedBelow
<1>4. LevelsApart'
  BY DEF FirstRun, LevelsApart
<1>5. WholeTables'
  <2> SUFFICES ASSUME NEW t \in Listed PROVE Whole(t)'
    BY <1>1 DEF WholeTables
  <2>1. Whole(t)
    BY DEF FirstRun, WholeTables
  <2> QED
    BY <2>1, StaysWhole
<1>6. Fresh'
  BY DEF FirstRun, Fresh, IsUp
<1>7. Mirrored'
  <2>1. faults \in Nat /\ faults' \in Nat
    BY DEF TypeInv, Counters
  <2> QED
    BY <2>1 DEF FirstRun, Mirrored
<1> QED
  BY <1>1, <1>2, <1>3, <1>4, <1>5, <1>6, <1>7

----------------------------------------------------------------------------
\* The tasks a call has not sent are among its tasks.
LEMMA PendingTasks ==
  ASSUME NEW I, NEW call \in Calls(I), CallShape(call)
  PROVE  /\ Pending(call) \subseteq 1..Len(call.tasks)
         /\ \A i \in Pending(call) : call.tasks[i] \in Tasks(I) /\ call.tasks[i].num \in Nat
<1>1. call.tasks \in Seq(Tasks(I)) /\ call.i \in Nat /\ Len(call.tasks) \in Nat
  BY DEF Calls
<1>2. Pending(call) \subseteq 1..Len(call.tasks)
  <2>1. CASE call.pc = "apply"
    BY <2>1 DEF Pending
  <2>2. CASE call.pc = "send"
    BY <1>1, <2>2 DEF Pending, CallShape
  <2>3. CASE call.pc \notin {"apply", "send"}
    BY <2>3 DEF Pending
  <2> QED
    BY <2>1, <2>2, <2>3
<1>3. ASSUME NEW i \in Pending(call) PROVE call.tasks[i] \in Tasks(I) /\ call.tasks[i].num \in Nat
  <2>1. call.tasks[i] \in Tasks(I)
    BY <1>1, <1>2
  <2> QED
    BY <2>1 DEF Tasks
<1> QED
  BY <1>2, <1>3

\* The numbers of tasks are numbers.
LEMMA TaskNumTypes ==
  ASSUME TypeInv
  PROVE  /\ TaskNums \subseteq Nat
         /\ \A c \in Clients : HeldCalls[c] = CallNums(cl[c]) /\ CallNums(cl[c]) \subseteq TaskNums
         /\ SeqNums(flushQ) \subseteq TaskNums /\ SeqNums(rv.tasks) \subseteq TaskNums /\ FlNums \subseteq TaskNums
<1>1. ASSUME NEW c \in Clients PROVE CallNums(cl[c]) \subseteq Nat
  <2>1. cl[c] \in Calls(issued) /\ CallShape(cl[c])
    BY DEF TypeInv, CallTypes
  <2> QED
    BY <2>1, PendingTasks DEF CallNums
<1>2. ASSUME NEW s \in Seq(Tasks(issued)) PROVE SeqNums(s) \subseteq Nat
  <2> SUFFICES ASSUME NEW i \in 1..Len(s) PROVE s[i].num \in Nat
    BY DEF SeqNums
  <2>1. s[i] \in Tasks(issued)
    OBVIOUS
  <2> QED
    BY <2>1 DEF Tasks
<1>3. SeqNums(flushQ) \subseteq Nat /\ SeqNums(rv.tasks) \subseteq Nat
  BY <1>2 DEF TypeInv, FlusherTypes, RecoveryTypes, Recoveries
<1>4. FlNums \subseteq Nat
  BY DEF FlNums, TypeInv, FlusherTypes, Tasks
<1>5. \A c \in Clients : HeldCalls[c] = CallNums(cl[c])
  BY DEF HeldCalls
<1> DEFINE U == UNION {HeldCalls[c] : c \in Clients}
<1>6. TaskNums = U \cup SeqNums(flushQ) \cup SeqNums(rv.tasks) \cup FlNums
  BY Zenon DEF TaskNums, AllOf
<1>7. U \subseteq Nat /\ \A c \in Clients : CallNums(cl[c]) \subseteq U
  BY <1>1, <1>5
<1> HIDE DEF U
<1> QED
  BY <1>3, <1>4, <1>5, <1>6, <1>7

\* Nobody draws a number and nobody gets one from another.
LEMMA NumbersStep ==
  ASSUME TypeInv, TypeInv', FirstRun, nextFileNum <= nextFileNum', Used' \subseteq Used,
         \A c \in Clients : CallNums(cl'[c]) \subseteq CallNums(cl[c]) /\ CallApart(cl'[c]),
         Apart(flushQ'), SeqNums(flushQ') \subseteq SeqNums(flushQ),
         SeqNums(rv'.tasks) \subseteq SeqNums(rv.tasks), FlNums' \subseteq FlNums
  PROVE  TasksApart' /\ TasksFresh'
<1>1. \A c \in Clients : HeldCalls[c] = CallNums(cl[c]) /\ HeldCalls'[c] = CallNums(cl'[c])
  BY DEF HeldCalls
<1>2. \A c \in Clients : HeldCalls'[c] \subseteq HeldCalls[c]
  BY <1>1
<1>3. Disjoint(HeldCalls, SeqNums(flushQ), SeqNums(rv.tasks), FlNums)
  BY DEF FirstRun, TasksApart
<1>4. /\ Disjoint(HeldCalls', SeqNums(flushQ'), SeqNums(rv'.tasks), FlNums')
      /\ AllOf(HeldCalls', SeqNums(flushQ'), SeqNums(rv'.tasks), FlNums') \subseteq
           AllOf(HeldCalls, SeqNums(flushQ), SeqNums(rv.tasks), FlNums)
  BY <1>2, <1>3, DisjointFewer
<1>5. TasksApart'
  BY <1>4 DEF TasksApart
<1>6. TaskNums' \subseteq TaskNums
  BY <1>4 DEF TaskNums
<1>7. TasksFresh'
  <2>1. nextFileNum \in Nat /\ nextFileNum' \in Nat /\ TaskNums \subseteq Nat
    BY TaskNumTypes DEF TypeInv, Counters
  <2>2. \A n \in TaskNums : n < nextFileNum /\ <<0, n>> \notin Used
    BY DEF FirstRun, TasksFresh
  <2> SUFFICES ASSUME NEW k \in TaskNums' PROVE k < nextFileNum' /\ <<0, k>> \notin Used'
    BY DEF TasksFresh
  <2> DEFINE p == <<0, k>>
  <2>3. k \in TaskNums => k \in Nat /\ k < nextFileNum /\ p \notin Used
    BY <2>1, <2>2
  <2> HIDE DEF p
  <2>4. k \in TaskNums => k < nextFileNum' /\ p \notin Used'
    BY <2>1, <2>3
  <2> QED
    BY <1>6, <2>4 DEF p
<1> QED
  BY <1>5, <1>7

\* One number is new or changes hands.
LEMMA NumbersMove ==
  ASSUME TypeInv, TypeInv', FirstRun, nextFileNum <= nextFileNum', Used' \subseteq Used,
         NEW n, n < nextFileNum', <<0, n>> \notin Used',
         \A c \in Clients : CallNums(cl'[c]) \subseteq CallNums(cl[c]) \cup {n} /\ CallApart(cl'[c]),
         Apart(flushQ'), SeqNums(flushQ') \subseteq SeqNums(flushQ) \cup {n},
         SeqNums(rv'.tasks) \subseteq SeqNums(rv.tasks) \cup {n}, FlNums' \subseteq FlNums \cup {n},
         \A c \in Clients : n \in CallNums(cl'[c]) =>
            /\ n \notin SeqNums(flushQ') \cup SeqNums(rv'.tasks) \cup FlNums'
            /\ \A d \in Clients : n \in CallNums(cl'[d]) => c = d,
         n \in SeqNums(flushQ') => n \notin SeqNums(rv'.tasks) \cup FlNums',
         n \in SeqNums(rv'.tasks) => n \notin FlNums'
  PROVE  TasksApart' /\ TasksFresh'
<1> DEFINE C == HeldCalls
           D == HeldCalls'
           Q == SeqNums(flushQ)
           R == SeqNums(rv.tasks)
           Q2 == SeqNums(flushQ')
           R2 == SeqNums(rv'.tasks)
           F2 == FlNums'
<1>1. \A c \in Clients : C[c] = CallNums(cl[c]) /\ D[c] = CallNums(cl'[c])
  BY DEF HeldCalls
<1>2. Disjoint(C, Q, R, FlNums)
  BY DEF FirstRun, TasksApart
<1>3. /\ \A c \in Clients : D[c] \subseteq C[c] \cup {n}
      /\ \A c \in Clients : n \in D[c] => n \notin Q2 \cup R2 \cup F2 /\ \A d \in Clients : n \in D[d] => c = d
  BY <1>1
<1>4. /\ Q2 \subseteq Q \cup {n} /\ R2 \subseteq R \cup {n} /\ F2 \subseteq FlNums \cup {n}
      /\ (n \in Q2 => n \notin R2 \cup F2) /\ (n \in R2 => n \notin F2)
  OBVIOUS
<1> HIDE DEF C, D, Q, R, Q2, R2, F2
<1>5. Disjoint(D, Q2, R2, F2)
  BY <1>2, <1>3, <1>4, DisjointMove
<1>6. AllOf(D, Q2, R2, F2) \subseteq AllOf(C, Q, R, FlNums) \cup {n}
  <2> DEFINE U == UNION {C[c] : c \in Clients}
             V == UNION {D[c] : c \in Clients}
  <2>1. \A c \in Clients : C[c] \subseteq U
    OBVIOUS
  <2>2. ASSUME NEW x \in V PROVE \E c \in Clients : x \in D[c]
    BY <2>2
  <2>3. /\ AllOf(D, Q2, R2, F2) = V \cup Q2 \cup R2 \cup F2
        /\ AllOf(C, Q, R, FlNums) = U \cup Q \cup R \cup FlNums
    BY Zenon DEF AllOf
  <2> HIDE DEF U, V
  <2> QED
    BY <1>3, <1>4, <2>1, <2>2, <2>3
<1>7. TasksApart'
  BY <1>5 DEF TasksApart, D, Q2, R2, F2
<1>8. TaskNums' \subseteq TaskNums \cup {n}
  BY <1>6 DEF TaskNums, C, D, Q, R, Q2, R2, F2
<1>9. TasksFresh'
  <2>1. nextFileNum \in Nat /\ nextFileNum' \in Nat /\ TaskNums \subseteq Nat
    BY TaskNumTypes DEF TypeInv, Counters
  <2>2. \A k \in TaskNums : k < nextFileNum /\ <<0, k>> \notin Used
    BY DEF FirstRun, TasksFresh
  <2> SUFFICES ASSUME NEW k \in TaskNums' PROVE k < nextFileNum' /\ <<0, k>> \notin Used'
    BY DEF TasksFresh
  <2> DEFINE p == <<0, k>>
  <2>3. k \in TaskNums => k \in Nat /\ k < nextFileNum /\ p \notin Used
    BY <2>1, <2>2
  <2> HIDE DEF p
  <2>4. k \in TaskNums => k < nextFileNum' /\ p \notin Used'
    BY <2>1, <2>3
  <2> QED
    BY <1>8, <2>4 DEF p
<1> QED
  BY <1>7, <1>9

----------------------------------------------------------------------------
\* What a compaction has does not change in a step of somebody else that leaves the
\* tree alone.
LEMMA JobFrame ==
  ASSUME TypeInv, TypeInv', JobInv, levels' = levels, Listed' = Listed, LiveTables' = LiveTables,
         Used' \subseteq Used, nextFileNum <= nextFileNum', job' = job,
         job.pc = "install" => KeepsFiles(Paths(job.outs))
  PROVE  JobInv'
<1>1. nextFileNum \in Nat /\ nextFileNum' \in Nat /\ job.out \in Nat /\ job.outs \in Seq(Tables)
  BY DEF TypeInv, Counters, Jobs
<1>2. job.pc = "begin" => ToSet(job.inputs) \subseteq TablesAt(job.level)'
  BY DEF JobInv, TablesAt
<1>3. job.pc \in {"begin", "merge"} => job.out < nextFileNum' /\ OutPath' \notin Used'
  BY <1>1 DEF JobInv, OutPath
<1>4. job.pc \in {"merge", "install"} => ToSet(job.all) \subseteq LiveTables'
  BY DEF JobInv
<1>5. job.pc = "remove" => \A t \in Listed' : PathOf(t) \notin Paths(job.all)
  BY DEF JobInv
<1>6. ASSUME job.pc = "install", NEW t \in ToSet(job.outs)
      PROVE  t.level = job.level + 1 /\ t.num < nextFileNum' /\ PathOf(t) \notin Used' /\ Whole(t)'
  <2>1. t.level = job.level + 1 /\ t.num < nextFileNum /\ PathOf(t) \notin Used /\ Whole(t)
    BY <1>6 DEF JobInv
  <2>2. t \in Tables
    BY <1>1, InToSet
  <2>3. t.num \in Nat
    BY <2>2, PathTypes
  <2>4. PathOf(t) \in Paths(job.outs)
    BY <1>1, PathsOf
  <2>5. Whole(t)'
    BY <1>6, <2>1, <2>4, StaysWhole
  <2> QED
    BY <1>1, <2>1, <2>3, <2>5
<1>7. job.pc = "install" => Apart(job.outs)
  BY DEF JobInv
<1> QED
  BY <1>2, <1>3, <1>4, <1>5, <1>6, <1>7 DEF JobInv

\* A step of a client, the flusher or recovery that leaves the tree alone.
LEMMA RunStep ==
  ASSUME TypeInv, TypeInv', FirstRun, IsUp, levels' = levels, manifest'.levels = manifest.levels,
         starts' = starts, nextFileNum <= nextFileNum', faults <= faults', UNCHANGED <<job, isCompacting>>,
         KeepsFiles({PathOf(t) : t \in Listed}), job.pc = "install" => KeepsFiles(Paths(job.outs)),
         FlushedWhole', NoReplay', TasksApart' /\ TasksFresh'
  PROVE  FirstRun'
<1>1. job' = job \/ job'.pc # "remove"
  OBVIOUS
<1>2. /\ UsedBelow' /\ LevelsApart' /\ WholeTables' /\ Fresh' /\ Mirrored'
      /\ Used' \subseteq Used /\ Listed' = Listed /\ LiveTables' = LiveTables
  BY <1>1, TreeStep
<1>3. JobInv'
  BY <1>2, JobFrame DEF FirstRun
<1>4. FlagOwned'
  BY DEF FirstRun, FlagOwned, TypeInv, Counters
<1> QED
  BY <1>2, <1>3, <1>4 DEF FirstRun

\* The files in use, when the tree and the compaction stay.
LEMMA UsedSame ==
  ASSUME levels' = levels, manifest'.levels = manifest.levels, job' = job PROVE Used' \subseteq Used
<1>1. Listed' = Listed
  BY DEF Listed, LiveTables, ManifestTables, TablesAt
<1> QED
  BY <1>1 DEF Used

\* A step without a file operation on tables, of a client or of recovery, in which
\* nobody draws or hands over a number of a table.
LEMMA PlainStep ==
  ASSUME TypeInv, TypeInv', FirstRun, IsUp, levels' = levels, manifest'.levels = manifest.levels,
         starts' = starts, nextFileNum <= nextFileNum', faults <= faults',
         UNCHANGED <<job, isCompacting, files, fl, flushQ>>,
         \A c \in Clients : CallNums(cl'[c]) \subseteq CallNums(cl[c]) /\ CallApart(cl'[c]),
         NoReplay', SeqNums(rv'.tasks) \subseteq SeqNums(rv.tasks)
  PROVE  FirstRun'
<1>1. KeepsFiles({PathOf(t) : t \in Listed}) /\ KeepsFiles(Paths(job.outs))
  BY DEF KeepsFiles
<1>2. FlushedWhole'
  BY DEF FirstRun, FlushedWhole
<1>3. Used' \subseteq Used
  BY UsedSame
<1>4. /\ Apart(flushQ') /\ SeqNums(flushQ') \subseteq SeqNums(flushQ) /\ FlNums' \subseteq FlNums
  BY DEF FirstRun, TasksApart, FlNums
<1>5. TasksApart' /\ TasksFresh'
  BY <1>3, <1>4, NumbersStep
<1> QED
  BY <1>1, <1>2, <1>5, RunStep

----------------------------------------------------------------------------
\* A call without rotated memtables.
LEMMA NothingPending ==
  ASSUME NEW r, r.pc # "send", r.tasks = <<>> \/ r.pc # "apply"
  PROVE  CallNums(r) = {} /\ CallApart(r)
<1>1. CASE r.pc \notin {"apply", "send"}
  BY <1>1 DEF Pending, CallNums, CallApart
<1>2. CASE r.pc = "apply" /\ r.tasks = <<>>
  BY <1>2 DEF Pending, CallNums, CallApart
<1> QED
  BY <1>1, <1>2

\* A call goes on, or begins or ends, without rotated memtables.
LEMMA QuietCall ==
  ASSUME TypeInv, TypeInv', FirstRun, IsUp, NEW c \in Clients, NEW r, Become(c, r),
         r.pc # "send", r.tasks = <<>> \/ r.pc # "apply",
         UNCHANGED <<levels, manifest, starts, nextFileNum, job, isCompacting, files, fl, flushQ, rv>>,
         faults <= faults'
  PROVE  FirstRun'
<1>1. CallNums(r) = {} /\ CallApart(r)
  BY NothingPending
<1>2. \A d \in Clients : cl'[d] = IF d = c THEN r ELSE cl[d]
  BY DEF Become, TypeInv, CallTypes
<1>3. \A d \in Clients : CallApart(cl[d])
  BY DEF FirstRun, TasksApart
<1>4. \A d \in Clients : CallNums(cl'[d]) \subseteq CallNums(cl[d]) /\ CallApart(cl'[d])
  BY <1>1, <1>2, <1>3
<1>5. nextFileNum <= nextFileNum' /\ manifest'.levels = manifest.levels /\ SeqNums(rv'.tasks) \subseteq SeqNums(rv.tasks)
      /\ NoReplay'
  BY DEF TypeInv, Counters, FirstRun, NoReplay
<1> QED
  BY <1>4, <1>5, PlainStep

\* Counting faults.
LEMMA CountGrows == ASSUME Counters, NEW fault, Count(fault) PROVE faults <= faults'
BY DEF Counters, Count

\* A call that writes begins: it has no task yet.
LEMMA StartFirst ==
  ASSUME TypeInv, TypeInv', FirstRun, NEW c \in Clients, NEW op, NEW pc, pc \notin {"send"}, NEW recs,
         Start(c, op, pc, recs)
  PROVE  FirstRun'
<1> USE DEF ctlVars, memVars, walVars, vsVars, compVars, histVars
<1> DEFINE r == [Idle EXCEPT !.op = op, !.pc = pc, !.recs = recs]
<1>1. r.pc = pc /\ r.tasks = <<>>
  BY DEF Idle
<1>2. Become(c, r) /\ IsUp
  BY DEF Start, IsUp
<1> HIDE DEF r
<1>3. /\ UNCHANGED <<levels, manifest, starts, nextFileNum, job, isCompacting, files, fl, flushQ, rv>>
      /\ faults <= faults'
  BY DEF Start, TypeInv, Counters
<1> QED
  BY <1>1, <1>2, <1>3, QuietCall

\* Put, Delete and WriteBatch begin.
LEMMA WriteFirst ==
  ASSUME TypeInv, TypeInv', FirstRun, NEW c \in Clients, Put(c) \/ Delete(c) \/ WriteBatch(c)
  PROVE  FirstRun'
<1>1. AfterStall # "send"
  BY DEF AfterStall
<1>2. PICK op, pc, recs : pc # "send" /\ Start(c, op, pc, recs)
  BY <1>1 DEF Put, Delete, WriteBatch
<1> QED
  BY <1>2, StartFirst

\* The steps of a call that touch no file and draw no number.
LEMMA WaitingFirst ==
  ASSUME TypeInv, TypeInv', FirstRun, NEW c \in Clients, Stall(c) \/ ReadWal(c) \/ SyncReturn(c) \/ Close(c)
  PROVE  FirstRun'
<1> USE DEF ctlVars, memVars, walVars, vsVars, compVars, histVars
<1>1. cl[c] \in Calls(issued) /\ CallShape(cl[c])
  BY DEF TypeInv, CallTypes
<1>2. IsUp
  BY UpFacts DEF Stall, ReadWal, SyncReturn, Close, IsUp
<1>3. PICK r : Become(c, r) /\ r.pc # "send" /\ (r.tasks = <<>> \/ r.pc # "apply")
  <2>1. CASE Stall(c)
    <3> DEFINE r == [cl[c] EXCEPT !.pc = AfterStall]
    <3>1. r.pc = AfterStall /\ r.tasks = <<>>
      BY <1>1, <2>1 DEF Stall, Calls, CallShape
    <3>2. AfterStall # "send" /\ Become(c, r)
      BY <2>1 DEF Stall, AfterStall
    <3> QED
      BY <3>1, <3>2
  <2>2. CASE ReadWal(c)
    <3> DEFINE r == [cl[c] EXCEPT !.pc = "append", !.wal = wal]
    <3>1. r.pc = "append" /\ Become(c, r)
      BY <1>1, <2>2 DEF ReadWal, Calls
    <3> QED
      BY <3>1
  <2>3. CASE SyncReturn(c)
    BY <2>3 DEF SyncReturn, Idle
  <2>4. CASE Close(c)
    <3> DEFINE r == [Idle EXCEPT !.op = "close", !.pc = "rotate"]
    <3>1. r.pc = "rotate" /\ Become(c, r)
      BY <2>4 DEF Close, Idle
    <3> QED
      BY <3>1
  <2> QED
    BY <2>1, <2>2, <2>3, <2>4
<1>4. /\ UNCHANGED <<levels, manifest, starts, nextFileNum, job, isCompacting, files, fl, flushQ, rv>>
      /\ faults <= faults'
  BY DEF Stall, ReadWal, SyncReturn, Close, TypeInv, Counters
<1> QED
  BY <1>2, <1>3, <1>4, QuietCall

\* Append writes to a log: no table is touched.
LEMMA AppendWalFirst ==
  ASSUME TypeInv, TypeInv', FirstRun, NEW c \in Clients, AppendWal(c)
  PROVE  FirstRun'
<1> USE DEF ctlVars, memVars, walVars, vsVars, compVars, histVars
<1>1. PICK fault : /\ cl[c].pc = "append" /\ Count(fault)
                   /\ Become(c, Idle) \/ Become(c, [cl[c] EXCEPT !.pc = "apply"])
                   /\ UNCHANGED <<levels, manifest, starts, nextFileNum, job, isCompacting, files, fl, flushQ, rv>>
  BY DEF AppendWal
<1>2. cl[c] \in Calls(issued) /\ CallShape(cl[c]) /\ IsUp
  BY <1>1, UpFacts DEF TypeInv, CallTypes
<1>3. faults <= faults'
  BY <1>1, CountGrows DEF TypeInv
<1>4. CASE Become(c, Idle)
  <2>1. Idle.pc # "send" /\ Idle.tasks = <<>>
    BY DEF Idle
  <2> QED
    BY <1>1, <1>2, <1>3, <1>4, <2>1, QuietCall
<1>5. CASE Become(c, [cl[c] EXCEPT !.pc = "apply"])
  <2> DEFINE r == [cl[c] EXCEPT !.pc = "apply"]
  <2>1. r.pc # "send" /\ r.tasks = <<>> /\ Become(c, r)
    BY <1>1, <1>2, <1>5 DEF Calls, CallShape
  <2> HIDE DEF r
  <2> QED
    BY <1>1, <1>2, <1>3, <2>1, QuietCall
<1> QED
  BY <1>1, <1>4, <1>5

\* Sync fsyncs the log: no table is touched.
LEMMA SyncFirst ==
  ASSUME TypeInv, TypeInv', FirstRun, NEW c \in Clients, Sync(c)
  PROVE  FirstRun'
<1> USE DEF ctlVars, memVars, walVars, vsVars, compVars, histVars
<1>1. PICK fault : /\ IsUp /\ Count(fault)
                   /\ Become(c, Idle) \/ Become(c, [Idle EXCEPT !.op = "sync", !.pc = "rotate"])
                   /\ UNCHANGED <<levels, manifest, starts, nextFileNum, job, isCompacting, files, fl, flushQ, rv>>
  BY DEF Sync, IsUp
<1>2. PICK r : Become(c, r) /\ r.pc # "send" /\ r.tasks = <<>>
  <2> DEFINE r == [Idle EXCEPT !.op = "sync", !.pc = "rotate"]
  <2>1. Idle.pc # "send" /\ Idle.tasks = <<>> /\ r.pc # "send" /\ r.tasks = <<>>
    BY DEF Idle
  <2> QED
    BY <1>1, <2>1
<1>3. faults <= faults'
  BY <1>1, CountGrows DEF TypeInv
<1> QED
  BY <1>1, <1>2, <1>3, QuietCall

----------------------------------------------------------------------------
\* Creating a file keeps those at other paths.
LEMMA CreateKeeps ==
  ASSUME NEW q, NEW v, files' = Create(files, q, v), NEW P, q \notin P
  PROVE  KeepsFiles(P)
BY DEF KeepsFiles, Create, Overlay

\* A file whose number has not been drawn yet is not in use, and nobody is writing it.
LEMMA NewPath ==
  ASSUME TypeInv, FirstRun, IsUp, NEW l, NEW n \in Nat, nextFileNum <= n
  PROVE  /\ <<l, n>> \notin Used
         /\ job.pc = "install" => <<l, n>> \notin Paths(job.outs)
         /\ n \notin TaskNums
<1> DEFINE q == <<l, n>>
<1>1. q[2] = n /\ nextFileNum \in Nat
  BY DEF TypeInv, Counters
<1> HIDE DEF q
<1>2. q \notin Used
  BY <1>1, UsedTypes DEF FirstRun, UsedBelow
<1>3. job.pc = "install" => q \notin Paths(job.outs)
  <2> SUFFICES ASSUME job.pc = "install", q \in Paths(job.outs) PROVE FALSE
    OBVIOUS
  <2>1. job.outs \in Seq(Tables)
    BY DEF TypeInv, Jobs
  <2>2. PICK t \in ToSet(job.outs) : q = PathOf(t)
    BY <2>1, PathsOf
  <2>3. t.num < nextFileNum
    BY DEF FirstRun, JobInv
  <2>4. t \in Tables
    BY <2>1, InToSet
  <2>5. q[2] = t.num /\ t.num \in Nat
    BY <2>2, <2>4, PathTypes
  <2> QED
    BY <1>1, <2>3, <2>5
<1>4. n \notin TaskNums
  <2>1. \A k \in TaskNums : k < nextFileNum
    BY DEF FirstRun, TasksFresh
  <2> QED
    BY <1>1, <2>1
<1> QED
  BY <1>2, <1>3, <1>4 DEF q

\* rotate draws new numbers and leaves every file in use alone.
LEMMA RotateKeeps ==
  ASSUME TypeInv, FirstRun, IsUp, fl' = fl, NEW m \in (SUBSET issued) \ {{}}, NEW fault, rotate(m, fault),
         issued' = issued
  PROVE  /\ levels' = levels /\ manifest'.levels = manifest.levels
         /\ nextFileNum <= nextFileNum'
         /\ KeepsFiles({PathOf(t) : t \in Listed})
         /\ job.pc = "install" => KeepsFiles(Paths(job.outs))
         /\ FlushedWhole'
         /\ TableNum \in Nat /\ TableNum \notin TaskNums /\ <<0, TableNum>> \notin Used
         /\ fault # "wal" => TableNum < nextFileNum'
<1>1. levels' = levels /\ manifest'.levels = manifest.levels
  BY RotateTypes DEF TypeInv, Counters
<1>2. TableNum \in Nat /\ nextFileNum \in Nat /\ nextFileNum <= TableNum
  BY ConstantTypes DEF TableNum, TypeInv, Counters
<1>3. nextFileNum <= nextFileNum' /\ (fault # "wal" => TableNum < nextFileNum')
  BY <1>2 DEF rotate
<1> DEFINE q == <<0, TableNum>>
<1>4. q \notin Used /\ TableNum \notin TaskNums /\ (job.pc = "install" => q \notin Paths(job.outs))
  BY <1>2, NewPath
<1>5. q \notin {PathOf(t) : t \in Listed}
  BY <1>4, InUse
<1>6. fl.pc = "install" => <<0, fl.task.num>> # q
  <2>1. fl.pc = "install" => fl.task.num \in TaskNums
    BY TaskNumTypes DEF FlNums
  <2> QED
    BY <1>4, <2>1
<1>7. files' = files \/ files' = Create(files, q, {})
  BY DEF rotate
<1>8. /\ KeepsFiles({PathOf(t) : t \in Listed})
      /\ job.pc = "install" => KeepsFiles(Paths(job.outs))
      /\ fl.pc = "install" => KeepsFiles({<<0, fl.task.num>>})
  <2> HIDE DEF q
  <2>1. CASE files' = files
    BY <2>1 DEF KeepsFiles
  <2>2. CASE files' = Create(files, q, {})
    BY <1>4, <1>5, <1>6, <2>2, CreateKeeps
  <2> QED
    BY <1>7, <2>1, <2>2
<1>9. FlushedWhole'
  BY <1>8 DEF FirstRun, FlushedWhole, KeepsFiles
<1> QED
  BY <1>1, <1>2, <1>3, <1>4, <1>8, <1>9

\* A call whose memtables are all still to be sent.
LEMMA AllPending ==
  ASSUME NEW r, r.pc = "apply" \/ (r.pc = "send" /\ r.i = 1)
  PROVE  CallNums(r) = SeqNums(r.tasks) /\ (CallApart(r) <=> Apart(r.tasks))
<1>1. Pending(r) = 1..Len(r.tasks)
  BY DEF Pending
<1> QED
  BY <1>1 DEF CallNums, CallApart, SeqNums, Apart

\* A client's call rotates the memtable, and has the new task to send or, if rotate
\* has failed, none.
LEMMA RotatingCallFirst ==
  ASSUME TypeInv, TypeInv', FirstRun, IsUp, NEW c \in Clients, NEW r, Become(c, r),
         NEW m \in (SUBSET issued) \ {{}}, NEW fault, rotate(m, fault), issued' = issued,
         fault = "wal" => CallNums(r) \subseteq CallNums(cl[c]),
         CallNums(r) \subseteq CallNums(cl[c]) \cup {TableNum}, CallApart(r),
         UNCHANGED <<starts, job, isCompacting, fl, flushQ, rv>>, faults <= faults'
  PROVE  FirstRun'
<1>1. /\ levels' = levels /\ manifest'.levels = manifest.levels
      /\ nextFileNum <= nextFileNum'
      /\ KeepsFiles({PathOf(t) : t \in Listed})
      /\ job.pc = "install" => KeepsFiles(Paths(job.outs))
      /\ FlushedWhole'
      /\ TableNum \in Nat /\ TableNum \notin TaskNums /\ <<0, TableNum>> \notin Used
      /\ fault # "wal" => TableNum < nextFileNum'
  BY RotateKeeps
<1>2. Used' \subseteq Used
  BY <1>1, UsedSame
<1>3. \A d \in Clients : cl'[d] = IF d = c THEN r ELSE cl[d]
  BY DEF Become, TypeInv, CallTypes
<1>4. \A d \in Clients : CallApart(cl[d])
  BY DEF FirstRun, TasksApart
<1>5. Apart(flushQ') /\ SeqNums(flushQ') = SeqNums(flushQ) /\ FlNums' = FlNums /\ SeqNums(rv'.tasks) = SeqNums(rv.tasks)
  BY DEF FirstRun, TasksApart, FlNums
<1>6. TasksApart' /\ TasksFresh'
  <2>1. CASE fault = "wal"
    <3>1. \A d \in Clients : CallNums(cl'[d]) \subseteq CallNums(cl[d]) /\ CallApart(cl'[d])
      BY <1>3, <1>4, <2>1
    <3> QED
      BY <1>1, <1>2, <1>5, <3>1, NumbersStep
  <2>2. CASE fault # "wal"
    <3> DEFINE n == TableNum
    <3>1. /\ n \notin SeqNums(flushQ) \cup SeqNums(rv.tasks) \cup FlNums
          /\ \A d \in Clients : n \notin CallNums(cl[d])
      BY <1>1, TaskNumTypes
    <3>2. n < nextFileNum' /\ <<0, n>> \notin Used'
      BY <1>1, <1>2, <2>2
    <3> HIDE DEF n
    <3>3. \A d \in Clients : CallNums(cl'[d]) \subseteq CallNums(cl[d]) \cup {n} /\ CallApart(cl'[d])
      BY <1>3, <1>4 DEF n
    <3>4. \A d \in Clients : n \in CallNums(cl'[d]) =>
            /\ n \notin SeqNums(flushQ') \cup SeqNums(rv'.tasks) \cup FlNums'
            /\ \A e \in Clients : n \in CallNums(cl'[e]) => d = e
      BY <1>3, <1>5, <3>1
    <3>5. /\ n \in SeqNums(flushQ') => n \notin SeqNums(rv'.tasks) \cup FlNums'
          /\ n \in SeqNums(rv'.tasks) => n \notin FlNums'
          /\ SeqNums(flushQ') \subseteq SeqNums(flushQ) \cup {n} /\ SeqNums(rv'.tasks) \subseteq SeqNums(rv.tasks) \cup {n}
          /\ FlNums' \subseteq FlNums \cup {n}
      BY <1>5, <3>1
    <3> QED
      BY <1>1, <1>2, <1>5, <3>2, <3>3, <3>4, <3>5, NumbersMove
  <2> QED
    BY <2>1, <2>2
<1>7. NoReplay'
  BY DEF FirstRun, NoReplay
<1> QED
  BY <1>1, <1>6, <1>7, RunStep

\* The insertion of a record by a client, or of rotating a memtable in Sync and Close.
LEMMA ApplyFirst == ASSUME TypeInv, TypeInv', FirstRun, NEW c \in Clients, Apply(c) PROVE FirstRun'
<1> USE DEF ctlVars, memVars, walVars, vsVars, compVars, histVars
<1> DEFINE call == cl[c]
           m    == mt \cup {call.recs[call.i]}
           full == Cardinality(m) >= MemtableSize
           last == call.i = Len(call.recs)
           tasks == IF full THEN Append(call.tasks, RotateTask(m)) ELSE call.tasks
           r1 == [call EXCEPT !.i = @ + 1, !.tasks = tasks]
           r2 == [call EXCEPT !.pc = "send", !.i = 1, !.tasks = tasks]
<1>1. PICK fault :
        /\ call.pc = "apply" /\ Count(fault) /\ (~full => fault = "none")
        /\ IF full THEN rotate(m, fault) ELSE UNCHANGED <<levels, manifest, nextFileNum, files>>
        /\ \/ Become(c, Idle)
           \/ fault \notin {"wal", "table"} /\ (Become(c, r1) \/ Become(c, r2))
        /\ UNCHANGED <<starts, job, isCompacting, fl, flushQ, rv, issued>>
  <2>1. PICK fault :
        /\ call.pc = "apply" /\ Count(fault) /\ (~full => fault = "none")
        /\ IF full THEN rotate(m, fault)
           ELSE mt' = m /\ UNCHANGED <<immt, walVars, vsVars, nextFileNum, files>>
        /\ Become(c, IF fault \in {"wal", "table"} THEN Idle
                    ELSE IF ~last THEN [call EXCEPT !.i = @ + 1, !.tasks = tasks]
                    ELSE IF tasks = <<>> THEN Idle
                    ELSE [call EXCEPT !.pc = "send", !.i = 1, !.tasks = tasks])
        /\ UNCHANGED <<ctlVars, seqNum, flushQ, fl, compVars, snaps, rv, issued>>
    BY Zenon DEF Apply
  <2> HIDE DEF m, full, last, tasks, call
  <2> QED
    BY <2>1
<1>2. call \in Calls(issued) /\ CallShape(call) /\ IsUp
  BY <1>1, UpFacts DEF TypeInv, CallTypes
<1>3. m \in (SUBSET issued) \ {{}}
  <2>1. call.recs \in Seq(issued) /\ call.i \in 1..Len(call.recs) /\ mt \subseteq issued
    BY <1>1, <1>2 DEF Calls, CallShape, TypeInv, MemTypes
  <2> QED
    BY <2>1
<1>4. call.tasks \in Seq(Tasks(issued)) /\ CallNums(call) = SeqNums(call.tasks) /\ Apart(call.tasks)
  <2>1. CallApart(call)
    BY DEF FirstRun, TasksApart
  <2> QED
    BY <1>1, <1>2, <2>1, AllPending DEF Calls
<1>5. faults <= faults'
  BY <1>1, CountGrows DEF TypeInv
<1>6. Idle.pc # "send" /\ Idle.tasks = <<>>
  BY DEF Idle
<1>7. /\ r1.pc = "apply" /\ r1.tasks = tasks
      /\ r2.pc = "send" /\ r2.i = 1 /\ r2.tasks = tasks
  <2> HIDE DEF tasks
  <2> QED
    BY <1>1, <1>2 DEF Calls
<1> HIDE DEF r1, r2
<1>8. /\ CallNums(r1) = SeqNums(tasks) /\ (CallApart(r1) <=> Apart(tasks))
      /\ CallNums(r2) = SeqNums(tasks) /\ (CallApart(r2) <=> Apart(tasks))
  BY <1>7, AllPending
<1>9. PICK r : /\ Become(c, r)
               /\ r = Idle \/ (fault \notin {"wal", "table"} /\ CallNums(r) = SeqNums(tasks) /\ (CallApart(r) <=> Apart(tasks)))
  BY <1>1, <1>8, Zenon
<1>10. CallNums(Idle) = {} /\ CallApart(Idle)
  BY <1>6, NothingPending
<1>11. CASE full
  <2>1. TableNum \in Nat /\ TableNum \notin TaskNums
    BY <1>1, <1>2, <1>3, <1>11, RotateKeeps
  <2>2. RotateTask(m) \in Tasks(issued) /\ RotateTask(m).num = TableNum
    <3>1. RotateTask(m) \in Tasks(issued)
      BY <1>1, <1>3, <1>11, RotateTypes DEF TypeInv, Counters
    <3> QED
      BY <3>1 DEF RotateTask, Task
  <2>3. TableNum \notin SeqNums(call.tasks)
    BY <1>4, <2>1, TaskNumTypes
  <2>4. tasks = Append(call.tasks, RotateTask(m))
    BY <1>11
  <2> HIDE DEF m, call, tasks, full
  <2>5. Apart(tasks) /\ SeqNums(tasks) = SeqNums(call.tasks) \cup {TableNum}
    BY <1>4, <2>2, <2>3, <2>4, QueueAppend
  <2>6. CallApart(r) /\ CallNums(r) \subseteq CallNums(call) \cup {TableNum}
        /\ (fault = "wal" => CallNums(r) \subseteq CallNums(call))
    BY <1>4, <1>9, <1>10, <2>5
  <2>7. rotate(m, fault) /\ issued' = issued /\ UNCHANGED <<starts, job, isCompacting, fl, flushQ, rv>>
    BY <1>1, <1>11
  <2> QED
    BY <1>2, <1>3, <1>5, <1>9, <2>6, <2>7, RotatingCallFirst DEF call
<1>12. CASE ~full
  <2>1. tasks = call.tasks
    BY <1>12
  <2>2. UNCHANGED <<levels, manifest, nextFileNum, files, starts, job, isCompacting, fl, flushQ, rv>>
    BY <1>1, <1>12
  <2> HIDE DEF m, tasks, full
  <2>3. CallApart(r) /\ CallNums(r) \subseteq CallNums(call)
    BY <1>4, <1>9, <1>10, <2>1
  <2>4. \A d \in Clients : cl'[d] = IF d = c THEN r ELSE cl[d]
    BY <1>9 DEF Become, TypeInv, CallTypes
  <2>5. \A d \in Clients : CallApart(cl[d])
    BY DEF FirstRun, TasksApart
  <2>6. \A d \in Clients : CallNums(cl'[d]) \subseteq CallNums(cl[d]) /\ CallApart(cl'[d])
    BY <2>3, <2>4, <2>5
  <2>7. nextFileNum <= nextFileNum' /\ manifest'.levels = manifest.levels /\ SeqNums(rv'.tasks) \subseteq SeqNums(rv.tasks)
    BY <2>2 DEF TypeInv, Counters
  <2>8. NoReplay'
    BY <2>2 DEF FirstRun, NoReplay
  <2> QED
    BY <1>2, <1>5, <2>2, <2>8, <2>6, <2>7, PlainStep
<1> QED
  BY <1>11, <1>12

\* Sync and Close rotate the memtable: its table gets a new number.
LEMMA RotateForSyncFirst ==
  ASSUME TypeInv, TypeInv', FirstRun, NEW c \in Clients, RotateForSync(c) PROVE FirstRun'
<1> USE DEF ctlVars, memVars, walVars, vsVars, compVars, histVars
<1> DEFINE call == cl[c]
           r1 == [call EXCEPT !.pc = "wait"]
           r2 == [call EXCEPT !.pc = "send", !.tasks = <<RotateTask(mt)>>]
<1>1. PICK fault :
        /\ call.pc = "rotate" /\ Count(fault)
        /\ \/ /\ Become(c, Idle) \/ Become(c, r1)
              /\ UNCHANGED <<levels, manifest, nextFileNum, files>>
           \/ /\ mt # {} /\ rotate(mt, fault)
              /\ Become(c, Idle) \/ (fault \notin {"wal", "table"} /\ Become(c, r2))
        /\ UNCHANGED <<starts, job, isCompacting, fl, flushQ, rv, issued>>
  BY DEF RotateForSync
<1>2. call \in Calls(issued) /\ CallShape(call) /\ IsUp
  BY <1>1, UpFacts DEF TypeInv, CallTypes
<1>3. faults <= faults'
  BY <1>1, CountGrows DEF TypeInv
<1>4. Idle.pc # "send" /\ Idle.tasks = <<>>
  BY DEF Idle
<1>5. CallNums(Idle) = {} /\ CallApart(Idle)
  BY <1>4, NothingPending
<1>6. CASE /\ Become(c, Idle) \/ Become(c, r1)
           /\ UNCHANGED <<levels, manifest, nextFileNum, files>>
  <2>1. r1.pc = "wait"
    BY <1>2 DEF Calls
  <2>2. PICK r : Become(c, r) /\ r.pc # "send" /\ (r.tasks = <<>> \/ r.pc # "apply")
    BY <1>4, <1>6, <2>1
  <2> QED
    BY <1>1, <1>2, <1>3, <1>6, <2>2, QuietCall
<1>7. CASE /\ mt # {} /\ rotate(mt, fault)
           /\ Become(c, Idle) \/ (fault \notin {"wal", "table"} /\ Become(c, r2))
  <2>1. mt \in (SUBSET issued) \ {{}}
    BY <1>7 DEF TypeInv, MemTypes
  <2>2. r2.pc = "send" /\ r2.i = 1 /\ r2.tasks = <<RotateTask(mt)>>
    BY <1>1, <1>2 DEF Calls, CallShape
  <2>3. RotateTask(mt).num = TableNum
    BY DEF RotateTask, Task
  <2>4. Apart(<<RotateTask(mt)>>) /\ SeqNums(<<RotateTask(mt)>>) = {TableNum}
    BY <2>3 DEF Apart, SeqNums
  <2> HIDE DEF r2
  <2>5. CallNums(r2) = {TableNum} /\ CallApart(r2)
    BY <2>2, <2>4, AllPending
  <2>6. PICK r : /\ Become(c, r) /\ CallApart(r) /\ CallNums(r) \subseteq CallNums(call) \cup {TableNum}
                 /\ fault = "wal" => CallNums(r) \subseteq CallNums(call)
    BY <1>5, <1>7, <2>5
  <2> QED
    BY <1>1, <1>2, <1>3, <1>7, <2>1, <2>6, RotatingCallFirst
<1> QED
  BY <1>1, <1>6, <1>7

----------------------------------------------------------------------------
\* A number has one holder, and it is new.
LEMMA Holders ==
  ASSUME TypeInv, FirstRun
  PROVE  /\ \A c \in Clients : CallNums(cl[c]) \cap (SeqNums(flushQ) \cup SeqNums(rv.tasks) \cup FlNums) = {}
         /\ \A c, d \in Clients : c # d => CallNums(cl[c]) \cap CallNums(cl[d]) = {}
         /\ SeqNums(flushQ) \cap (SeqNums(rv.tasks) \cup FlNums) = {} /\ SeqNums(rv.tasks) \cap FlNums = {}
         /\ \A n \in TaskNums : n \in Nat /\ n < nextFileNum /\ <<0, n>> \notin Used
<1>1. Disjoint(HeldCalls, SeqNums(flushQ), SeqNums(rv.tasks), FlNums)
  BY DEF FirstRun, TasksApart
<1>2. \A c \in Clients : HeldCalls[c] = CallNums(cl[c])
  BY DEF HeldCalls
<1>3. \A n \in TaskNums : n < nextFileNum /\ <<0, n>> \notin Used
  BY DEF FirstRun, TasksFresh
<1>4. TaskNums \subseteq Nat
  BY TaskNumTypes
<1>5. \A n \in TaskNums : n \in Nat /\ n < nextFileNum /\ <<0, n>> \notin Used
  BY <1>3, <1>4
<1>6. /\ \A c \in Clients : CallNums(cl[c]) \cap (SeqNums(flushQ) \cup SeqNums(rv.tasks) \cup FlNums) = {}
      /\ \A c, d \in Clients : c # d => CallNums(cl[c]) \cap CallNums(cl[d]) = {}
      /\ SeqNums(flushQ) \cap (SeqNums(rv.tasks) \cup FlNums) = {} /\ SeqNums(rv.tasks) \cap FlNums = {}
  BY <1>1, <1>2 DEF Disjoint
<1> QED
  BY <1>5, <1>6

\* A rotated memtable goes to the flusher's channel.
LEMMA SendFirst == ASSUME TypeInv, TypeInv', FirstRun, NEW c \in Clients, Send(c) PROVE FirstRun'
<1> USE DEF ctlVars, memVars, walVars, vsVars, compVars, histVars
<1> DEFINE call == cl[c]
           last == call.i = Len(call.tasks)
           e    == call.tasks[call.i]
           r1   == [call EXCEPT !.i = @ + 1, !.pc = IF last THEN "wait" ELSE "send"]
<1>1. /\ call.pc = "send" /\ flushQ' = Append(flushQ, e)
      /\ Become(c, Idle) \/ Become(c, r1)
      /\ UNCHANGED <<levels, manifest, nextFileNum, files, starts, job, isCompacting, fl, rv, issued, faults>>
  <2> HIDE DEF e
  <2> QED
    BY DEF Send, e
<1>2. call \in Calls(issued) /\ CallShape(call) /\ IsUp
  BY <1>1, UpFacts DEF TypeInv, CallTypes
<1>3. call.tasks \in Seq(Tasks(issued)) /\ call.i \in 1..Len(call.tasks) /\ e \in Tasks(issued)
  BY <1>1, <1>2 DEF Calls, CallShape
<1>4. Pending(call) = call.i..Len(call.tasks) /\ CallApart(call)
  BY <1>1 DEF Pending, FirstRun, TasksApart
<1> DEFINE n == e.num
<1>5. n \in CallNums(call)
  BY <1>3, <1>4 DEF CallNums
<1>6. r1.i = call.i + 1 /\ r1.tasks = call.tasks /\ r1.pc \in {"wait", "send"}
  BY <1>2 DEF Calls
<1> HIDE DEF r1
<1>7. Pending(r1) \subseteq (call.i + 1)..Len(call.tasks)
  BY <1>6 DEF Pending
<1>8. \A i \in Pending(r1) : i \in Pending(call) /\ i # call.i
  BY <1>3, <1>4, <1>7
<1>9. CallApart(r1) /\ CallNums(r1) \subseteq CallNums(call) /\ n \notin CallNums(r1)
  <2>1. call.i \in Pending(call)
    BY <1>3, <1>4
  <2> QED
    BY <1>4, <1>6, <1>8, <2>1 DEF CallApart, CallNums
<1>10. CallNums(Idle) = {} /\ CallApart(Idle)
  BY NothingPending DEF Idle
<1>11. PICK r : Become(c, r) /\ CallApart(r) /\ CallNums(r) \subseteq CallNums(call) /\ n \notin CallNums(r)
  BY <1>1, <1>9, <1>10
<1>12. \A d \in Clients : cl'[d] = IF d = c THEN r ELSE cl[d]
  BY <1>11 DEF Become, TypeInv, CallTypes
<1>13. n \in TaskNums /\ n < nextFileNum /\ <<0, n>> \notin Used /\ nextFileNum \in Nat /\ faults \in Nat
  BY <1>5, TaskNumTypes, Holders DEF TypeInv, Counters
<1>14. n \notin SeqNums(flushQ) \cup SeqNums(rv.tasks) \cup FlNums /\ \A d \in Clients : d # c => n \notin CallNums(cl[d])
  BY <1>5, Holders
<1>15. Apart(flushQ') /\ SeqNums(flushQ') = SeqNums(flushQ) \cup {n}
  <2>1. flushQ \in Seq(Tasks(issued)) /\ Apart(flushQ)
    BY DEF TypeInv, FlusherTypes, FirstRun, TasksApart
  <2> HIDE DEF e
  <2> QED
    BY <1>1, <1>3, <1>14, <2>1, QueueAppend
<1> HIDE DEF n, e
<1>16. Used' \subseteq Used
  BY <1>1, UsedSame
<1>17. \A d \in Clients : CallNums(cl'[d]) \subseteq CallNums(cl[d]) \cup {n} /\ CallApart(cl'[d])
  BY <1>11, <1>12 DEF FirstRun, TasksApart
<1>18. \A d \in Clients : n \notin CallNums(cl'[d])
  BY <1>11, <1>12, <1>14
<1>19. FlNums' = FlNums /\ SeqNums(rv'.tasks) = SeqNums(rv.tasks)
  BY <1>1 DEF FlNums
<1>20. n < nextFileNum' /\ <<0, n>> \notin Used' /\ nextFileNum <= nextFileNum' /\ faults <= faults'
       /\ manifest'.levels = manifest.levels
  BY <1>1, <1>13, <1>16
<1>21. TasksApart' /\ TasksFresh'
  <2>1. \A d \in Clients : n \in CallNums(cl'[d]) =>
            /\ n \notin SeqNums(flushQ') \cup SeqNums(rv'.tasks) \cup FlNums'
            /\ \A x \in Clients : n \in CallNums(cl'[x]) => d = x
    BY <1>18
  <2>2. /\ n \in SeqNums(flushQ') => n \notin SeqNums(rv'.tasks) \cup FlNums'
        /\ n \in SeqNums(rv'.tasks) => n \notin FlNums'
        /\ SeqNums(flushQ') \subseteq SeqNums(flushQ) \cup {n} /\ SeqNums(rv'.tasks) \subseteq SeqNums(rv.tasks) \cup {n}
        /\ FlNums' \subseteq FlNums \cup {n}
    BY <1>14, <1>15, <1>19
  <2> QED
    BY <1>15, <1>16, <1>17, <1>20, <2>1, <2>2, NumbersMove
<1>22. KeepsFiles({PathOf(t) : t \in Listed}) /\ KeepsFiles(Paths(job.outs)) /\ FlushedWhole'
  BY <1>1 DEF KeepsFiles, FirstRun, FlushedWhole
<1>23. NoReplay'
  BY <1>1 DEF FirstRun, NoReplay
<1> QED
  BY <1>1, <1>2, <1>20, <1>21, <1>22, <1>23, RunStep

----------------------------------------------------------------------------
\* Calls that stay as they are.
LEMMA CallsSame ==
  ASSUME FirstRun, cl' = cl
  PROVE  \A c \in Clients : CallNums(cl'[c]) \subseteq CallNums(cl[c]) /\ CallApart(cl'[c])
BY DEF FirstRun, TasksApart

\* Taking and releasing a snapshot.
LEMMA SnapshotFirst == ASSUME TypeInv, TypeInv', FirstRun, SnapshotNext PROVE FirstRun'
<1> USE DEF ctlVars, memVars, walVars, vsVars, compVars, histVars
<1>1. /\ IsUp /\ UNCHANGED <<levels, manifest, starts, nextFileNum, job, isCompacting, files, fl, flushQ, rv,
                            cl, faults>>
  BY DEF SnapshotNext, NewSnapshot, Release, IsUp
<1>2. nextFileNum <= nextFileNum' /\ faults <= faults' /\ NoReplay'
  BY <1>1 DEF TypeInv, Counters, FirstRun, NoReplay
<1>3. \A c \in Clients : CallNums(cl'[c]) \subseteq CallNums(cl[c]) /\ CallApart(cl'[c])
  BY <1>1, CallsSame
<1>4. manifest'.levels = manifest.levels /\ SeqNums(rv'.tasks) \subseteq SeqNums(rv.tasks)
  BY <1>1
<1> QED
  BY <1>1, <1>2, <1>3, <1>4, PlainStep

\* Nothing is replayed in the first run; recovery opens a log and ends.
LEMMA RecoverFirst ==
  ASSUME TypeInv, TypeInv', FirstRun,
         RecoverOpen \/ RecoverRecord \/ RecoverSend \/ RecoverLogDone \/ RecoverFinish
  PROVE  FirstRun'
<1> USE DEF ctlVars, memVars, walVars, vsVars, compVars, histVars
<1>1. ~RecoverOpen /\ ~RecoverRecord /\ ~RecoverSend /\ ~RecoverLogDone
  BY DEF FirstRun, NoReplay, RecoverOpen, RecoverRecord, RecoverSend, RecoverLogDone
<1>2. /\ rv.pc = "open" /\ rv' = RvIdle /\ nextFileNum' = nextFileNum + 1
      /\ UNCHANGED <<levels, manifest, starts, job, isCompacting, files, fl, flushQ, cl, faults>>
  BY <1>1 DEF RecoverFinish
<1>3. IsUp
  BY <1>2, UpFacts
<1>4. nextFileNum <= nextFileNum' /\ faults <= faults' /\ manifest'.levels = manifest.levels
  BY <1>2 DEF TypeInv, Counters
<1>5. \A c \in Clients : CallNums(cl'[c]) \subseteq CallNums(cl[c]) /\ CallApart(cl'[c])
  BY <1>2, CallsSame
<1>6. NoReplay' /\ SeqNums(rv'.tasks) \subseteq SeqNums(rv.tasks)
  BY <1>2 DEF NoReplay, RvIdle, SeqNums
<1> QED
  BY <1>2, <1>3, <1>4, <1>5, <1>6, PlainStep

\* The flusher takes a task from the channel.
LEMMA FlushTakeFirst == ASSUME TypeInv, TypeInv', FirstRun, FlushTake PROVE FirstRun'
<1> USE DEF ctlVars, memVars, walVars, vsVars, compVars, histVars
<1>1. /\ IsUp /\ fl.pc = "idle" /\ flushQ # <<>> /\ flushQ' = Tail(flushQ)
      /\ fl' = [FlIdle EXCEPT !.pc = "write", !.task = Head(flushQ)]
      /\ UNCHANGED <<levels, manifest, nextFileNum, files, starts, job, isCompacting, rv, cl, faults>>
  BY DEF FlushTake, IsUp
<1>2. flushQ \in Seq(Tasks(issued)) /\ Apart(flushQ)
  BY DEF TypeInv, FlusherTypes, FirstRun, TasksApart
<1> DEFINE n == Head(flushQ).num
<1>3. /\ Apart(flushQ') /\ SeqNums(flushQ') \subseteq SeqNums(flushQ)
      /\ n \in SeqNums(flushQ) /\ n \notin SeqNums(flushQ')
  BY <1>1, <1>2, QueueTail
<1>4. fl'.pc = "write" /\ fl'.task = Head(flushQ)
  BY <1>1 DEF FlIdle
<1>5. FlNums' = {n} /\ FlushedWhole'
  BY <1>4 DEF FlNums, FlushedWhole
<1> HIDE DEF n
<1>6. n \in TaskNums /\ n < nextFileNum /\ <<0, n>> \notin Used /\ nextFileNum \in Nat /\ faults \in Nat
  BY <1>3, TaskNumTypes, Holders DEF TypeInv, Counters
<1>7. n \notin SeqNums(rv.tasks) /\ \A d \in Clients : n \notin CallNums(cl[d])
  BY <1>3, Holders
<1>8. Used' \subseteq Used
  BY <1>1, UsedSame
<1>9. n < nextFileNum' /\ <<0, n>> \notin Used' /\ nextFileNum <= nextFileNum' /\ faults <= faults'
      /\ manifest'.levels = manifest.levels
  BY <1>1, <1>6, <1>8
<1>10. TasksApart' /\ TasksFresh'
  <2>1. \A d \in Clients : n \in CallNums(cl'[d]) =>
            /\ n \notin SeqNums(flushQ') \cup SeqNums(rv'.tasks) \cup FlNums'
            /\ \A x \in Clients : n \in CallNums(cl'[x]) => d = x
    BY <1>1, <1>7
  <2>2. /\ n \in SeqNums(flushQ') => n \notin SeqNums(rv'.tasks) \cup FlNums'
        /\ n \in SeqNums(rv'.tasks) => n \notin FlNums'
        /\ SeqNums(flushQ') \subseteq SeqNums(flushQ) \cup {n} /\ SeqNums(rv'.tasks) \subseteq SeqNums(rv.tasks) \cup {n}
        /\ FlNums' \subseteq FlNums \cup {n}
    BY <1>1, <1>3, <1>5, <1>7
  <2>3. \A d \in Clients : CallNums(cl'[d]) \subseteq CallNums(cl[d]) \cup {n} /\ CallApart(cl'[d])
    BY <1>1, CallsSame
  <2> QED
    BY <1>3, <1>8, <1>9, <2>1, <2>2, <2>3, NumbersMove
<1>11. KeepsFiles({PathOf(t) : t \in Listed}) /\ KeepsFiles(Paths(job.outs)) /\ NoReplay'
  BY <1>1 DEF KeepsFiles, FirstRun, NoReplay
<1> QED
  BY <1>1, <1>5, <1>9, <1>10, <1>11, RunStep

\* The process ends.
LEMMA LostFirst ==
  ASSUME TypeInv, TypeInv', FirstRun, starts # 0, LoseMemory, phase' \in {"down", "failed"}, starts' = starts,
         files' = files, manifest'.levels = manifest.levels
  PROVE  FirstRun'
<1> USE DEF LoseMemory
<1>1. \A l \in Levels : NoLevels[l] = <<>>
  BY DEF NoLevels
<1>2. LiveTables' = {} /\ ManifestTables' = ManifestTables
  BY <1>1 DEF LiveTables, TablesAt, ManifestTables, ToSet
<1>3. Listed' \subseteq Listed
  BY <1>2 DEF Listed
<1>4. job'.pc = "none" /\ fl'.pc = "idle" /\ rv'.tasks = <<>> /\ flushQ' = <<>> /\ rv'.pc = "idle" /\ rv'.todo = {}
      /\ isCompacting' = FALSE
  BY DEF NoJob, FlIdle, RvIdle
<1>5. Used' \subseteq Used
  BY <1>3, <1>4 DEF Used
<1>6. \A c \in Clients : CallNums(cl'[c]) = {} /\ CallApart(cl'[c])
  <2>1. Idle.pc = "idle"
    BY DEF Idle
  <2>2. \A c \in Clients : cl'[c] = Idle
    OBVIOUS
  <2> QED
    BY <2>1, <2>2, NothingPending
<1>7. TasksApart' /\ TasksFresh'
  <2>1. SeqNums(flushQ') = {} /\ SeqNums(rv'.tasks) = {} /\ FlNums' = {} /\ Apart(flushQ')
    BY <1>4 DEF SeqNums, FlNums, Apart
  <2>2. \A c \in Clients : HeldCalls'[c] = {}
    BY <1>6 DEF HeldCalls
  <2>3. Disjoint(HeldCalls', SeqNums(flushQ'), SeqNums(rv'.tasks), FlNums')
    BY <2>1, <2>2 DEF Disjoint
  <2>4. TaskNums' = {}
    <3>1. UNION {HeldCalls'[c] : c \in Clients} = {}
      BY <2>2
    <3> QED
      BY <2>1, <3>1 DEF TaskNums, AllOf
  <2> QED
    BY <1>6, <2>1, <2>3, <2>4 DEF TasksApart, TasksFresh
<1>8. UsedBelow' /\ Mirrored'
  BY DEF UsedBelow, Mirrored, IsUp
<1>9. LevelsApart'
  BY <1>1 DEF LevelsApart, FirstRun, Apart
<1>10. WholeTables'
  <2> SUFFICES ASSUME NEW t \in Listed' PROVE Whole(t)'
    BY DEF WholeTables
  <2>1. Whole(t)
    BY <1>3 DEF FirstRun, WholeTables
  <2> QED
    BY <2>1 DEF Whole, Readable
<1>11. FlushedWhole' /\ JobInv' /\ FlagOwned' /\ NoReplay' /\ Fresh'
  BY <1>4 DEF FlushedWhole, JobInv, FlagOwned, NoReplay, Fresh
<1> QED
  BY <1>7, <1>8, <1>9, <1>10, <1>11 DEF FirstRun

\* A crash, and the end of Close: every task is gone, the files and the manifest stay.
LEMMA StopFirst ==
  ASSUME TypeInv, TypeInv', FirstRun, Crash \/ (\E c \in Clients : CloseReturn(c))
  PROVE  FirstRun'
<1>1. /\ LoseMemory /\ phase' = "down" /\ starts' = starts /\ files' = files /\ manifest' = manifest
  BY DEF Crash, CloseReturn
<1>2. IsUp
  BY UpFacts DEF Crash, CloseReturn, IsUp
<1>3. starts # 0
  BY <1>2 DEF FirstRun, Fresh, IsUp
<1> QED
  BY <1>1, <1>3, LostFirst

\* A first New that fails leaves what was there.
LEMMA RecoverFailsFirst == ASSUME TypeInv, TypeInv', FirstRun, RecoverFails PROVE FirstRun'
<1>1. /\ LoseMemory /\ phase' = "failed" /\ starts' = starts /\ files' = files
  BY DEF RecoverFails
<1>2. rv.pc = "open" /\ manifest' = manifest
  BY DEF RecoverFails, FirstRun, NoReplay
<1>3. starts # 0
  BY <1>2, UpFacts DEF FirstRun, Fresh, IsUp
<1> QED
  BY <1>1, <1>2, <1>3, LostFirst

\* The first start finds no manifest, so no torn one.
LEMMA NotTornFirst == ASSUME TypeInv, FirstRun, starts' <= 1 PROVE ~OpenTorn
<1> SUFFICES ASSUME OpenTorn PROVE FALSE
  OBVIOUS
<1>1. starts = 0 /\ manifest.torn
  BY DEF OpenTorn, TypeInv, Counters
<1> QED
  BY <1>1 DEF FirstRun, Fresh, NoManifest

\* The first start: everything is empty.
LEMMA NewFirst == ASSUME TypeInv, TypeInv', FirstRun, starts = 0, New PROVE FirstRun'
<1> USE DEF memVars, compVars, histVars
<1>1. phase = "down" /\ manifest = NoManifest /\ DOMAIN wals = {}
  BY DEF FirstRun, Fresh
<1>2. /\ flushQ = <<>> /\ fl = FlIdle /\ isCompacting = FALSE /\ job = NoJob /\ cl = [c \in Clients |-> Idle]
  BY <1>1 DEF TypeInv, Lost
<1>3. /\ starts' = starts + 1 /\ manifest' = [manifest EXCEPT !.made = TRUE] /\ levels' = manifest.levels
      /\ rv' \in {[RvIdle EXCEPT !.pc = "open", !.todo = DOMAIN wals], RvIdle}
      /\ UNCHANGED <<flushQ, fl, isCompacting, job, cl>>
  BY DEF New
<1>4. levels' = NoLevels /\ manifest'.levels = NoLevels
  BY <1>1, <1>3 DEF NoManifest
<1>5. \A l \in Levels : levels'[l] = <<>> /\ manifest'.levels[l] = <<>>
  BY <1>4 DEF NoLevels
<1>6. LiveTables' = {} /\ ManifestTables' = {}
  BY <1>5 DEF LiveTables, TablesAt, ManifestTables, ToSet
<1>7. /\ job'.pc = "none" /\ fl'.pc = "idle" /\ flushQ' = <<>> /\ isCompacting' = FALSE
      /\ rv'.pc \in {"idle", "open"} /\ rv'.todo = {} /\ rv'.tasks = <<>>
  <2>1. PICK y : y = [RvIdle EXCEPT !.pc = "open", !.todo = DOMAIN wals]
    OBVIOUS
  <2>2. y.pc = "open" /\ y.todo = {} /\ y.tasks = <<>>
    BY <1>1, <2>1 DEF RvIdle
  <2>3. RvIdle.pc = "idle" /\ RvIdle.todo = {} /\ RvIdle.tasks = <<>>
    BY DEF RvIdle
  <2>4. rv' \in {y, RvIdle}
    BY <1>3, <2>1
  <2> QED
    BY <1>2, <1>3, <2>2, <2>3, <2>4 DEF NoJob, FlIdle
<1>8. Listed' = {} /\ Used' = {}
  BY <1>6, <1>7 DEF Listed, Used
<1>9. \A c \in Clients : CallNums(cl'[c]) = {} /\ CallApart(cl'[c])
  <2>1. Idle.pc = "idle"
    BY DEF Idle
  <2>2. \A c \in Clients : cl'[c] = Idle
    BY <1>2, <1>3
  <2> QED
    BY <2>1, <2>2, NothingPending
<1>10. TasksApart' /\ TasksFresh'
  <2>1. SeqNums(flushQ') = {} /\ SeqNums(rv'.tasks) = {} /\ FlNums' = {} /\ Apart(flushQ')
    BY <1>7 DEF SeqNums, FlNums, Apart
  <2>2. \A c \in Clients : HeldCalls'[c] = {}
    BY <1>9 DEF HeldCalls
  <2>3. Disjoint(HeldCalls', SeqNums(flushQ'), SeqNums(rv'.tasks), FlNums')
    BY <2>1, <2>2 DEF Disjoint
  <2>4. TaskNums' = {}
    <3>1. UNION {HeldCalls'[c] : c \in Clients} = {}
      BY <2>2
    <3> QED
      BY <2>1, <3>1 DEF TaskNums, AllOf
  <2> QED
    BY <1>9, <2>1, <2>3, <2>4 DEF TasksApart, TasksFresh
<1>11. UsedBelow' /\ WholeTables' /\ Mirrored'
  BY <1>4, <1>8 DEF UsedBelow, WholeTables, Mirrored
<1>12. LevelsApart'
  BY <1>5 DEF LevelsApart, Apart
<1>13. FlushedWhole' /\ JobInv' /\ FlagOwned' /\ NoReplay' /\ Fresh'
  BY <1>3, <1>7 DEF FlushedWhole, JobInv, FlagOwned, NoReplay, Fresh
<1> QED
  BY <1>10, <1>11, <1>12, <1>13 DEF FirstRun

----------------------------------------------------------------------------
\* The flusher writes the table of its task: nobody lists that file.
LEMMA FlushWriteFirst == ASSUME TypeInv, TypeInv', FirstRun, FlushWrite PROVE FirstRun'
<1> USE DEF ctlVars, memVars, walVars, vsVars, compVars, histVars
<1> DEFINE q == <<0, fl.task.num>>
<1>1. PICK fault :
        /\ fl.pc = "write" /\ Count(fault)
        /\ \/ fl' = FlIdle /\ UNCHANGED <<files, nextFileNum>>
           \/ /\ files' = Create(files, q, fl.task.mt)
              /\ fl' = [fl EXCEPT !.pc = "install", !.next = nextFileNum]
              /\ nextFileNum' = nextFileNum + 1
        /\ UNCHANGED <<levels, manifest, flushQ, starts, job, isCompacting, rv, cl>>
  BY DEF FlushWrite
<1>2. IsUp /\ fl \in Flushers(issued) /\ fl.task \in Tasks(issued)
  BY <1>1, UpFacts DEF TypeInv, FlusherTypes
<1>3. nextFileNum <= nextFileNum' /\ faults <= faults' /\ manifest'.levels = manifest.levels /\ NoReplay'
  <2>1. nextFileNum \in Nat /\ faults <= faults'
    BY <1>1, CountGrows DEF TypeInv, Counters
  <2> QED
    BY <1>1, <2>1 DEF FirstRun, NoReplay
<1>4. FlNums = {fl.task.num}
  BY <1>1 DEF FlNums
<1>5. q \notin Used
  BY <1>4, TaskNumTypes, Holders
<1>6. q \notin {PathOf(t) : t \in Listed}
  BY <1>5, InUse
<1>7. job.pc = "install" => q \notin Paths(job.outs)
  <2> SUFFICES ASSUME job.pc = "install", q \in Paths(job.outs) PROVE FALSE
    OBVIOUS
  <2>1. job.outs \in Seq(Tables) /\ job.level \in Nat
    BY ConstantTypes DEF TypeInv, Jobs
  <2>2. PICK t \in ToSet(job.outs) : q = PathOf(t)
    BY <2>1, PathsOf
  <2>3. t.level = job.level + 1
    BY DEF FirstRun, JobInv
  <2> QED
    BY <2>1, <2>2, <2>3 DEF PathOf
<1>8. KeepsFiles({PathOf(t) : t \in Listed}) /\ (job.pc = "install" => KeepsFiles(Paths(job.outs)))
  <2> HIDE DEF q
  <2>1. CASE files' = files
    BY <2>1 DEF KeepsFiles
  <2>2. CASE files' = Create(files, q, fl.task.mt)
    BY <1>6, <1>7, <2>2, CreateKeeps
  <2> QED
    BY <1>1, <2>1, <2>2
<1>9. FlushedWhole' /\ FlNums' \subseteq FlNums
  <2>1. CASE fl' = FlIdle
    BY <2>1 DEF FlushedWhole, FlNums, FlIdle
  <2>2. CASE files' = Create(files, q, fl.task.mt) /\ fl' = [fl EXCEPT !.pc = "install", !.next = nextFileNum]
    <3>1. fl'.pc = "install" /\ fl'.task = fl.task
      BY <1>2, <2>2 DEF Flushers
    <3> HIDE DEF q
    <3>2. q \in DOMAIN files' /\ files'[q] = fl.task.mt
      BY <2>2 DEF Create, Overlay
    <3> QED
      BY <1>4, <3>1, <3>2 DEF FlushedWhole, FlNums, q
  <2> QED
    BY <1>1, <2>1, <2>2
<1>10. TasksApart' /\ TasksFresh'
  <2>1. Used' \subseteq Used
    BY <1>1, <1>3, UsedSame
  <2>2. Apart(flushQ') /\ SeqNums(flushQ') \subseteq SeqNums(flushQ) /\ SeqNums(rv'.tasks) \subseteq SeqNums(rv.tasks)
    BY <1>1 DEF FirstRun, TasksApart
  <2>3. \A c \in Clients : CallNums(cl'[c]) \subseteq CallNums(cl[c]) /\ CallApart(cl'[c])
    BY <1>1, CallsSame
  <2> QED
    BY <1>3, <1>9, <2>1, <2>2, <2>3, NumbersStep
<1> QED
  BY <1>1, <1>2, <1>3, <1>8, <1>9, <1>10, RunStep

----------------------------------------------------------------------------
\* A step of a compaction, or one that schedules one, which leaves the tree alone.
LEMMA JobStep ==
  ASSUME TypeInv, TypeInv', FirstRun, IsUp, levels' = levels, manifest'.levels = manifest.levels,
         starts' = starts, nextFileNum <= nextFileNum', faults <= faults', UNCHANGED <<flushQ, cl, rv>>,
         job'.pc # "remove", KeepsFiles({PathOf(t) : t \in Listed}), FlNums' \subseteq FlNums,
         JobInv', FlagOwned', FlushedWhole'
  PROVE  FirstRun'
<1>1. /\ UsedBelow' /\ LevelsApart' /\ WholeTables' /\ Fresh' /\ Mirrored'
      /\ Used' \subseteq Used
  BY TreeStep
<1>2. Apart(flushQ') /\ SeqNums(flushQ') \subseteq SeqNums(flushQ) /\ SeqNums(rv'.tasks) \subseteq SeqNums(rv.tasks)
      /\ NoReplay'
  BY DEF FirstRun, TasksApart, NoReplay
<1>3. \A c \in Clients : CallNums(cl'[c]) \subseteq CallNums(cl[c]) /\ CallApart(cl'[c])
  BY CallsSame
<1>4. TasksApart' /\ TasksFresh'
  BY <1>1, <1>2, <1>3, NumbersStep
<1> QED
  BY <1>1, <1>2, <1>4 DEF FirstRun

\* The files in use, when no compaction is about to remove any.
LEMMA UsedFewer ==
  ASSUME levels' = levels, manifest'.levels = manifest.levels, job'.pc # "remove"
  PROVE  Used' \subseteq Used /\ Listed' = Listed /\ LiveTables' = LiveTables
<1>1. Listed' = Listed /\ LiveTables' = LiveTables
  BY DEF Listed, LiveTables, ManifestTables, TablesAt
<1> QED
  BY <1>1 DEF Used

\* A compaction that is scheduled has a new number for its first output.
LEMMA Scheduled ==
  ASSUME TypeInv, FirstRun, IsUp, levels' = levels, manifest'.levels = manifest.levels,
         NEW l \in 0..(Bottom - 1), StartCompaction(l)
  PROVE  JobInv' /\ FlagOwned' /\ job'.pc # "remove" /\ nextFileNum <= nextFileNum'
<1>1. /\ nextFileNum' = nextFileNum + 1
      /\ job'.pc = "begin" /\ job'.level = l /\ job'.out = nextFileNum
      /\ ToSet(job'.inputs) \subseteq TablesAt(l)
  BY StartCompactionTypes
<1>2. nextFileNum \in Nat
  BY DEF TypeInv, Counters
<1>3. Used' \subseteq Used
  BY <1>1, UsedFewer
<1>4. OutPath' = <<l + 1, nextFileNum>>
  BY <1>1 DEF OutPath
<1>5. OutPath' \notin Used'
  BY <1>2, <1>3, <1>4, NewPath
<1>6. TablesAt(job.level)' = TablesAt(l)
  BY <1>1 DEF TablesAt
<1>7. job'.out < nextFileNum' /\ nextFileNum <= nextFileNum'
  BY <1>1, <1>2
<1>8. JobInv'
  BY <1>1, <1>5, <1>6, <1>7 DEF JobInv
<1> QED
  BY <1>1, <1>7, <1>8 DEF FlagOwned

\* The end of a flush, which may schedule a compaction of level 0.
LEMMA FlushCleanupFirst == ASSUME TypeInv, TypeInv', FirstRun, FlushCleanup PROVE FirstRun'
<1> USE DEF ctlVars, memVars, walVars, vsVars, compVars, histVars
<1>1. /\ fl.pc = "cleanup" /\ fl' = FlIdle
      /\ StartCompaction(0) \/ UNCHANGED <<isCompacting, job, nextFileNum>>
      /\ UNCHANGED <<levels, manifest, files, flushQ, starts, rv, cl, faults>>
  BY DEF FlushCleanup
<1>2. IsUp /\ job.pc # "remove" /\ nextFileNum \in Nat /\ faults \in Nat /\ 0 \in 0..(Bottom - 1)
  BY <1>1, UpFacts, ConstantTypes DEF TypeInv, Locks, Counters
<1>3. FlNums' \subseteq FlNums /\ FlushedWhole' /\ manifest'.levels = manifest.levels /\ faults <= faults'
  BY <1>1, <1>2 DEF FlNums, FlushedWhole, FlIdle
<1>4. KeepsFiles({PathOf(t) : t \in Listed}) /\ KeepsFiles(Paths(job.outs))
  BY <1>1 DEF KeepsFiles
<1>5. CASE StartCompaction(0)
  <2>1. JobInv' /\ FlagOwned' /\ job'.pc # "remove" /\ nextFileNum <= nextFileNum'
    BY <1>1, <1>2, <1>3, <1>5, Scheduled
  <2> QED
    BY <1>1, <1>2, <1>3, <1>4, <2>1, JobStep
<1>6. CASE UNCHANGED <<isCompacting, job, nextFileNum>>
  <2>1. Used' \subseteq Used /\ Listed' = Listed /\ LiveTables' = LiveTables
    BY <1>1, <1>2, <1>6, UsedFewer
  <2>2. JobInv'
    BY <1>1, <1>2, <1>4, <1>6, <2>1, JobFrame DEF FirstRun
  <2>3. FlagOwned'
    BY <1>1, <1>6 DEF FirstRun, FlagOwned
  <2> QED
    BY <1>1, <1>2, <1>3, <1>4, <1>6, <2>2, <2>3, JobStep
<1> QED
  BY <1>1, <1>5, <1>6

\* A compaction goroutine ends, or schedules the next compaction.
LEMMA RescheduleFirst ==
  ASSUME TypeInv, TypeInv', FirstRun, CompactDone \/ RescheduleClear \/ Reschedule PROVE FirstRun'
<1> USE DEF ctlVars, memVars, walVars, vsVars, compVars, histVars
<1>1. /\ \/ job' = NoJob /\ isCompacting' = FALSE /\ nextFileNum' = nextFileNum /\ job.pc # "none"
         \/ resched > 0 /\ \E l \in CompactionLevel : StartCompaction(l)
         \/ resched > 0 /\ job' = [NoJob EXCEPT !.pc = "clear"] /\ nextFileNum' = nextFileNum
         \/ resched > 0 /\ UNCHANGED <<isCompacting, job, nextFileNum>>
      /\ UNCHANGED <<levels, manifest, files, flushQ, fl, starts, rv, cl, faults>>
  BY DEF CompactDone, RescheduleClear, Reschedule
<1>2. IsUp /\ nextFileNum \in Nat /\ faults \in Nat
  BY <1>1, UpFacts DEF TypeInv, Counters
<1>3. FlNums' \subseteq FlNums /\ FlushedWhole' /\ manifest'.levels = manifest.levels /\ faults <= faults'
  BY <1>1, <1>2 DEF FlNums, FirstRun, FlushedWhole
<1>4. KeepsFiles({PathOf(t) : t \in Listed}) /\ KeepsFiles(Paths(job.outs))
  BY <1>1 DEF KeepsFiles
<1>5. CASE job' = NoJob /\ isCompacting' = FALSE /\ nextFileNum' = nextFileNum
  <2>1. job'.pc = "none"
    BY <1>5 DEF NoJob
  <2>2. JobInv' /\ FlagOwned' /\ nextFileNum <= nextFileNum'
    BY <1>2, <1>5, <2>1 DEF JobInv, FlagOwned
  <2> QED
    BY <1>1, <1>2, <1>3, <1>4, <2>1, <2>2, JobStep
<1>6. CASE \E l \in CompactionLevel : StartCompaction(l)
  <2>1. PICK l \in 0..(Bottom - 1) : StartCompaction(l)
    BY <1>6, LevelPicked
  <2>2. JobInv' /\ FlagOwned' /\ job'.pc # "remove" /\ nextFileNum <= nextFileNum'
    BY <1>1, <1>2, <1>3, <2>1, Scheduled
  <2> QED
    BY <1>1, <1>2, <1>3, <1>4, <2>2, JobStep
<1>7. CASE job' = [NoJob EXCEPT !.pc = "clear"] /\ nextFileNum' = nextFileNum
  <2>1. job'.pc = "clear"
    BY <1>7 DEF NoJob
  <2>2. JobInv' /\ FlagOwned' /\ nextFileNum <= nextFileNum'
    BY <1>2, <1>7, <2>1 DEF JobInv, FlagOwned
  <2> QED
    BY <1>1, <1>2, <1>3, <1>4, <2>1, <2>2, JobStep
<1>8. CASE UNCHANGED <<isCompacting, job, nextFileNum>>
  <2>1. nextFileNum <= nextFileNum' /\ NoReplay' /\ SeqNums(rv'.tasks) \subseteq SeqNums(rv.tasks)
    BY <1>1, <1>2, <1>8 DEF FirstRun, NoReplay
  <2>2. \A c \in Clients : CallNums(cl'[c]) \subseteq CallNums(cl[c]) /\ CallApart(cl'[c])
    BY <1>1, CallsSame
  <2> QED
    BY <1>1, <1>2, <1>3, <1>8, <2>1, <2>2, PlainStep
<1> QED
  BY <1>1, <1>5, <1>6, <1>7, <1>8

\* The inputs that are removed are listed no more, and no flush writes one of them.
LEMMA CompactRemoveFirst == ASSUME TypeInv, TypeInv', FirstRun, CompactRemove PROVE FirstRun'
<1> USE DEF ctlVars, memVars, walVars, vsVars, compVars, histVars
<1>1. /\ job.pc = "remove" /\ files' = Unlink(files, Paths(job.all)) /\ job' = [NoJob EXCEPT !.pc = "done"]
      /\ UNCHANGED <<levels, manifest, nextFileNum, isCompacting, flushQ, fl, starts, rv, cl, faults>>
  BY DEF CompactRemove
<1>2. IsUp /\ nextFileNum \in Nat /\ faults \in Nat
  BY <1>1, UpFacts DEF TypeInv, Counters
<1>3. job'.pc = "done"
  BY <1>1 DEF NoJob
<1>4. \A t \in Listed : PathOf(t) \notin Paths(job.all)
  BY <1>1 DEF FirstRun, JobInv
<1>5. KeepsFiles({PathOf(t) : t \in Listed})
  BY <1>1, <1>4 DEF KeepsFiles, Unlink
<1>6. FlushedWhole'
  <2> SUFFICES ASSUME fl.pc = "install" PROVE FlushedWhole'
    BY <1>1 DEF FlushedWhole
  <2> DEFINE q == <<0, fl.task.num>>
  <2>1. q \notin Used
    BY TaskNumTypes, Holders DEF FlNums
  <2>2. Paths(job.all) \subseteq Used
    BY <1>1 DEF Used
  <2>3. q \in DOMAIN files /\ files[q] = fl.task.mt
    BY DEF FirstRun, FlushedWhole
  <2> HIDE DEF q
  <2>4. q \in DOMAIN files' /\ files'[q] = fl.task.mt
    BY <1>1, <2>1, <2>2, <2>3 DEF Unlink
  <2> QED
    BY <1>1, <2>4 DEF FlushedWhole, q
<1>7. FlNums' \subseteq FlNums /\ manifest'.levels = manifest.levels /\ faults <= faults' /\ nextFileNum <= nextFileNum'
  BY <1>1, <1>2 DEF FlNums
<1>8. JobInv' /\ FlagOwned'
  BY <1>3 DEF JobInv, FlagOwned
<1> QED
  BY <1>1, <1>2, <1>3, <1>5, <1>6, <1>7, <1>8, JobStep

\* A compaction fixes its inputs: they are live tables.
LEMMA CompactBeginFirst == ASSUME TypeInv, TypeInv', FirstRun, CompactBegin PROVE FirstRun'
<1> USE DEF ctlVars, memVars, walVars, vsVars, compVars, histVars
<1> DEFINE range == KeyRangeOf(job.inputs)
           overlapping == IF job.inputs = <<>> THEN <<>>
                          ELSE FindOverlapping(levels[job.level + 1], range[1], range[2])
           all == job.inputs \o overlapping
<1>1. /\ job.pc = "begin" /\ job' = [job EXCEPT !.pc = "merge", !.all = all]
      /\ UNCHANGED <<levels, manifest, nextFileNum, isCompacting, files, flushQ, fl, starts, rv, cl, faults>>
  BY DEF CompactBegin
<1>2. IsUp /\ nextFileNum \in Nat /\ faults \in Nat
  BY <1>1, UpFacts DEF TypeInv, Counters
<1>3. /\ job \in Jobs /\ IsSeq(job.inputs, Tables) /\ IsSeq(levels[job.level + 1], Tables)
      /\ job.level \in Levels /\ job.level + 1 \in Levels
  <2>1. job \in Jobs /\ job.inputs \in Seq(Tables) /\ job.level \in 0..(Bottom - 1) /\ levels \in TreeOf
    BY DEF TypeInv, Jobs, TreeTypes
  <2>2. job.level \in Levels /\ job.level + 1 \in Levels
    BY <2>1, ConstantTypes DEF Levels
  <2> QED
    BY <2>1, <2>2 DEF TreeOf, IsSeq
<1>4. TablesAt(job.level) \subseteq LiveTables /\ TablesAt(job.level + 1) \subseteq LiveTables
  BY <1>3 DEF LiveTables
<1>5. IsSeq(overlapping, Tables) /\ ToSet(overlapping) \subseteq TablesAt(job.level + 1)
  <2> DEFINE s == levels[job.level + 1]
             lo == range[1]
             hi == range[2]
  <2>1. IsSeq(s, Tables)
    BY <1>3
  <2> HIDE DEF s, lo, hi
  <2>2. IsSeq(FindOverlapping(s, lo, hi), Tables) /\ ToSet(FindOverlapping(s, lo, hi)) \subseteq ToSet(s)
    BY <2>1, OverlapTypes
  <2>3. IsSeq(<<>>, Tables) /\ ToSet(<<>>) \subseteq ToSet(s)
    BY DEF IsSeq, ToSet
  <2>4. TablesAt(job.level + 1) = ToSet(s)
    BY DEF TablesAt, s
  <2> QED
    BY <2>2, <2>3, <2>4, Zenon DEF s, lo, hi
<1> HIDE DEF overlapping
<1>6. ToSet(job.inputs) \subseteq TablesAt(job.level)
  BY <1>1 DEF FirstRun, JobInv
<1>7. IsSeq(all, Tables) /\ ToSet(all) \subseteq LiveTables
  <2>1. IsSeq(all, Tables) /\ ToSet(all) = ToSet(job.inputs) \cup ToSet(overlapping)
    BY <1>3, <1>5, ConcatElements DEF IsSeq
  <2> QED
    BY <1>4, <1>5, <1>6, <2>1
<1> HIDE DEF all
<1>8. job'.pc = "merge" /\ job'.all = all /\ job'.out = job.out /\ job'.level = job.level
  BY <1>1, <1>3 DEF Jobs
<1>9. Used' \subseteq Used /\ LiveTables' = LiveTables
  BY <1>1, <1>8, UsedFewer
<1>10. JobInv'
  <2>1. job.out < nextFileNum /\ OutPath \notin Used
    BY <1>1 DEF FirstRun, JobInv
  <2>2. OutPath' = OutPath
    BY <1>8 DEF OutPath
  <2> QED
    BY <1>1, <1>7, <1>8, <1>9, <2>1, <2>2 DEF JobInv
<1>11. FlagOwned'
  BY <1>8 DEF FlagOwned
<1>12. FlNums' \subseteq FlNums /\ FlushedWhole' /\ manifest'.levels = manifest.levels /\ faults <= faults'
       /\ nextFileNum <= nextFileNum' /\ KeepsFiles({PathOf(t) : t \in Listed})
  BY <1>1, <1>2 DEF FlNums, FirstRun, FlushedWhole, KeepsFiles
<1> QED
  BY <1>1, <1>2, <1>8, <1>10, <1>11, <1>12, JobStep

----------------------------------------------------------------------------
\* Files written over and beside files that a step keeps, and one more removed or begun.
LEMMA OverlayKeeps ==
  ASSUME NEW W, NEW P, P \cap DOMAIN W = {},
         \/ \E x : files' = Unlink(Overlay(files, W), x) /\ x \cap P = {}
         \/ \E q : files' = Create(Overlay(files, W), q, {}) /\ q \notin P
  PROVE  KeepsFiles(P)
<1>1. CASE \E x : files' = Unlink(Overlay(files, W), x) /\ x \cap P = {}
  BY <1>1 DEF KeepsFiles, Unlink, Overlay
<1>2. CASE \E q : files' = Create(Overlay(files, W), q, {}) /\ q \notin P
  BY <1>2 DEF KeepsFiles, Create, Overlay
<1> QED
  BY <1>1, <1>2

\* The outputs of a compaction have different numbers, and files that are not in use.
LEMMA OutsFresh ==
  ASSUME TypeInv, FirstRun, job.pc = "merge"
  PROVE  /\ \A i \in Nat \ {0} : OutNum(i) \in Nat /\ OutNum(i) < nextFileNum + i /\ <<job.level + 1, OutNum(i)>> \notin Used
         /\ \A i, j \in Nat \ {0} : OutNum(i) = OutNum(j) => i = j
<1>1. job.out \in Nat /\ nextFileNum \in Nat /\ job.out < nextFileNum /\ IsUp /\ OutPath \notin Used
  BY UpFacts DEF TypeInv, Counters, Jobs, FirstRun, JobInv
<1>2. ASSUME NEW i \in Nat \ {0}
      PROVE  OutNum(i) \in Nat /\ OutNum(i) < nextFileNum + i /\ <<job.level + 1, OutNum(i)>> \notin Used
  <2>1. CASE i = 1
    BY <1>1, <2>1 DEF OutNum, OutPath
  <2>2. CASE i # 1
    <3>1. OutNum(i) \in Nat /\ nextFileNum <= OutNum(i) /\ OutNum(i) < nextFileNum + i
      BY <1>1, <2>2 DEF OutNum
    <3>2. <<job.level + 1, OutNum(i)>> \notin Used
      BY <1>1, <3>1, NewPath
    <3> QED
      BY <3>1, <3>2
  <2> QED
    BY <2>1, <2>2
<1>3. \A i, j \in Nat \ {0} : OutNum(i) = OutNum(j) => i = j
  BY <1>1 DEF OutNum
<1> QED
  BY <1>2, <1>3

\* What is written to the file of the i-th output is that output.
LEMMA WrittenAt ==
  ASSUME TypeInv, FirstRun, job.pc = "merge", NEW outs, IsSeq(outs, FullTables(issued)), NEW i \in 1..Len(outs)
  PROVE  /\ <<job.level + 1, OutNum(i)>> \in DOMAIN Written(outs, Len(outs))
         /\ Written(outs, Len(outs))[<<job.level + 1, OutNum(i)>>] = outs[i]
<1> DEFINE q == <<job.level + 1, OutNum(i)>>
           n == Len(outs)
           D == {<<job.level + 1, OutNum(j)>> : j \in 1..n}
           pick(p) == CHOOSE j \in 1..n : OutNum(j) = p[2]
<1>1. n \in Nat
  BY DEF IsSeq
<1>2. \A j \in 1..n : OutNum(j) = OutNum(i) => j = i
  BY <1>1, OutsFresh
<1>3. q \in D /\ q[2] = OutNum(i)
  OBVIOUS
<1>4. Written(outs, n) = [p \in D |-> outs[pick(p)]]
  BY DEF Written
<1>5. pick(q) = i
  <2> HIDE DEF q
  <2> QED
    BY <1>2, <1>3
<1> HIDE DEF q, D, pick
<1>6. q \in DOMAIN Written(outs, n) /\ Written(outs, n)[q] = outs[i]
  BY <1>3, <1>4, <1>5
<1> QED
  BY <1>6 DEF q

\* The files that a compaction writes, removes or leaves unfinished are those of its
\* outputs: neither in use nor of a flush.
LEMMA MergeKeeps ==
  ASSUME TypeInv, FirstRun, job.pc = "merge", NEW outs, IsSeq(outs, FullTables(issued)), NEW k \in 0..Len(outs),
         \/ \E x \in {{}, {<<job.level + 1, OutNum(k + 1)>>}} : files' = Unlink(Overlay(files, Written(outs, k)), x)
         \/ files' = Create(Overlay(files, Written(outs, k)), <<job.level + 1, OutNum(k + 1)>>, {})
  PROVE  KeepsFiles(Used) /\ \A n : KeepsFiles({<<0, n>>})
<1> DEFINE W == Written(outs, k)
           q == <<job.level + 1, OutNum(k + 1)>>
<1>1. k \in Nat /\ job.level \in Nat
  BY DEF IsSeq, TypeInv, Jobs
<1>2. DOMAIN W = {<<job.level + 1, OutNum(i)>> : i \in 1..k}
  BY WrittenTypes
<1>3. ASSUME NEW P, \A i \in 1..(k + 1) : <<job.level + 1, OutNum(i)>> \notin P PROVE KeepsFiles(P)
  <2>1. \A i \in 1..k : i \in 1..(k + 1)
    BY <1>1
  <2>2. k + 1 \in 1..(k + 1)
    BY <1>1
  <2>3. q \notin P
    BY <1>3, <2>2
  <2>4. P \cap DOMAIN W = {}
    BY <1>2, <1>3, <2>1
  <2>5. \/ \E x \in {{}, {q}} : files' = Unlink(Overlay(files, W), x)
        \/ files' = Create(Overlay(files, W), q, {})
    OBVIOUS
  <2> HIDE DEF W, q
  <2>6. \/ \E x : files' = Unlink(Overlay(files, W), x) /\ x \cap P = {}
        \/ \E y : files' = Create(Overlay(files, W), y, {}) /\ y \notin P
    BY <2>3, <2>5
  <2> QED
    BY <2>4, <2>6, OverlayKeeps
<1>4. \A i \in 1..(k + 1) : i \in Nat \ {0}
  BY <1>1
<1>5. \A i \in 1..(k + 1) : <<job.level + 1, OutNum(i)>> \notin Used
  BY <1>4, OutsFresh
<1>6. ASSUME NEW n PROVE \A i \in 1..(k + 1) : <<job.level + 1, OutNum(i)>> \notin {<<0, n>>}
  BY <1>1
<1> QED
  BY <1>3, <1>5, <1>6

\* A compaction that can read its inputs writes whole tables, to files of its own.
LEMMA MergedJob ==
  ASSUME TypeInv, TypeInv', FirstRun, job.pc = "merge", levels' = levels, manifest'.levels = manifest.levels,
         NEW outs, IsSeq(outs, FullTables(issued)),
         NEW scratch \in {{}, {<<job.level + 1, OutNum(Len(outs) + 1)>>}}, Merged(outs, scratch)
  PROVE  /\ JobInv' /\ job'.pc = "install"
         /\ \A i \in 1..Len(outs) : \A t : t = OutMetas(outs)[i] => FileRecords(t)' = outs[i]
<1> DEFINE n == Len(outs)
           metas == OutMetas(outs)
           m == nextFileNum + n
<1>1. n \in Nat /\ nextFileNum \in Nat /\ job.level \in Nat /\ job \in Jobs
  BY DEF IsSeq, TypeInv, Jobs, Counters
<1>2. /\ metas \in Seq(Tables) /\ Len(metas) = n
      /\ \A i \in 1..n : /\ metas[i] = TableMeta(job.level + 1, OutNum(i), outs[i])
                         /\ metas[i].level = job.level + 1 /\ metas[i].num = OutNum(i)
  BY MetaSeqTypes
<1>3. /\ job' = [job EXCEPT !.pc = "install", !.next = m, !.outs = metas]
      /\ nextFileNum' = nextFileNum + n + 1 /\ files' = Unlink(Overlay(files, Written(outs, n)), scratch)
  BY DEF Merged
<1> HIDE DEF metas, m
<1>4. job'.pc = "install" /\ job'.outs = metas /\ job'.all = job.all /\ job'.level = job.level
  BY <1>1, <1>3 DEF Jobs
<1>5. Used' \subseteq Used /\ LiveTables' = LiveTables
  BY <1>4, UsedFewer
<1>6. ToSet(job'.all) \subseteq LiveTables'
  BY <1>4, <1>5 DEF FirstRun, JobInv
<1>7. /\ \A i \in Nat \ {0} : OutNum(i) \in Nat /\ OutNum(i) < nextFileNum + i /\ <<job.level + 1, OutNum(i)>> \notin Used
      /\ \A i, j \in Nat \ {0} : OutNum(i) = OutNum(j) => i = j
  BY OutsFresh
<1>8. \A i \in 1..n : i \in Nat \ {0} /\ i <= n /\ i # n + 1
  BY <1>1
<1>9. Apart(metas)
  BY <1>2, <1>7, <1>8 DEF Apart
<1>10. ASSUME NEW i \in 1..n, NEW t, t = metas[i]
       PROVE  t.num < nextFileNum' /\ PathOf(t) \notin Used' /\ Whole(t)' /\ FileRecords(t)' = outs[i]
  <2> DEFINE q == <<job.level + 1, OutNum(i)>>
             W == Written(outs, n)
  <2>1. PathOf(t) = q
    BY <1>2, <1>10 DEF PathOf
  <2>2. OutNum(i) \in Nat /\ OutNum(i) < nextFileNum + i
    BY <1>7, <1>8
  <2>3. OutNum(i) < nextFileNum'
    BY <1>1, <1>3, <1>8, <2>2
  <2>4. q \notin Used'
    BY <1>5, <1>7, <1>8
  <2>5. q \in DOMAIN W /\ W[q] = outs[i]
    BY WrittenAt
  <2>6. q \notin scratch
    <3>1. OutNum(i) # OutNum(n + 1)
      BY <1>1, <1>7, <1>8
    <3> QED
      BY <3>1
  <2>7. outs[i] # {}
    BY DEF IsSeq, FullTables
  <2> HIDE DEF q, W
  <2>8. q \in DOMAIN files' /\ files'[q] = outs[i]
    BY <1>3, <2>5, <2>6 DEF Unlink, Overlay, W
  <2>9. t.level = job.level + 1 /\ t.num = OutNum(i) /\ t = TableMeta(job.level + 1, OutNum(i), outs[i])
    BY <1>2, <1>10
  <2>10. Whole(t)'
    BY <2>1, <2>7, <2>8, <2>9 DEF Whole, Readable
  <2>11. FileRecords(t)' = outs[i]
    BY <2>1, <2>7, <2>8 DEF FileRecords, Readable, PathOf
  <2> QED
    BY <2>1, <2>3, <2>4, <2>9, <2>10, <2>11
<1>11. ASSUME NEW t \in ToSet(metas)
       PROVE  t.level = job.level + 1 /\ t.num < nextFileNum' /\ PathOf(t) \notin Used' /\ Whole(t)'
  <2>1. PICK i \in 1..n : metas[i] = t
    BY <1>2, InToSet
  <2> QED
    BY <1>2, <1>10, <2>1
<1>12. \A i \in 1..n : \A t : t = metas[i] => FileRecords(t)' = outs[i]
  BY <1>10
<1>13. JobInv'
  BY <1>4, <1>6, <1>9, <1>11 DEF JobInv
<1> QED
  BY <1>4, <1>12, <1>13 DEF metas

\* A merge.  All its inputs can be opened, unless a file operation fails.
LEMMA CompactMergeFirst == ASSUME TypeInv, TypeInv', FirstRun, CompactMerge PROVE FirstRun'
<1> USE DEF ctlVars, memVars, walVars, vsVars, compVars, histVars
<1>1. PICK fault : /\ job.pc = "merge" /\ Count(fault) /\ MergeOutcome(fault)
                   /\ UNCHANGED <<levels, manifest, flushQ, fl, starts, rv, cl>>
  BY MergeSteps
<1>2. IsUp /\ nextFileNum \in Nat /\ faults \in Nat /\ faults <= faults' /\ manifest'.levels = manifest.levels
  BY <1>1, UpFacts, CountGrows DEF TypeInv, Counters
<1>3. ~SomeMissing
  <2> SUFFICES ASSUME NEW t \in ToSet(job.all) PROVE Readable(<<t.level, t.num>>)
    BY DEF SomeMissing
  <2>1. t \in Listed
    BY <1>1 DEF FirstRun, JobInv, Listed
  <2> QED
    BY <2>1 DEF FirstRun, WholeTables, Whole, PathOf
<1>4. FlNums' \subseteq FlNums
  BY <1>1 DEF FlNums
<1>5. ASSUME KeepsFiles(Used), \A n : KeepsFiles({<<0, n>>})
      PROVE  KeepsFiles({PathOf(t) : t \in Listed}) /\ FlushedWhole'
  <2>1. {PathOf(t) : t \in Listed} \subseteq Used
    BY InUse
  <2>2. KeepsFiles({PathOf(t) : t \in Listed})
    BY <1>5, <2>1 DEF KeepsFiles
  <2> DEFINE q == <<0, fl.task.num>>
  <2>3. KeepsFiles({q})
    BY <1>5
  <2>4. fl.pc = "install" => q \in DOMAIN files /\ files[q] = fl.task.mt
    BY DEF FirstRun, FlushedWhole
  <2> HIDE DEF q
  <2>5. fl.pc = "install" => q \in DOMAIN files' /\ files'[q] = fl.task.mt
    BY <2>3, <2>4 DEF KeepsFiles
  <2> QED
    BY <1>1, <2>2, <2>5 DEF FlushedWhole, q
<1>6. ASSUME job' = NoJob, FlagOwned', nextFileNum <= nextFileNum', KeepsFiles(Used), \A n : KeepsFiles({<<0, n>>})
      PROVE  FirstRun'
  <2>1. job'.pc = "none"
    BY <1>6 DEF NoJob
  <2>2. JobInv'
    BY <2>1 DEF JobInv
  <2> QED
    BY <1>1, <1>2, <1>4, <1>5, <1>6, <2>1, <2>2, JobStep
<1>7. CASE fault = "open" /\ job' = NoJob /\ UNCHANGED <<isCompacting, files, nextFileNum>>
  <2>1. faults' # 0
    BY <1>1, <1>2, <1>7 DEF Count
  <2>2. FlagOwned' /\ nextFileNum <= nextFileNum' /\ KeepsFiles(Used) /\ \A n : KeepsFiles({<<0, n>>})
    BY <1>2, <1>7, <2>1 DEF FlagOwned, KeepsFiles
  <2> QED
    BY <1>6, <1>7, <2>2
<1>8. ASSUME NEW outs, IsSeq(outs, FullTables(issued)),
             NEW scratch \in {{}, {<<job.level + 1, OutNum(Len(outs) + 1)>>}}, Merged(outs, scratch)
      PROVE  FirstRun'
  <2>1. JobInv' /\ job'.pc = "install"
    BY <1>1, <1>2, <1>8, MergedJob
  <2>2. Len(outs) \in Nat /\ Len(outs) \in 0..Len(outs)
    BY <1>8 DEF IsSeq
  <2>3. files' = Unlink(Overlay(files, Written(outs, Len(outs))), scratch) /\ nextFileNum' = nextFileNum + Len(outs) + 1
    BY <1>8 DEF Merged
  <2>4. KeepsFiles(Used) /\ \A n : KeepsFiles({<<0, n>>})
    BY <1>1, <1>8, <2>2, <2>3, MergeKeeps
  <2>5. FlagOwned' /\ nextFileNum <= nextFileNum'
    BY <1>2, <2>1, <2>2, <2>3 DEF FlagOwned
  <2> QED
    BY <1>1, <1>2, <1>4, <1>5, <2>1, <2>4, <2>5, JobStep
<1>9. ASSUME NEW outs, IsSeq(outs, FullTables(issued)), NEW k \in 0..Len(outs), Broken(outs, k) PROVE FirstRun'
  <2>1. /\ files' = Create(Overlay(files, Written(outs, k)), <<job.level + 1, OutNum(k + 1)>>, {})
        /\ nextFileNum' = nextFileNum + k /\ job' = NoJob /\ isCompacting' = FALSE
    BY <1>9 DEF Broken
  <2>2. KeepsFiles(Used) /\ \A n : KeepsFiles({<<0, n>>})
    BY <1>1, <1>9, <2>1, MergeKeeps
  <2>3. FlagOwned' /\ nextFileNum <= nextFileNum'
    BY <1>2, <1>9, <2>1 DEF FlagOwned, IsSeq
  <2> QED
    BY <1>6, <2>1, <2>2, <2>3
<1> QED
  BY <1>1, <1>3, <1>7, <1>8, <1>9 DEF MergeOutcome, IsSeq

----------------------------------------------------------------------------
\* A level with an edit: no number twice, and the same in memory and read back, when
\* what the edit adds is new to the level and not among what it deletes.
LEMMA EditedLevel ==
  ASSUME NEW edit \in Edits, NEW s, IsSeq(s, Tables), NEW l \in Levels, Apart(s), Apart(edit.adds),
         \A u \in ToSet(s) : u.level = l,
         \A v \in ToSet(edit.adds) : PathOf(v) \notin edit.dels /\ \A u \in ToSet(s) : PathOf(u) # PathOf(v)
  PROVE  /\ Apart(Applied(s, edit, l)) /\ Apart(Replayed(s, edit, l))
         /\ Replayed(s, edit, l) = Applied(s, edit, l)
<1> DEFINE A == {t \in ToSet(edit.adds) : t.level = l}
           a == AddsAt(edit, l)
           w == Without(s, edit.dels)
<1>1. edit.adds \in Seq(Tables) /\ s \in Seq(Tables)
  BY DEF Edits, IsSeq
<1>2. a \in Seq(Tables) /\ ToSet(a) = A
  BY <1>1, AddsElements
<1>3. Apart(a)
  BY <1>1, FilterApart DEF AddsAt
<1>4. w \in Seq(Tables) /\ ToSet(w) \subseteq ToSet(s)
  <2>1. w \in Seq(Tables) /\ ToSet(w) = {t \in ToSet(s) : PathOf(t) \notin edit.dels}
    BY <1>1, WithoutElements DEF PathOf
  <2> HIDE DEF w
  <2> QED
    BY <2>1
<1>5. Apart(w)
  BY <1>1, FilterApart DEF Without
<1> HIDE DEF a, w
<1>6. \A u \in ToSet(s), v \in ToSet(a) : u.num # v.num
  BY <1>2 DEF PathOf
<1> HIDE DEF A
<1>7. ASSUME NEW x, IsSeq(x, Tables), ToSet(x) \subseteq ToSet(s)
      PROVE  \A i \in 1..Len(x), j \in 1..Len(a) : x[i].num # a[j].num
  <2>1. \A i \in 1..Len(x) : x[i] \in ToSet(x)
    BY <1>7, InToSet DEF IsSeq
  <2>2. \A j \in 1..Len(a) : a[j] \in ToSet(a)
    BY <1>2, InToSet
  <2> QED
    BY <1>6, <1>7, <2>1, <2>2
<1>8. Apart(w \o a)
  BY <1>2, <1>3, <1>4, <1>5, <1>7, ConcatApart DEF IsSeq
<1>9. Replayed(s, edit, l) = w \o a
  <2>1. \A t \in ToSet(a) : <<t.level, t.num>> \notin edit.dels
    BY <1>2 DEF PathOf, A
  <2>2. Without(s \o a, edit.dels) = w \o a
    BY <1>1, <1>2, <2>1, DeleteThenAdd DEF w
  <2> QED
    BY <2>2, Zenon DEF Replayed, a
<1>10. Applied(s, edit, l) = w \o a
  BY Zenon DEF Applied, a, w
<1> QED
  BY <1>8, <1>9, <1>10, Zenon

\* LogAndApply, failing or not, of an edit that adds tables with new files: what is
\* listed then, no number twice on a level, and the manifest follows the version.
LEMMA EditStep ==
  ASSUME TypeInv, TypeInv', FirstRun, NEW edit \in Edits, NEW fault, Count(fault),
         LogAndApply(edit, fault), phase' = phase, Apart(edit.adds),
         \A v \in ToSet(edit.adds) : PathOf(v) \notin edit.dels /\ PathOf(v) \notin Used
  PROVE  /\ LevelsApart' /\ (IsUp => Mirrored')
         /\ \A t \in Listed' : t \in Listed \/ t \in ToSet(edit.adds)
         /\ fault # "manifest" => \A t \in Listed' : PathOf(t) \notin edit.dels
         /\ \A l \in Levels : \A t \in TablesAt(l) : PathOf(t) \notin edit.dels => t \in TablesAt(l)'
         /\ fault = "manifest" => levels' = levels
<1> DEFINE L == apply(levels, edit)
<1>1. /\ levels \in TreeOf /\ OnLevels(levels) /\ manifest \in Manifests /\ OnLevels(manifest.levels)
      /\ TreeTypes /\ TreeTypes' /\ manifest.levels \in TreeOf
  BY DEF TypeInv, TreeTypes, OnLevels, Manifests
<1>2. L \in TreeOf /\ \A l \in Levels : L[l] = Applied(levels[l], edit, l)
  BY <1>1, ApplyTypes
<1>3. PICK part \in PartsOf(edit) :
        /\ part \in Edits /\ manifest' \in Manifests /\ manifest'.levels = replay(manifest, part).levels
        /\ fault # "manifest" => part = edit
  BY <1>1, WrittenPart
<1> DEFINE M == manifest'.levels
<1>4. /\ M \in TreeOf /\ \A l \in Levels : M[l] = Replayed(manifest.levels[l], part, l)
      /\ IF fault = "manifest" THEN levels' = levels ELSE levels' = L
  <2>1. \A l \in Levels : M[l] = Replayed(manifest.levels[l], part, l)
    BY <1>1, <1>3, ReplayTypes
  <2>2. M \in TreeOf
    BY <1>3 DEF Manifests
  <2> QED
    BY <2>1, <2>2 DEF LogAndApply
<1> HIDE DEF L, M
<1>5. \A u \in Listed : PathOf(u) \in Used
  BY InUse
<1>6. ASSUME NEW l \in Levels
      PROVE  /\ IsSeq(levels[l], Tables) /\ IsSeq(manifest.levels[l], Tables)
             /\ \A u \in ToSet(levels[l]) : u.level = l /\ u \in Listed
             /\ \A u \in ToSet(manifest.levels[l]) : u.level = l /\ u \in Listed
             /\ Apart(levels[l]) /\ Apart(manifest.levels[l])
  <2>1. levels[l] \in Seq(Tables) /\ manifest.levels[l] \in Seq(Tables)
    BY <1>1 DEF TreeOf
  <2> QED
    BY <1>1, <2>1, ListedTables DEF Listed, FirstRun, LevelsApart, IsSeq
<1>7. part.dels \subseteq edit.dels /\ Apart(part.adds) /\ ToSet(part.adds) \subseteq ToSet(edit.adds)
  <2>1. /\ part.dels \subseteq edit.dels
        /\ \E n \in 0..Len(edit.adds) : part.adds = SubSeq(edit.adds, 1, n)
    BY PartTypes
  <2>2. PICK n \in 0..Len(edit.adds) : part.adds = SubSeq(edit.adds, 1, n)
    BY <2>1
  <2>3. edit.adds \in Seq(Tables)
    BY DEF Edits
  <2>4. Len(part.adds) = n /\ \A i \in 1..n : part.adds[i] = edit.adds[i] /\ i \in 1..Len(edit.adds)
    BY <2>2, <2>3
  <2>5. Apart(part.adds)
    BY <2>4 DEF Apart
  <2>6. ToSet(part.adds) \subseteq ToSet(edit.adds)
    <3> SUFFICES ASSUME NEW t \in ToSet(part.adds) PROVE t \in ToSet(edit.adds)
      OBVIOUS
    <3>1. PICK i \in 1..n : t = part.adds[i]
      BY <1>3, <2>4, InToSet DEF Edits
    <3> QED
      BY <2>3, <2>4, <3>1, InToSet
  <2> QED
    BY <2>1, <2>5, <2>6
<1>8. ASSUME NEW l \in Levels, NEW s, IsSeq(s, Tables), Apart(s), \A u \in ToSet(s) : u.level = l /\ u \in Listed
      PROVE  /\ Apart(Applied(s, edit, l)) /\ Apart(Replayed(s, part, l))
             /\ Replayed(s, edit, l) = Applied(s, edit, l)
  <2>1. \A v \in ToSet(edit.adds) : PathOf(v) \notin edit.dels /\ \A u \in ToSet(s) : PathOf(u) # PathOf(v)
    BY <1>5, <1>8
  <2>2. \A v \in ToSet(part.adds) : PathOf(v) \notin part.dels /\ \A u \in ToSet(s) : PathOf(u) # PathOf(v)
    BY <1>7, <2>1
  <2>3. Apart(Applied(s, edit, l)) /\ Replayed(s, edit, l) = Applied(s, edit, l)
    BY <1>8, <2>1, EditedLevel
  <2>4. Apart(Replayed(s, part, l))
    BY <1>3, <1>7, <1>8, <2>2, EditedLevel
  <2> QED
    BY <2>3, <2>4
<1>9. ASSUME NEW l \in Levels
      PROVE  /\ Apart(L[l]) /\ Apart(M[l])
             /\ Replayed(levels[l], edit, l) = Applied(levels[l], edit, l)
  BY <1>2, <1>4, <1>6, <1>8
<1>10. LevelsApart'
  BY <1>4, <1>6, <1>9 DEF LevelsApart, M
<1>11. IsUp => Mirrored'
  <2> SUFFICES ASSUME IsUp, faults' = 0 PROVE manifest'.levels = levels'
    BY DEF Mirrored, IsUp
  <2>1. faults = 0 /\ fault = "none"
    BY DEF Count, TypeInv, Counters
  <2>2. manifest.levels = levels
    BY <2>1 DEF FirstRun, Mirrored
  <2>3. \A l \in Levels : M[l] = L[l]
    BY <1>2, <1>3, <1>4, <1>9, <2>1, <2>2
  <2>4. M = L
    BY <1>2, <1>4, <2>3 DEF TreeOf
  <2> QED
    BY <1>4, <2>1, <2>4 DEF M
<1>12. ASSUME NEW l \in Levels, NEW t
       PROVE  /\ t \in ToSet(L[l]) <=> \/ t \in ToSet(levels[l]) /\ PathOf(t) \notin edit.dels
                                       \/ t \in ToSet(edit.adds) /\ t.level = l
              /\ t \in ToSet(M[l]) <=> /\ PathOf(t) \notin part.dels
                                       /\ \/ t \in ToSet(manifest.levels[l])
                                          \/ t \in ToSet(part.adds) /\ t.level = l
  <2> DEFINE x == levels[l]
             y == manifest.levels[l]
  <2>1. x \in Seq(Tables) /\ y \in Seq(Tables)
    BY <1>6 DEF IsSeq
  <2>2. L[l] = Applied(x, edit, l) /\ M[l] = Replayed(y, part, l)
    BY <1>2, <1>4
  <2> HIDE DEF x, y
  <2>3. t \in ToSet(Applied(x, edit, l)) <=> \/ t \in ToSet(x) /\ PathOf(t) \notin edit.dels
                                             \/ t \in ToSet(edit.adds) /\ t.level = l
    BY <2>1, AppliedTable
  <2>4. part \in Edits
    BY <1>3
  <2>5. t \in ToSet(Replayed(y, part, l)) <=> /\ PathOf(t) \notin part.dels
                                              /\ \/ t \in ToSet(y)
                                                 \/ t \in ToSet(part.adds) /\ t.level = l
    BY <2>1, <2>4, ReplayedTable
  <2> QED
    BY <2>2, <2>3, <2>5, Zenon DEF x, y
<1>13. ASSUME NEW t \in Listed'
       PROVE  /\ t \in Listed \/ t \in ToSet(edit.adds)
              /\ fault # "manifest" => PathOf(t) \notin edit.dels
  <2>1. PICK l \in Levels : t \in ToSet(levels'[l]) \/ t \in ToSet(manifest'.levels[l])
    BY DEF Listed, LiveTables, TablesAt, ManifestTables
  <2>2. t \in ToSet(levels[l]) \/ t \in ToSet(manifest.levels[l]) => t \in Listed
    BY <1>6
  <2> QED
    BY <1>3, <1>4, <1>7, <1>12, <2>1, <2>2 DEF M
<1>14. ASSUME NEW l \in Levels, NEW t \in TablesAt(l), PathOf(t) \notin edit.dels PROVE t \in TablesAt(l)'
  BY <1>4, <1>12, <1>14 DEF TablesAt
<1> QED
  BY <1>4, <1>10, <1>11, <1>13, <1>14

\* The table of a flush is listed: its file is whole, and its number its own.
LEMMA FlushInstallFirst == ASSUME TypeInv, TypeInv', FirstRun, FlushInstall PROVE FirstRun'
<1> USE DEF ctlVars, memVars, walVars, compVars, histVars
<1> DEFINE n == fl.task.num
           q == <<0, n>>
<1>1. PICK fault : /\ fl.pc = "install" /\ mu = "free" /\ Count(fault) /\ LogAndApply(FlushEdit, fault)
                   /\ fl' = [fl EXCEPT !.pc = "cleanup"]
                   /\ UNCHANGED <<nextFileNum, isCompacting, job, files, flushQ, phase, starts, rv, cl>>
  BY DEF FlushInstall
<1>2. /\ IsUp /\ job.pc # "remove" /\ faults <= faults' /\ fl \in Flushers(issued) /\ fl.task \in Tasks(issued) /\ History
      /\ faults \in Nat /\ faults' \in Nat /\ nextFileNum \in Nat
  BY <1>1, UpFacts, CountGrows DEF TypeInv, Locks, FlusherTypes, Counters
<1>3. fl.task.mt \in (SUBSET issued) \ {{}} /\ n \in Nat /\ 0 \in Levels
  BY <1>2, ConstantTypes DEF Tasks, Levels
<1>4. PICK t0 : t0 = TableMeta(0, n, fl.task.mt)
  OBVIOUS
<1>5. t0 \in Tables /\ t0.level = 0 /\ t0.num = n /\ PathOf(t0) = q
  BY <1>2, <1>3, <1>4, MetaTypes DEF PathOf
<1>6. /\ FlushEdit \in Edits /\ FlushEdit.dels = {} /\ FlushEdit.adds = <<t0>>
      /\ ToSet(FlushEdit.adds) = {t0} /\ Apart(FlushEdit.adds)
  <2>1. FlushEdit \in Edits /\ FlushEdit.dels = {} /\ FlushEdit.adds = <<t0>>
    BY <1>1, <1>4, FlushEditTypes
  <2>2. ToSet(<<t0>>) = {t0} /\ Apart(<<t0>>)
    BY DEF ToSet, Apart
  <2> QED
    BY <2>1, <2>2
<1>7. n \in FlNums /\ n \in TaskNums /\ q \notin Used /\ n < nextFileNum
  <2>1. n \in FlNums
    BY <1>1 DEF FlNums
  <2> QED
    BY <2>1, TaskNumTypes, Holders
<1>8. q \in DOMAIN files /\ files[q] = fl.task.mt
  BY <1>1 DEF FirstRun, FlushedWhole
<1>9. fl'.pc = "cleanup"
  BY <1>1, <1>2 DEF Flushers
<1>10. /\ LevelsApart' /\ Mirrored' /\ \A t \in Listed' : t \in Listed \/ t = t0
       /\ \A l \in Levels : TablesAt(l) \subseteq TablesAt(l)'
  <2>1. \A v \in ToSet(FlushEdit.adds) : PathOf(v) \notin FlushEdit.dels /\ PathOf(v) \notin Used
    BY <1>5, <1>6, <1>7
  <2>2. /\ LevelsApart' /\ (IsUp => Mirrored')
        /\ \A t \in Listed' : t \in Listed \/ t \in ToSet(FlushEdit.adds)
        /\ \A l \in Levels : \A t \in TablesAt(l) : PathOf(t) \notin FlushEdit.dels => t \in TablesAt(l)'
    BY <1>1, <1>6, <2>1, EditStep
  <2> QED
    BY <1>2, <1>6, <2>2
<1>11. LiveTables \subseteq LiveTables'
  BY <1>10 DEF LiveTables
<1> HIDE DEF q
<1>12. \A p \in Used' : p \in Used \/ p = q
  <2>1. \A p \in Used' : \E t \in Listed' : p = PathOf(t)
    BY <1>1, <1>2 DEF Used
  <2> QED
    BY <1>5, <1>10, <2>1, InUse
<1>13. UsedBelow'
  <2>1. q[2] = n
    BY DEF q
  <2>2. \A p \in Used : p[2] < nextFileNum
    BY <1>2 DEF FirstRun, UsedBelow
  <2> QED
    BY <1>1, <1>7, <1>12, <2>1, <2>2 DEF UsedBelow
<1>14. ASSUME NEW t, Whole(t) PROVE Whole(t)'
  BY <1>1, <1>14 DEF Whole, Readable
<1>15. Whole(t0)'
  <2>1. Whole(t0)
    BY <1>3, <1>4, <1>5, <1>8 DEF Whole, Readable
  <2> QED
    BY <1>14, <2>1
<1>16. WholeTables'
  BY <1>10, <1>14, <1>15 DEF FirstRun, WholeTables
<1>17. TasksApart' /\ TasksFresh'
  <2>1. FlNums' = {}
    BY <1>9 DEF FlNums
  <2>2. HeldCalls' = HeldCalls /\ flushQ' = flushQ /\ rv' = rv
    BY <1>1 DEF HeldCalls
  <2>3. Disjoint(HeldCalls, SeqNums(flushQ), SeqNums(rv.tasks), FlNums)
    BY DEF FirstRun, TasksApart
  <2>4. Disjoint(HeldCalls, SeqNums(flushQ), SeqNums(rv.tasks), {})
    BY <2>3 DEF Disjoint
  <2>5. TasksApart'
    BY <1>1, <2>1, <2>2, <2>4 DEF FirstRun, TasksApart
  <2>6. \A k \in TaskNums' : k \in TaskNums /\ k # n
    <3> DEFINE U == UNION {HeldCalls[c] : c \in Clients}
    <3>1. TaskNums = U \cup SeqNums(flushQ) \cup SeqNums(rv.tasks) \cup FlNums
      BY Zenon DEF TaskNums, AllOf
    <3>2. TaskNums' = U \cup SeqNums(flushQ) \cup SeqNums(rv.tasks)
      BY <2>1, <2>2 DEF TaskNums, AllOf
    <3>3. n \notin U /\ n \notin SeqNums(flushQ) /\ n \notin SeqNums(rv.tasks)
      BY <1>7, <2>3 DEF Disjoint
    <3> HIDE DEF U
    <3> QED
      BY <3>1, <3>2, <3>3
  <2> SUFFICES ASSUME NEW k \in TaskNums' PROVE k < nextFileNum' /\ <<0, k>> \notin Used'
    BY <2>5 DEF TasksFresh
  <2>7. k \in TaskNums /\ k # n
    BY <2>6
  <2>8. k < nextFileNum /\ <<0, k>> \notin Used
    BY <2>7, Holders
  <2>9. <<0, k>> # q
    BY <2>7 DEF q
  <2> QED
    BY <1>1, <1>12, <2>8, <2>9
<1>18. JobInv'
  <2>1. job.level \in Nat /\ job.level \in Levels /\ job.outs \in Seq(Tables)
    BY ConstantTypes DEF TypeInv, Jobs, Levels
  <2>2. \A x : <<job.level + 1, x>> # q
    BY <2>1 DEF q
  <2>3. job.pc = "begin" => ToSet(job.inputs) \subseteq TablesAt(job.level)'
    <3>1. TablesAt(job.level)' = ToSet(levels'[job.level])
      BY <1>1 DEF TablesAt
    <3>2. TablesAt(job.level) \subseteq ToSet(levels'[job.level])
      BY <1>10, <2>1 DEF TablesAt
    <3> QED
      BY <3>1, <3>2 DEF FirstRun, JobInv
  <2>4. job.pc \in {"begin", "merge"} => job.out < nextFileNum' /\ OutPath' \notin Used'
    <3>1. OutPath' = OutPath /\ OutPath # q
      BY <1>1, <2>2 DEF OutPath
    <3> QED
      BY <1>1, <1>12, <3>1 DEF FirstRun, JobInv
  <2>5. job.pc \in {"merge", "install"} => ToSet(job.all) \subseteq LiveTables'
    BY <1>11 DEF FirstRun, JobInv
  <2>6. ASSUME job.pc = "install", NEW t \in ToSet(job.outs)
        PROVE  t.level = job.level + 1 /\ t.num < nextFileNum' /\ PathOf(t) \notin Used' /\ Whole(t)'
    <3>1. t.level = job.level + 1 /\ t.num < nextFileNum /\ PathOf(t) \notin Used /\ Whole(t)
      BY <2>6 DEF FirstRun, JobInv
    <3>2. PathOf(t) # q
      BY <2>2, <3>1 DEF PathOf
    <3> QED
      BY <1>1, <1>12, <1>14, <3>1, <3>2
  <2>7. job.pc = "install" => Apart(job.outs)
    BY DEF FirstRun, JobInv
  <2> QED
    BY <1>1, <1>2, <2>3, <2>4, <2>5, <2>6, <2>7 DEF JobInv
<1>19. Fresh' /\ NoReplay' /\ FlushedWhole' /\ FlagOwned'
  <2>1. Fresh' /\ NoReplay'
    BY <1>1, <1>2 DEF FirstRun, Fresh, NoReplay, IsUp
  <2>2. FlushedWhole' /\ FlagOwned'
    BY <1>1, <1>2, <1>9 DEF FirstRun, FlushedWhole, FlagOwned
  <2> QED
    BY <2>1, <2>2
<1> QED
  BY <1>10, <1>13, <1>16, <1>17, <1>18, <1>19 DEF FirstRun

\* The outputs of a compaction are listed in the place of its inputs, which nobody
\* lists then: not the manifest either.
LEMMA CompactInstallFirst == ASSUME TypeInv, TypeInv', FirstRun, CompactInstall PROVE FirstRun'
<1> USE DEF ctlVars, memVars, walVars, histVars
<1>1. PICK fault : /\ job.pc = "install" /\ mu = "free" /\ Count(fault) /\ LogAndApply(CompactionEdit, fault)
                   /\ \/ job' = NoJob /\ isCompacting' = FALSE
                      \/ fault # "manifest" /\ job' = [job EXCEPT !.pc = "remove"]
                   /\ UNCHANGED <<nextFileNum, files, flushQ, fl, phase, starts, rv, cl>>
  BY DEF CompactInstall
<1>2. /\ IsUp /\ faults <= faults' /\ job \in Jobs /\ job.level \in Nat
      /\ job.outs \in Seq(Tables) /\ job.all \in Seq(Tables) /\ nextFileNum \in Nat
  BY <1>1, UpFacts, CountGrows DEF TypeInv, Jobs, Counters
<1>3. /\ CompactionEdit \in Edits /\ CompactionEdit.dels = Paths(job.all) /\ CompactionEdit.adds = job.outs
  BY CompactionEditTypes
<1>4. /\ Apart(job.outs) /\ ToSet(job.all) \subseteq Listed
      /\ \A t \in ToSet(job.outs) : /\ t.level = job.level + 1 /\ t.num < nextFileNum
                                    /\ PathOf(t) \notin Used /\ Whole(t)
  BY <1>1 DEF FirstRun, JobInv, Listed
<1>5. Paths(job.all) \subseteq Used
  BY <1>2, <1>4, PathsOf, InUse
<1>6. /\ LevelsApart' /\ Mirrored' /\ \A t \in Listed' : t \in Listed \/ t \in ToSet(job.outs)
      /\ fault # "manifest" => \A t \in Listed' : PathOf(t) \notin Paths(job.all)
  <2>1. \A v \in ToSet(job.outs) : PathOf(v) \notin Paths(job.all) /\ PathOf(v) \notin Used
    BY <1>4, <1>5
  <2>2. /\ LevelsApart' /\ (IsUp => Mirrored')
        /\ \A t \in Listed' : t \in Listed \/ t \in ToSet(CompactionEdit.adds)
        /\ fault # "manifest" => \A t \in Listed' : PathOf(t) \notin CompactionEdit.dels
    BY <1>1, <1>3, <1>4, <2>1, EditStep
  <2> QED
    BY <1>2, <1>3, <2>2
<1>7. \/ job'.pc = "none" /\ isCompacting' = FALSE
      \/ fault # "manifest" /\ job'.pc = "remove" /\ job'.all = job.all
  <2>1. CASE job' = NoJob /\ isCompacting' = FALSE
    BY <2>1 DEF NoJob
  <2>2. CASE fault # "manifest" /\ job' = [job EXCEPT !.pc = "remove"]
    BY <1>2, <2>2 DEF Jobs
  <2> QED
    BY <1>1, <2>1, <2>2
<1>8. \A p \in Used' : p \in Used \/ \E t \in ToSet(job.outs) : p = PathOf(t)
  <2>1. \A p \in Used' : (\E t \in Listed' : p = PathOf(t)) \/ p \in Paths(job.all)
    BY <1>7 DEF Used
  <2> QED
    BY <1>5, <1>6, <2>1, InUse
<1>9. UsedBelow'
  <2>1. \A p \in Used : p[2] < nextFileNum
    BY <1>2 DEF FirstRun, UsedBelow
  <2>2. \A t \in ToSet(job.outs) : PathOf(t)[2] < nextFileNum
    BY <1>4 DEF PathOf
  <2> QED
    BY <1>1, <1>8, <2>1, <2>2 DEF UsedBelow
<1>10. WholeTables'
  <2>1. ASSUME NEW t, Whole(t) PROVE Whole(t)'
    BY <1>1, <2>1 DEF Whole, Readable
  <2> QED
    BY <1>4, <1>6, <2>1 DEF FirstRun, WholeTables
<1>11. TasksApart' /\ TasksFresh'
  <2>1. TasksApart' /\ TaskNums' = TaskNums
    BY <1>1 DEF FirstRun, TasksApart, TaskNums, HeldCalls, FlNums
  <2> SUFFICES ASSUME NEW k \in TaskNums PROVE k < nextFileNum' /\ <<0, k>> \notin Used'
    BY <2>1 DEF TasksFresh
  <2> DEFINE q == <<0, k>>
  <2>2. k < nextFileNum /\ q \notin Used
    BY Holders
  <2>3. ASSUME NEW t \in ToSet(job.outs) PROVE q # PathOf(t)
    <3>1. PathOf(t) = <<job.level + 1, t.num>>
      BY <1>4 DEF PathOf
    <3> QED
      BY <1>2, <3>1
  <2> HIDE DEF q
  <2>4. q \notin Used'
    BY <1>8, <2>2, <2>3
  <2> QED
    BY <1>1, <2>2, <2>4 DEF q
<1>12. JobInv' /\ FlagOwned'
  <2>1. CASE job'.pc = "none" /\ isCompacting' = FALSE
    BY <2>1 DEF JobInv, FlagOwned
  <2>2. CASE fault # "manifest" /\ job'.pc = "remove" /\ job'.all = job.all
    BY <1>6, <2>2 DEF JobInv, FlagOwned
  <2> QED
    BY <1>7, <2>1, <2>2
<1>13. Fresh' /\ NoReplay' /\ FlushedWhole'
  BY <1>1, <1>2 DEF FirstRun, Fresh, NoReplay, FlushedWhole, IsUp
<1> QED
  BY <1>6, <1>9, <1>10, <1>11, <1>12, <1>13 DEF FirstRun

----------------------------------------------------------------------------
\* A step that numbers no record keeps the order of the numbers.
LEMMA NumbersFrame ==
  ASSUME NumberedInOrder, issued' = issued, starts' = starts, seqNum' = seqNum \/ ~IsUp',
         IsUp' => IsUp, phase' = "recovering" => phase = "recovering"
  PROVE  NumberedInOrder'
BY DEF NumberedInOrder

\* New records are numbered as they come.
LEMMA WriteNumbers ==
  ASSUME TypeInv, FirstRun, NumberedInOrder, NEW c \in Clients, Put(c) \/ Delete(c) \/ WriteBatch(c)
  PROVE  NumberedInOrder'
<1>1. PICK n \in Nat \ {0} : \E ks \in [1..n -> Keys], ds \in [1..n -> BOOLEAN] : Starts(c, ks, ds)
  BY WriteStarts
<1>2. PICK ks \in [1..n -> Keys], ds \in [1..n -> BOOLEAN] : Starts(c, ks, ds)
  BY <1>1
<1> DEFINE recs == NewRecords(ks, ds)
           C == Cardinality(issued)
<1>3. /\ phase = "up" /\ phase' = phase /\ starts' = starts /\ seqNum' = seqNum + Len(recs)
      /\ issued' = issued \cup ToSet(recs) /\ C + Len(recs) <= MaxWrites
  BY <1>2 DEF Starts, Start, ctlVars
<1>4. History
  BY DEF TypeInv
<1>5. /\ Len(recs) = n /\ Cardinality(issued \cup ToSet(recs)) = C + n
      /\ \A r \in ToSet(recs) : \E i \in 1..n : r.seq = seqNum + i /\ r.val = C + i
  BY <1>3, <1>4, NewIssued
<1>6. seqNum = C /\ \A r \in issued : r.seq = r.val
  BY <1>3 DEF NumberedInOrder, IsUp
<1>7. starts # 0
  BY <1>3 DEF FirstRun, Fresh
<1> HIDE DEF recs, C
<1>8. \A r \in issued' : r.seq = r.val
  BY <1>3, <1>5, <1>6
<1>9. seqNum' = Cardinality(issued')
  BY <1>3, <1>5, <1>6
<1> QED
  BY <1>3, <1>7, <1>8, <1>9 DEF NumberedInOrder

\* The steps of clients, flusher, compactor, snapshots and recovery before the first
\* restart.
LEMMA NextNumbers ==
  ASSUME TypeInv, FirstRun, NumberedInOrder, Next, starts' <= 1
  PROVE  NumberedInOrder'
<1> USE DEF ctlVars, histVars, IsUp
<1>1. ASSUME NEW c \in Clients, ClientNext(c) \/ CloseReturn(c) PROVE NumberedInOrder'
  <2>1. CASE Put(c) \/ Delete(c) \/ WriteBatch(c)
    BY <2>1, WriteNumbers
  <2>2. CASE Stall(c) \/ ReadWal(c) \/ SyncReturn(c) \/ Send(c)
    BY <2>2, NumbersFrame DEF Stall, ReadWal, SyncReturn, Send
  <2>3. CASE AppendWal(c)
    BY <2>3, NumbersFrame DEF AppendWal
  <2>4. CASE Apply(c)
    BY <2>4, NumbersFrame DEF Apply
  <2>5. CASE Sync(c) \/ Close(c)
    BY <2>5, NumbersFrame DEF Sync, Close
  <2>6. CASE RotateForSync(c)
    <3>1. IsUp
      BY <2>6, UpFacts DEF RotateForSync
    <3>2. UNCHANGED <<issued, starts, seqNum>> /\ phase' \in {"up", phase}
      BY <2>6 DEF RotateForSync
    <3> QED
      BY <3>1, <3>2, NumbersFrame
  <2>7. CASE CloseReturn(c)
    BY <2>7, NumbersFrame DEF CloseReturn
  <2> QED
    BY <1>1, <2>1, <2>2, <2>3, <2>4, <2>5, <2>6, <2>7 DEF ClientNext
<1>2. CASE FlusherNext
  BY <1>2, NumbersFrame DEF FlusherNext, FlushTake, FlushWrite, FlushInstall, FlushCleanup
<1>3. CASE CompactorNext
  <2>1. CASE CompactMerge
    BY <2>1, MergeSteps, NumbersFrame
  <2>2. CASE CompactBegin \/ CompactInstall \/ CompactRemove
    BY <2>2, NumbersFrame DEF CompactBegin, CompactInstall, CompactRemove
  <2>3. CASE CompactDone \/ Reschedule \/ RescheduleClear
    BY <2>3, NumbersFrame DEF CompactDone, Reschedule, RescheduleClear
  <2> QED
    BY <1>3, <2>1, <2>2, <2>3 DEF CompactorNext
<1>4. CASE SnapshotNext
  BY <1>4, NumbersFrame DEF SnapshotNext, NewSnapshot, Release
<1>5. CASE RecoveryNext
  <2>1. CASE New
    <3>1. starts = 0
      BY <2>1 DEF New, TypeInv, Counters
    <3>2. issued = {} /\ manifest.lastSeq = 0
      BY <3>1 DEF NumberedInOrder, FirstRun, Fresh, NoManifest
    <3>3. issued' = {} /\ seqNum' = 0
      BY <2>1, <3>2 DEF New
    <3>4. Cardinality({}) = 0
      BY FS_EmptySet
    <3> QED
      BY <3>3, <3>4 DEF NumberedInOrder
  <2>2. CASE RecoverFails
    BY <2>2, NumbersFrame DEF RecoverFails
  <2>3. CASE RecoverFinish
    <3>1. IsUp
      BY <2>3, UpFacts DEF RecoverFinish
    <3> QED
      BY <2>3, <3>1, NumbersFrame DEF RecoverFinish
  <2>4. CASE RecoverOpen \/ RecoverRecord \/ RecoverSend \/ RecoverLogDone
    BY <2>4 DEF RecoverOpen, RecoverRecord, RecoverSend, RecoverLogDone, FirstRun, NoReplay
  <2> QED
    BY <1>5, <2>1, <2>2, <2>3, <2>4, NotTornFirst DEF RecoveryNext
<1>6. CASE Crash
  BY <1>6, NumbersFrame DEF Crash
<1>7. CASE Quiet
  BY <1>7, NumbersFrame DEF Quiet, vars
<1> QED
  BY <1>1, <1>2, <1>3, <1>4, <1>5, <1>6, <1>7 DEF Next

----------------------------------------------------------------------------
\* A step that changes nothing the invariant is about.
LEMMA SameFirst ==
  ASSUME FirstRun,
         UNCHANGED <<phase, starts, faults, nextFileNum, levels, manifest, files, flushQ, fl, isCompacting, job, cl,
                     rv, wals>>
  PROVE  FirstRun'
<1>2. IsUp' = IsUp /\ Listed' = Listed /\ LiveTables' = LiveTables /\ OutPath' = OutPath
  BY DEF IsUp, Listed, LiveTables, ManifestTables, TablesAt, OutPath
<1>3. Used' = Used
  BY <1>2 DEF Used
<1>4. TasksApart' /\ TasksFresh'
  BY <1>3 DEF FirstRun, TasksApart, TasksFresh, TaskNums, HeldCalls, FlNums
<1>5. ASSUME NEW t PROVE Whole(t)' = Whole(t)
  BY DEF Whole, Readable
<1>6. UsedBelow' /\ LevelsApart' /\ WholeTables' /\ FlushedWhole'
  BY <1>2, <1>3, <1>5 DEF FirstRun, UsedBelow, LevelsApart, WholeTables, FlushedWhole
<1>7. JobInv'
  BY <1>2, <1>3, <1>5 DEF FirstRun, JobInv, TablesAt
<1>8. Fresh' /\ NoReplay' /\ Mirrored' /\ FlagOwned'
  BY <1>2 DEF FirstRun, Fresh, NoReplay, Mirrored, FlagOwned
<1> QED
  BY <1>4, <1>6, <1>7, <1>8 DEF FirstRun

\* Every step before the first restart keeps FirstRun.
LEMMA NextFirst ==
  ASSUME TypeInv, TypeInv', FirstRun, Next, starts' <= 1
  PROVE  FirstRun'
<1>1. ASSUME NEW c \in Clients, ClientNext(c) PROVE FirstRun'
  BY <1>1, WriteFirst, WaitingFirst, AppendWalFirst, ApplyFirst, SendFirst, SyncFirst, RotateForSyncFirst DEF ClientNext
<1>2. CASE Crash \/ (\E c \in Clients : CloseReturn(c))
  BY <1>2, StopFirst
<1>3. CASE FlusherNext
  BY <1>3, FlushTakeFirst, FlushWriteFirst, FlushInstallFirst, FlushCleanupFirst DEF FlusherNext
<1>4. CASE CompactorNext
  BY <1>4, CompactBeginFirst, CompactMergeFirst, CompactInstallFirst, CompactRemoveFirst, RescheduleFirst DEF CompactorNext
<1>5. CASE SnapshotNext
  BY <1>5, SnapshotFirst
<1>6. CASE RecoveryNext
  <2>1. CASE New
    <3>1. starts = 0
      BY <2>1 DEF New, TypeInv, Counters
    <3> QED
      BY <2>1, <3>1, NewFirst
  <2> QED
    BY <1>6, <2>1, NotTornFirst, RecoverFirst, RecoverFailsFirst DEF RecoveryNext
<1>7. CASE Quiet
  BY <1>7, SameFirst DEF Quiet, vars, ctlVars, memVars, walVars, vsVars, compVars, histVars
<1> QED
  BY <1>1, <1>2, <1>3, <1>4, <1>5, <1>6, <1>7 DEF Next

\* A start is counted, and nothing else changes the count.
LEMMA StartsCounted == ASSUME TypeInv, [Next]_vars PROVE starts <= starts'
<1> USE DEF ctlVars
<1>1. starts \in Nat
  BY DEF TypeInv, Counters
<1>2. CASE \E c \in Clients : ClientNext(c) \/ CloseReturn(c)
  <2>1. PICK c \in Clients : ClientNext(c) \/ CloseReturn(c)
    BY <1>2
  <2>2. CASE Put(c) \/ Delete(c) \/ WriteBatch(c)
    <3>1. PICK n \in Nat \ {0} : \E ks \in [1..n -> Keys], ds \in [1..n -> BOOLEAN] : Starts(c, ks, ds)
      BY <2>2, WriteStarts
    <3>2. starts' = starts
      BY <3>1 DEF Starts, Start
    <3> QED
      BY <1>1, <3>2
  <2>3. CASE Stall(c) \/ ReadWal(c) \/ SyncReturn(c) \/ Send(c)
    BY <1>1, <2>3 DEF Stall, ReadWal, SyncReturn, Send
  <2>4. CASE AppendWal(c) \/ Apply(c)
    <3>1. starts' = starts
      BY <2>4 DEF AppendWal, Apply
    <3> QED
      BY <1>1, <3>1
  <2>5. CASE Sync(c) \/ Close(c) \/ RotateForSync(c) \/ CloseReturn(c)
    BY <1>1, <2>5 DEF Sync, Close, RotateForSync, CloseReturn
  <2> QED
    BY <2>1, <2>2, <2>3, <2>4, <2>5 DEF ClientNext
<1>3. CASE FlusherNext
  BY <1>1, <1>3 DEF FlusherNext, FlushTake, FlushWrite, FlushInstall, FlushCleanup
<1>4. CASE CompactorNext
  <2>1. CASE CompactMerge
    BY <1>1, <2>1, MergeSteps
  <2> QED
    BY <1>1, <1>4, <2>1 DEF CompactorNext, CompactBegin, CompactInstall, CompactRemove, CompactDone, Reschedule,
       RescheduleClear
<1>5. CASE SnapshotNext \/ Crash
  BY <1>1, <1>5 DEF SnapshotNext, NewSnapshot, Release, Crash
<1>6. CASE RecoveryNext
  BY <1>1, <1>6 DEF RecoveryNext, New, OpenTorn, RecoverOpen, RecoverRecord, RecoverFails, RecoverSend, RecoverLogDone, RecoverFinish
<1>7. CASE Quiet \/ UNCHANGED vars
  BY <1>1, <1>7 DEF Quiet, vars
<1> QED
  BY <1>2, <1>3, <1>4, <1>5, <1>6, <1>7 DEF Next

\* The inductive invariant holds of an engine that was never started.
LEMMA InitFirst == Init => IInv
<1> SUFFICES ASSUME Init PROVE IInv
  OBVIOUS
<1>1. TypeInv
  BY InitTypes
<1>2. /\ phase = "down" /\ starts = 0 /\ faults = 0 /\ levels = NoLevels /\ manifest = NoManifest /\ wals = <<>>
      /\ flushQ = <<>> /\ fl = FlIdle /\ isCompacting = FALSE /\ job = NoJob /\ rv = RvIdle
      /\ cl = [c \in Clients |-> Idle] /\ issued = {}
  BY DEF Init
<1>3. \A l \in Levels : levels[l] = <<>> /\ manifest.levels[l] = <<>>
  BY <1>2 DEF NoLevels, NoManifest
<1>4. job.pc = "none" /\ fl.pc = "idle" /\ rv.pc = "idle" /\ rv.todo = {} /\ rv.tasks = <<>> /\ DOMAIN wals = {}
  BY <1>2 DEF NoJob, FlIdle, RvIdle
<1>5. LiveTables = {} /\ ManifestTables = {}
  BY <1>3 DEF LiveTables, TablesAt, ManifestTables, ToSet
<1>6. Listed = {} /\ Used = {}
  BY <1>4, <1>5 DEF Listed, Used
<1>7. \A c \in Clients : CallNums(cl[c]) = {} /\ CallApart(cl[c])
  <2>1. Idle.pc = "idle" /\ \A c \in Clients : cl[c] = Idle
    BY <1>2 DEF Idle
  <2> QED
    BY <2>1, NothingPending
<1>8. TasksApart /\ TasksFresh
  <2>1. SeqNums(flushQ) = {} /\ SeqNums(rv.tasks) = {} /\ FlNums = {} /\ Apart(flushQ)
    BY <1>2, <1>4 DEF SeqNums, FlNums, Apart
  <2>2. \A c \in Clients : HeldCalls[c] = {}
    BY <1>7 DEF HeldCalls
  <2>3. Disjoint(HeldCalls, SeqNums(flushQ), SeqNums(rv.tasks), FlNums)
    BY <2>1, <2>2 DEF Disjoint
  <2>4. TaskNums = {}
    <3>1. UNION {HeldCalls[c] : c \in Clients} = {}
      BY <2>2
    <3> QED
      BY <2>1, <3>1 DEF TaskNums, AllOf
  <2> QED
    BY <1>7, <2>1, <2>3, <2>4 DEF TasksApart, TasksFresh
<1>9. UsedBelow /\ WholeTables /\ LevelsApart /\ FlushedWhole
  BY <1>3, <1>4, <1>6 DEF UsedBelow, WholeTables, LevelsApart, Apart, FlushedWhole
<1>10. JobInv /\ Fresh /\ NoReplay /\ Mirrored /\ FlagOwned
  BY <1>2, <1>4 DEF JobInv, Fresh, NoReplay, Mirrored, FlagOwned, IsUp
<1>11. NumberedInOrder
  BY <1>2 DEF NumberedInOrder, IsUp
<1> QED
  BY <1>1, <1>8, <1>9, <1>10, <1>11 DEF IInv, FirstRun

\* Every step keeps the inductive invariant.
LEMMA NextIInv == ASSUME IInv, [Next]_vars PROVE IInv'
<1>1. TypeInv /\ TypeInv'
  BY NextTypes DEF IInv
<1>2. CASE UNCHANGED vars
  <2> USE DEF vars, ctlVars, memVars, walVars, vsVars, compVars, histVars
  <2> SUFFICES ASSUME starts' <= 1 PROVE FirstRun' /\ NumberedInOrder'
    BY <1>1 DEF IInv
  <2>1. FirstRun /\ NumberedInOrder
    BY <1>2 DEF IInv
  <2>2. FirstRun'
    BY <1>2, <2>1, SameFirst
  <2>3. NumberedInOrder'
    BY <1>2, <2>1, NumbersFrame DEF IsUp
  <2> QED
    BY <2>2, <2>3
<1>3. CASE Next
  <2> SUFFICES ASSUME starts' <= 1 PROVE FirstRun' /\ NumberedInOrder'
    BY <1>1 DEF IInv
  <2>1. starts <= 1
    BY <1>1, StartsCounted DEF TypeInv, Counters
  <2>2. FirstRun /\ NumberedInOrder
    BY <2>1 DEF IInv
  <2> QED
    BY <1>1, <1>3, <2>2, NextFirst, NextNumbers
<1> QED
  BY <1>2, <1>3

----------------------------------------------------------------------------
\* What the properties of the runs say is part of IInv, or follows from it.
LEMMA StoredIssued == ASSUME TypeInv PROVE Stored \subseteq issued
<1>1. mt \subseteq issued /\ UNION immt \subseteq issued
  BY DEF TypeInv, MemTypes
<1>2. ASSUME NEW t \in FrozenTasks PROVE t.mt \subseteq issued
  <2>1. ASSUME NEW s \in Seq(Tasks(issued)), NEW x \in ToSet(s) PROVE x.mt \subseteq issued
    <3>1. x \in Tasks(issued)
      BY InToSet
    <3> QED
      BY <3>1 DEF Tasks
  <2>2. CASE t \in ToSet(flushQ)
    BY <2>1, <2>2 DEF TypeInv, FlusherTypes
  <2>3. CASE t \in ToSet(rv.tasks)
    BY <2>1, <2>3 DEF TypeInv, RecoveryTypes, Recoveries
  <2>4. CASE fl.pc \in {"write", "install"} /\ t = fl.task
    BY <2>4 DEF TypeInv, FlusherTypes, Tasks
  <2>5. ASSUME NEW c \in Clients, NEW i \in Pending(cl[c]) PROVE cl[c].tasks[i].mt \subseteq issued
    <3>1. cl[c].tasks[i] \in Tasks(issued)
      BY PendingTasks DEF TypeInv, CallTypes
    <3> QED
      BY <3>1 DEF Tasks
  <2> DEFINE U == UNION {{cl[c].tasks[i] : i \in Pending(cl[c])} : c \in Clients}
  <2>6. t \in U => \E c \in Clients : \E i \in Pending(cl[c]) : t = cl[c].tasks[i]
    OBVIOUS
  <2>7. t \in U \/ t \in ToSet(rv.tasks) \/ t \in ToSet(flushQ) \/ (fl.pc \in {"write", "install"} /\ t = fl.task)
    BY DEF FrozenTasks, UnsentTasks
  <2> HIDE DEF U
  <2> QED
    BY <2>2, <2>3, <2>4, <2>5, <2>6, <2>7
<1>3. TableRecords \subseteq issued
  <2>1. \A p \in DOMAIN files : files[p] \subseteq issued
    BY DEF TypeInv, FileTypes
  <2>2. \A t : FileRecords(t) \subseteq issued
    BY <2>1 DEF FileRecords, Readable
  <2> QED
    BY <2>2 DEF TableRecords
<1> DEFINE F == UNION {t.mt : t \in FrozenTasks}
<1>4. F \subseteq issued
  BY <1>2
<1>5. Stored = mt \cup (UNION immt) \cup F \cup TableRecords
  BY DEF Stored
<1> HIDE DEF F
<1> QED
  BY <1>1, <1>3, <1>4, <1>5

\* The engine satisfies its inductive invariant.
THEOREM EngineInvariant == Spec => []IInv
<1>1. IInv /\ [Next]_vars => IInv'
  BY NextIInv
<1> QED
  BY <1>1, InitFirst, PTL DEF Spec

\* Up to the first restart every table that the version or the manifest lists, also one
\* of an edit of which a failing write left only part, is completely in its file, with
\* the keys it is listed with: flush and compaction write a table before the edit that
\* lists it, remove one after the edit that drops it, and use no file twice.
THEOREM TablesAreOnDisk == Spec => []TablesOnDisk
<1>1. IInv => TablesOnDisk
  BY DEF IInv, FirstRun, WholeTables, Whole, Listed, PathOf, TablesOnDisk
<1> QED
  BY <1>1, EngineInvariant, PTL

\* As long as no file operation fails, what a restart would read back from the manifest
\* is the version in memory: LogAndApply deletes before it adds, replay after.
THEOREM ManifestIsCurrent == Spec => [](starts <= 1 => ManifestCurrent)
<1>1. IInv => (starts <= 1 => ManifestCurrent)
  BY DEF IInv, FirstRun, Mirrored, IsUp, ManifestCurrent
<1> QED
  BY <1>1, EngineInvariant, PTL

\* A compaction runs only while isCompacting is set, and unless a file operation fails
\* the flag is set only while one runs: in particular no compaction finds an input gone
\* and ends without giving the flag back.
THEOREM OneCompactionRuns == Spec => [](starts <= 1 => OneCompaction)
<1>1. IInv => (starts <= 1 => OneCompaction)
  BY DEF IInv, TypeInv, Locks, FirstRun, FlagOwned, OneCompaction
<1> QED
  BY <1>1, EngineInvariant, PTL

\* The types of the runs: those of TypeInv, and no number twice on a level.
LEMMA TypesOK == ASSUME TypeInv, LevelsApart PROVE TypeOK
<1>1. History /\ issued \subseteq Records /\ Cardinality(issued) \in Nat /\ Cardinality(issued) <= MaxWrites
  BY FS_CardinalityType DEF TypeInv, History
<1>2. seqNum \in 0..MaxWrites /\ acked \subseteq issued
  BY <1>1, ConstantTypes DEF History
<1>3. /\ phase \in {"down", "recovering", "up", "closing", "failed"} /\ mu \in {"free", "flusher", "compactor"} \cup Clients
      /\ nextFileNum \in Nat /\ resched \in Nat /\ isCompacting \in BOOLEAN
      /\ (fl.pc = "cleanup" <=> mu = "flusher") /\ (job.pc = "remove" <=> mu = "compactor")
  BY DEF TypeInv, Counters, Locks
<1>4. mt \subseteq Records /\ (\A m \in immt : m # {} /\ m \subseteq Records) /\ Cardinality(immt) <= 1
  <2>1. Cardinality({}) = 0 /\ \A m : Cardinality({m}) = 1
    BY FS_EmptySet, FS_Singleton
  <2>2. CASE immt = {}
    BY <1>1, <2>1, <2>2 DEF TypeInv, MemTypes
  <2>3. CASE \E m \in (SUBSET issued) \ {{}} : immt = {m}
    <3>1. PICK m \in (SUBSET issued) \ {{}} : immt = {m}
      BY <2>3
    <3>2. Cardinality(immt) <= 1
      BY <2>1, <3>1
    <3>3. mt \subseteq issued
      BY DEF TypeInv, MemTypes
    <3> QED
      BY <1>1, <3>1, <3>2, <3>3
  <2> QED
    BY <2>2, <2>3 DEF TypeInv, MemTypes
<1>5. ASSUME NEW s \in Seq(issued) PROVE ToSet(s) \subseteq Records
  BY <1>1, InToSet
<1>6. /\ wal \in Nat \cup {NoWal} /\ closedWals \subseteq Nat
      /\ \A n \in DOMAIN wals : /\ n \in Nat /\ ToSet(wals[n].recs) \subseteq Records
                                /\ wals[n].synced \in 0..Len(wals[n].recs)
                                /\ wals[n].torn \subseteq 0..Len(wals[n].recs)
  <2>1. ASSUME NEW log \in Logs(issued)
        PROVE  ToSet(log.recs) \subseteq Records /\ log.synced \in 0..Len(log.recs) /\ log.torn \subseteq 0..Len(log.recs)
    <3>1. log.recs \in Seq(issued)
      BY DEF Logs
    <3> QED
      BY <1>5, <3>1 DEF Logs
  <2> QED
    BY <2>1 DEF TypeInv, LogTypes, LogNums
<1>7. ASSUME NEW t \in Tables PROVE IsTable(t)
  BY DEF Tables, IsTable
<1>8. ASSUME NEW L \in TreeOf, \A l \in Levels : \A t \in ToSet(L[l]) : t.level = l, \A l \in Levels : Apart(L[l])
      PROVE  IsLevels(L) /\ NumbersOnce(L)
  <2>1. DOMAIN L = Levels /\ \A l \in Levels : L[l] \in Seq(Tables)
    BY DEF TreeOf
  <2>2. ASSUME NEW l \in Levels, NEW t \in ToSet(L[l]) PROVE IsTable(t)
    <3>1. ToSet(L[l]) \subseteq Tables
      BY <2>1, InToSet
    <3> QED
      BY <1>7, <3>1
  <2> QED
    BY <1>8, <2>1, <2>2 DEF IsLevels, NumbersOnce, Apart
<1>9. IsLevels(levels) /\ IsLevels(manifest.levels) /\ NumbersOnce(levels) /\ NumbersOnce(manifest.levels)
  <2>1. levels \in TreeOf /\ manifest.levels \in TreeOf
    BY DEF TypeInv, TreeTypes, Manifests
  <2> QED
    BY <1>8, <2>1 DEF TypeInv, TreeTypes, LevelsApart
<1>10. \A p \in DOMAIN files : p \in Levels \X Nat /\ files[p] \subseteq Records
  BY <1>1 DEF TypeInv, FileTypes
<1>11. ASSUME NEW t \in Tasks(issued) PROVE IsTask(t) /\ t.mt # {}
  BY <1>1 DEF Tasks, IsTask, LogNums
<1>12. ASSUME NEW s \in Seq(Tasks(issued)), NEW t \in ToSet(s) PROVE IsTask(t) /\ t.mt # {}
  BY <1>11, InToSet
<1>13. Len(flushQ) <= FlushChanCap /\ \A t \in ToSet(flushQ) : IsTask(t) /\ t.mt # {}
  BY <1>12 DEF TypeInv, FlusherTypes
<1>14. fl.pc \in {"idle", "write", "install", "cleanup"} /\ IsTask(fl.task)
  <2>1. fl.pc \in {"idle", "write", "install", "cleanup"} /\ fl.task \in Tasks(issued) \cup {NoTask}
    BY DEF TypeInv, FlusherTypes, Flushers
  <2>2. IsTask(NoTask)
    BY DEF IsTask, NoTask, Task
  <2> QED
    BY <1>11, <2>1, <2>2
<1>15. job.pc \in {"none", "begin", "merge", "install", "remove", "done", "clear"}
  BY DEF TypeInv, Jobs
<1>16. ASSUME NEW c \in Clients
       PROVE  /\ cl[c].pc \in {"idle", "stall", "log", "append", "apply", "send", "rotate", "wait"}
              /\ ToSet(cl[c].recs) \subseteq Records /\ \A t \in ToSet(cl[c].tasks) : IsTask(t)
  <2>1. cl[c].pc \in {"idle", "stall", "log", "append", "apply", "send", "rotate", "wait"}
        /\ cl[c].recs \in Seq(issued) /\ cl[c].tasks \in Seq(Tasks(issued))
    BY DEF TypeInv, CallTypes, Calls
  <2> QED
    BY <1>5, <1>12, <2>1
<1> QED
  BY <1>1, <1>2, <1>3, <1>4, <1>6, <1>9, <1>10, <1>13, <1>14, <1>15, <1>16 DEF TypeOK

\* The types of the engine's fields; above all, no level of the version or of the
\* manifest lists a file number twice, on which removing a table by number rests.
THEOREM TypesAreOK == Spec => [](starts <= 1 => TypeOK)
<1>1. IInv => (starts <= 1 => TypeOK)
  BY TypesOK DEF IInv, FirstRun
<1> QED
  BY <1>1, EngineInvariant, PTL
=============================================================================
