------------------------------- MODULE Engine -------------------------------
(***************************************************************************)
(* The storage engine as a whole: the clients' calls, the flusher and the  *)
(* compactor goroutines, snapshots, crashes and recovery, interleaved; and *)
(* the properties that make it correct.                                    *)
(***************************************************************************)
EXTENDS Recovery

\* Nothing is in flight: the engine waits for the next call, which the bounds of
\* the model may exclude; or Close waits for compactions that MaxFileNum has ended.
\* Any other state without a successor is a deadlock.
Quiet ==
  /\ phase # "recovering"
  /\ \A c \in Clients : cl[c] = Idle \/ (cl[c].pc = "wait" /\ resched > 0)
  /\ Flushed /\ job.pc = "none" /\ (resched = 0 \/ nextFileNum >= MaxFileNum)
  /\ UNCHANGED vars

Next ==
  \/ \E c \in Clients : ClientNext(c) \/ CloseReturn(c)
  \/ FlusherNext
  \/ CompactorNext
  \/ SnapshotNext
  \/ RecoveryNext
  \/ Crash
  \/ Quiet

Spec == Init /\ [][Next]_vars

\* A call that has begun goes on, and the two background goroutines run: the Go
\* scheduler runs every goroutine that can, and Engine.mu is handed to waiters.
\* Nobody has to make a call.
Continue(c) == Stall(c) \/ ReadWal(c) \/ AppendWal(c) \/ Apply(c) \/ Send(c)
                 \/ RotateForSync(c) \/ SyncReturn(c) \/ CloseReturn(c)
Fairness ==
  /\ \A c \in Clients : SF_vars(Continue(c))
  /\ SF_vars(FlusherNext)
  /\ SF_vars(CompactorNext)
  /\ WF_vars(RecoveryNext)
FairSpec == Spec /\ Fairness

----------------------------------------------------------------------------
Records == [key : Keys, seq : 1..MaxWrites, del : BOOLEAN, val : 1..MaxWrites]
IKeys   == [key : Keys, seq : 1..MaxWrites]
IsTable(t) ==
  /\ DOMAIN t = {"level", "num", "size", "min", "max"}
  /\ t.level \in Levels /\ t.num \in Nat /\ t.size \in Nat
  /\ t.min \in IKeys /\ t.max \in IKeys
IsLevels(L) ==
  /\ DOMAIN L = Levels
  /\ \A l \in Levels : \A t \in ToSet(L[l]) : IsTable(t) /\ t.level = l
NumbersOnce(L) == \A l \in Levels : \A i, j \in 1..Len(L[l]) : L[l][i].num = L[l][j].num => i = j
IsTask(t) == t.mt \subseteq Records /\ t.num \in Nat /\ t.wal \in Nat \cup {NoWal}

\* The types of the engine's fields, and what the call, flusher and compactor
\* states look like at each of their program points.  A level lists a file number
\* once: apply removes the first table with a number and replay every one, which
\* is the same as long as there is one.  (Not after a restart: a manifest without the
\* largest next file number makes the engine draw numbers again.)
TypeOK ==
  /\ phase \in {"down", "recovering", "up", "closing", "failed"}
  /\ mu \in {"free", "flusher", "compactor"} \cup Clients
  /\ seqNum \in 0..MaxWrites /\ nextFileNum \in Nat
  /\ mt \subseteq Records /\ \A m \in immt : m # {} /\ m \subseteq Records
  /\ Cardinality(immt) <= 1
  /\ wal \in Nat \cup {NoWal} /\ closedWals \subseteq Nat
  /\ \A n \in DOMAIN wals : /\ n \in Nat /\ ToSet(wals[n].recs) \subseteq Records
                            /\ wals[n].synced \in 0..Len(wals[n].recs)
                            /\ wals[n].torn \subseteq 0..Len(wals[n].recs)
  /\ IsLevels(levels) /\ IsLevels(manifest.levels)
  /\ starts <= 1 => NumbersOnce(levels) /\ NumbersOnce(manifest.levels)
  /\ \A p \in DOMAIN files : p \in Levels \X Nat /\ files[p] \subseteq Records
  /\ Len(flushQ) <= FlushChanCap /\ \A t \in ToSet(flushQ) : IsTask(t) /\ t.mt # {}
  /\ fl.pc \in {"idle", "write", "install", "cleanup"} /\ IsTask(fl.task)
  /\ fl.pc = "cleanup" <=> mu = "flusher"
  /\ job.pc \in {"none", "begin", "merge", "install", "remove", "done", "clear"}
  /\ job.pc = "remove" <=> mu = "compactor"
  /\ resched \in Nat /\ isCompacting \in BOOLEAN
  /\ \A c \in Clients :
       /\ cl[c].pc \in {"idle", "stall", "log", "append", "apply", "send", "rotate", "wait"}
       /\ ToSet(cl[c].recs) \subseteq Records /\ \A t \in ToSet(cl[c].tasks) : IsTask(t)
  /\ acked \subseteq issued /\ issued \subseteq Records

\* Mutual exclusion of compactions (the compare-and-swap on isCompacting): a
\* compaction runs only while the flag is set, and without failing file
\* operations the flag is set only while one runs.
OneCompaction ==
  /\ job.pc # "none" => isCompacting
  /\ faults = 0 /\ isCompacting => job.pc # "none"

----------------------------------------------------------------------------
\* A record r is represented in a set of records if it, or a later write of its
\* key, is there; or if a later delete has been issued and everything older than
\* that delete is gone from the set.
Represented(r, S) ==
  \/ \E q \in S : q.key = r.key /\ q.val >= r.val
  \/ \E d \in issued : /\ d.del /\ d.key = r.key /\ d.val >= r.val
                       /\ \A q \in S : q.key = r.key => q.val > d.val

\* Put, Delete and WriteBatch that have returned are not lost: whenever the
\* engine is open it holds every acknowledged write, or what replaced it, in a
\* memtable or a live table; through rotation, flush, compaction, crash and
\* recovery.
NoAckedLost == phase = "up" => \A r \in acked : Represented(r, Stored)

\* What a restart would find: the tables the manifest lists and what can be
\* replayed of the fsynced prefixes of the logs.
ManifestTables == UNION {ToSet(manifest.levels[l]) : l \in Levels}
OnDisk ==
  (UNION {FileRecords(t) : t \in ManifestTables})
    \cup (UNION {ToSet(Replayable(wals[n], wals[n].synced)) : n \in DOMAIN wals})

\* Group commit (SyncBatch) acknowledges a write only when it is on disk, and it
\* stays there: at every moment a crash would leave it, in a log until the flush
\* that removes the log has put its table into the manifest.  (Up to the first
\* restart: recovery removes the logs it has replayed into memory.)
AckedOnDisk == starts <= 1 => \A r \in acked : Represented(r, OnDisk)

\* Version order of the tree: of two versions of a key, the one nearer to the
\* memtable is the newer one (get stops at the first level above 0 that has the
\* key, and compaction lets the inputs' versions replace the next level's).
LevelsOrdered ==
  \A l, m \in Levels : l < m => \A s \in TablesAt(l), t \in TablesAt(m) :
    \A r \in FileRecords(s), q \in FileRecords(t) : r.key = q.key => r.seq > q.seq

\* Up to the first restart, and for what that finds: every table that the Version or
\* the manifest lists is completely on disk with the keys it is listed with.  Flush
\* and compaction write a table before its edit, remove one after it and use no file
\* twice, also when a failing write leaves part of an edit in the manifest.  (A torn
\* manifest lists nothing that can be read; and after a restart an engine that draws
\* file numbers again writes over tables that are listed.)
TablesOnDisk ==
  starts <= 1 => \A t \in LiveTables \cup (IF manifest.torn THEN {} ELSE ManifestTables) :
    /\ Readable(<<t.level, t.num>>)
    /\ TableMeta(t.level, t.num, files[<<t.level, t.num>>]) = t

\* A failing write of the manifest leaves no value behind that the first restart would
\* not find: whatever part of an edit is in the file, for each value in a table of the
\* Version the manifest lists a table with that value or a later one of its key,
\* unless the key was deleted later.  An edit has its additions before its deletions.
\* (Deletes are not kept like that: a tombstone's table can be off the list while an
\* older table is still on it.)
ManifestCovers ==
  starts <= 1 /\ ~manifest.torn =>
    \A r \in TableRecords :
      \/ r.del
      \/ \E t \in ManifestTables : \E q \in FileRecords(t) : q.key = r.key /\ q.val >= r.val
      \/ \E d \in issued : d.del /\ d.key = r.key /\ d.val > r.val

\* The same for deletes: whatever part of an edit is in the manifest, no delete that a
\* table of the Version has is undone by the first restart.
ManifestCoversDeletes ==
  starts <= 1 /\ ~manifest.torn =>
    \A r \in TableRecords : Represented(r, UNION {FileRecords(t) : t \in ManifestTables})

\* A level lists a file number once, also when failures have come before a restart.
ListedOnce == NumbersOnce(levels)

\* The version in memory and the one a restart would read back are the same,
\* whatever the order of flush and compaction edits (apply deletes, then adds;
\* replay adds, then deletes).
ManifestCurrent == phase = "up" /\ faults = 0 => manifest.levels = levels

----------------------------------------------------------------------------
\* The memtables waiting to be flushed are all reachable for get.
NothingHidden == \A t \in FrozenTasks : t.mt \in immt
\* The tables of a level are in key order, as binary search over them needs.
LevelsSorted ==
  \A l \in Levels \ {0} : \A i, j \in 1..Len(levels[l]) :
    i < j => levels[l][i].max.key < levels[l][j].min.key

\* Get returns the newest version the engine holds, provided get can see every
\* memtable and every level is in key order (neither of which the code ensures).
ReadsNewest ==
  phase = "up" /\ mu = "free" /\ NothingHidden /\ LevelsSorted =>
    \A k \in Keys : Get(k) = UserView(VisibleAt(k, MaxUint64))

\* The newest write of a key has returned.
LastIssued(k) == {r \in issued : r.key = k /\ \A q \in issued : q.key = k => q.val <= r.val}
Settled(k) == LastIssued(k) \subseteq acked

\* A key whose last write is an acknowledged Put is found by Get, also when no
\* memtable is hidden from it.
PutIsFound == phase = "up" /\ mu = "free" /\ NothingHidden =>
  \A k \in Keys : Settled(k) /\ UserView(LastIssued(k)) # {} => Get(k) # {}

\* A key whose last write is an acknowledged Delete is not found by Get.
DeleteIsSeen == phase = "up" /\ mu = "free" =>
  \A k \in Keys : Settled(k) /\ LastIssued(k) # {} /\ UserView(LastIssued(k)) = {} => Get(k) = {}

\* A read of k through a snapshot gives the version it was taken with.
ReadsAsTaken(sn, k) == get(k, sn.seq) = UserView(sn.view[k])

\* Reads through a snapshot that was taken while no write was in progress give
\* what they gave then, for as long as the engine still holds the version, and
\* where get can see every memtable and every level is in key order: neither later
\* writes nor where flush and compaction move the version matter.
SnapshotReads ==
  phase = "up" /\ mu = "free" /\ NothingHidden /\ LevelsSorted =>
    \A s \in Snaps : \A sn \in snaps[s] : \A k \in Keys :
      sn.quiet /\ sn.view[k] \subseteq Stored => ReadsAsTaken(sn, k)

\* The same whether or not the engine still holds the version: that compaction
\* keeps what live snapshots see.
SnapshotKeepsVersions ==
  phase = "up" /\ mu = "free" /\ NothingHidden /\ LevelsSorted =>
    \A s \in Snaps : \A sn \in snaps[s] : \A k \in Keys : sn.quiet => ReadsAsTaken(sn, k)

\* The same for snapshots taken while writes are in progress.
SnapshotStable ==
  phase = "up" /\ mu = "free" /\ NothingHidden /\ LevelsSorted =>
    \A s \in Snaps : \A sn \in snaps[s] : \A k \in Keys : ReadsAsTaken(sn, k)

\* When a Sync that rotated the memtable returns, everything that memtable held,
\* or what replaced it, is in tables that the manifest lists.
SyncFlushes ==
  [][\A c \in Clients : cl[c].op = "sync" /\ cl[c].pc = "wait" /\ cl'[c] = Idle /\ phase' = "up" =>
       \A r \in cl[c].tasks[1].mt : Represented(r, UNION {FileRecords(t) : t \in ManifestTables})]_vars

\* The records of a call that have not been inserted yet, and all records that have:
\* they have reached a memtable.
Waiting(call) ==
  IF call.pc \in {"stall", "log", "append", "apply"}
  THEN {call.recs[i] : i \in call.i..Len(call.recs)} ELSE {}
Inserted == issued \ UNION {Waiting(cl[c]) : c \in Clients}

Tree == INSTANCE LSM WITH
  mem <- mt, imm <- {t.mt : t \in FrozenTasks},
  lev <- [l \in Levels |-> {FileRecords(t) : t \in TablesAt(l)}],
  inserted <- Inserted

\* The goroutines, queues, files and version edits of the engine implement the
\* abstract tree: every step is a write, a rotation, a flush or a compaction of
\* it, or changes nothing there.  What LSM promises holds of the engine, too: above
\* all that no user key is in the range of two tables of a level above 0.  (This is Tree!Spec; most steps change nothing, and
\* TLC tries the disjuncts in this order.)
ImplementsLSM == Tree!Init /\ [][UNCHANGED Tree!vars \/ Tree!Next]_(Tree!vars)

\* New opens the engine after every crash.
AlwaysReopens == phase # "failed"

----------------------------------------------------------------------------
\* A writer that waits for level 0 to shrink goes on: compaction makes room.
StallEnds == \A c \in Clients : cl[c].pc = "stall" ~> cl[c].pc # "stall"

\* Every call returns.
CallsReturn == \A c \in Clients : cl[c].pc # "idle" ~> cl[c].pc = "idle"

\* A level is over its capacity with all of its tables behind its compact pointer: the
\* compactions that are scheduled for it have no inputs and change nothing, and the
\* end of each schedules the next.
Spinning == \E l \in CompactionLevel : l > 0 /\ pickCompactionInputs(l) = <<>>

\* A call that is not waiting for level 0 to shrink returns: whoever blocks on a
\* full flushChan, on Engine.mu or on the wait groups of Close (Sync waits for one of
\* them) is let go by the flusher and the compactor.  The one call that does not is a
\* Close that waits for a compactor which goes on and on without inputs.
WaitsEnd ==
  \A c \in Clients :
    cl[c].pc \notin {"idle", "stall"} ~>
      (cl[c].pc = "idle" \/ [](cl[c].op = "close" /\ Spinning))

\* Every record of a rotated memtable leaves the queue: no task is left behind in
\* a client, in the channel or in the flusher.
FlushesEnd ==
  \A v \in 1..MaxWrites :
    LET waiting == \E t \in FrozenTasks : \E r \in t.mt : r.val = v
    IN waiting ~> ~waiting
=============================================================================
