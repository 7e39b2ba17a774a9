------------------------------- MODULE Flusher -------------------------------
(***************************************************************************)
(* internal/engine/flusher.go: rotate, which freezes the memtable and      *)
(* starts a new one and a new log, and the flusher goroutine, which writes *)
(* frozen memtables to tables of level 0 in the order of flushChan.        *)
(***************************************************************************)
EXTENDS Compactor

\* The numbers rotate draws: the new log's, then the new table's.
TableNum == IF CrashRecovery THEN nextFileNum + 1 ELSE nextFileNum

RotateFaults == IF CrashRecovery THEN {"wal", "manifest", "table"} ELSE {"table"}

\* The task rotate(m) returns when it succeeds.
RotateTask(m) == Task(m, TableNum, wal)

\* rotate, with m the memtable to freeze.  A log that cannot be created leaves
\* the memtable in place, as mt and as immt (one object: get looks at mt first, so
\* that writes which only mt shows here are found there); a table file that cannot
\* be created leaves the frozen memtable in immt only.  A failing manifest is
\* logged and ignored.
rotate(m, fault) ==
  /\ immt' = {m}
  /\ UNCHANGED closedWals
  /\ IF fault = "wal"
     THEN /\ mt' = m
          /\ nextFileNum' = nextFileNum + 1
          /\ UNCHANGED <<wal, wals, files, vsVars>>
     ELSE /\ mt' = {}
          /\ nextFileNum' = TableNum + 1
          /\ files' = IF fault = "table" THEN files ELSE Create(files, <<0, TableNum>>, {})
          /\ IF CrashRecovery
             THEN /\ wal' = nextFileNum
                  /\ wals' = OpenWal(wals, nextFileNum)
                  /\ LogAndApply([NoEdit EXCEPT !.log = {nextFileNum}], fault)
             ELSE UNCHANGED <<wal, wals, vsVars>>

----------------------------------------------------------------------------
\* The channel is a queue; the flusher takes the next task.
FlushTake ==
  /\ phase \in {"recovering", "up", "closing"}
  /\ fl.pc = "idle" /\ flushQ # <<>>
  /\ fl' = [FlIdle EXCEPT !.pc = "write", !.task = Head(flushQ)]
  /\ flushQ' = Tail(flushQ)
  /\ UNCHANGED <<ctlVars, mu, seqNum, memVars, walVars, vsVars, nextFileNum, files, compVars,
                 cl, snaps, rv, histVars, faults>>

\* Mutant: a task is put back until level 1 is below its capacity, and compaction ends
\* when it is at it.
FlushWriteRequeues ==
  /\ fl.pc = "write"
  /\ IF levelSize(1) >= levelCapacity(1)
     THEN fl' = FlIdle /\ flushQ' = <<fl.task>> \o flushQ /\ UNCHANGED <<files, nextFileNum>>
     ELSE /\ files' = Create(files, <<0, fl.task.num>>, fl.task.mt)
          /\ fl' = [fl EXCEPT !.pc = "install", !.next = nextFileNum]
          /\ nextFileNum' = nextFileNum + 1
          /\ UNCHANGED flushQ
  /\ UNCHANGED <<ctlVars, mu, seqNum, memVars, walVars, vsVars, compVars, cl, snaps, rv, histVars,
                 faults>>

\* flush up to the lock: write and fsync the table, then draw the number that
\* the edit records.  A failing write drops the task.
FlushWrite ==
  \E fault \in Faults({"table"}) :
    /\ fl.pc = "write"
    /\ Count(fault)
    /\ IF fault = "table"
       THEN fl' = FlIdle /\ UNCHANGED <<files, nextFileNum>>
       ELSE /\ files' = Create(files, <<0, fl.task.num>>, fl.task.mt)
            /\ fl' = [fl EXCEPT !.pc = "install", !.next = nextFileNum]
            /\ nextFileNum' = nextFileNum + 1
    /\ UNCHANGED <<ctlVars, mu, seqNum, memVars, walVars, vsVars, flushQ, compVars, cl, snaps,
                   rv, histVars>>

\* The version edit of a flush: the table, and as the last sequence number that
\* of the last record in internal-key order.
FlushEdit ==
  [NoEdit EXCEPT !.adds = <<TableMeta(0, fl.task.num, fl.task.mt)>>,
                 !.next = {fl.next}, !.lastSeq = {LastOf(fl.task.mt).seq}]

\* flush under the lock: log and apply the edit; an error is only logged ...
FlushInstall ==
  \E fault \in Faults({"manifest"}) :
    /\ fl.pc = "install" /\ mu = "free"
    /\ Count(fault)
    /\ LogAndApply(FlushEdit, fault)
    /\ mu' = "flusher"
    /\ fl' = [fl EXCEPT !.pc = "cleanup"]
    /\ UNCHANGED <<ctlVars, seqNum, memVars, walVars, nextFileNum, files, flushQ, compVars, cl,
                   snaps, rv, histVars>>

\* Mutant: the WAL that is removed is the current one.
CleanupCurrentWal ==
  /\ fl.pc = "cleanup"
  /\ wals' = IF wal # NoWal THEN Unlink(wals, {wal}) ELSE wals
  /\ UNCHANGED closedWals
  /\ immt' = {} /\ mu' = "free" /\ fl' = FlIdle
  /\ IF Len(levels[0]) >= MaxL0Files /\ ~isCompacting
     THEN StartCompaction(0)
     ELSE UNCHANGED <<isCompacting, job, nextFileNum>>
  /\ UNCHANGED <<ctlVars, seqNum, mt, wal, vsVars, files, flushQ, resched, compactPointer, cl,
                 snaps, rv, histVars, faults>>

\* Mutant: Engine.mu is not released.
CleanupKeepsLock ==
  /\ fl.pc = "cleanup"
  /\ fl' = FlIdle
  /\ UNCHANGED <<ctlVars, mu, seqNum, memVars, walVars, vsVars, nextFileNum, files, flushQ, compVars,
                 cl, snaps, rv, histVars, faults>>

\* ... then close and remove the memtable's log, clear immt, whichever memtable
\* it holds, schedule a compaction when level 0 is full, and unlock.
FlushCleanup ==
  /\ fl.pc = "cleanup"
  /\ IF fl.task.wal # NoWal
     THEN wals' = Unlink(wals, {fl.task.wal}) /\ closedWals' = closedWals \cup {fl.task.wal}
     ELSE UNCHANGED <<wals, closedWals>>
  /\ immt' = {} /\ mu' = "free" /\ fl' = FlIdle
  /\ IF Len(levels[0]) >= MaxL0Files /\ ~isCompacting
     THEN StartCompaction(0)
     ELSE UNCHANGED <<isCompacting, job, nextFileNum>>
  /\ UNCHANGED <<ctlVars, seqNum, mt, wal, vsVars, files, flushQ, resched, compactPointer, cl,
                 snaps, rv, histVars, faults>>

FlusherNext == FlushTake \/ FlushWrite \/ FlushInstall \/ FlushCleanup
=============================================================================
