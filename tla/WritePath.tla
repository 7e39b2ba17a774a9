------------------------------ MODULE WritePath ------------------------------
(***************************************************************************)
(* internal/engine/write.go, and Sync and Close of engine.go: the calls of *)
(* the clients.  write and WriteBatch number their records, append them to *)
(* the log without holding Engine.mu, and then insert them into the        *)
(* memtable under it.  The steps of a call are separate actions wherever   *)
(* another goroutine can come in between.                                  *)
(***************************************************************************)
EXTENDS Flusher

Become(c, r) == cl' = [cl EXCEPT ![c] = r]

\* The records of n new writes with consecutive sequence numbers; ks and ds give
\* their keys and whether they delete.
NewRecords(ks, ds) ==
  [i \in 1..Len(ks) |-> [key |-> ks[i], seq |-> seqNum + i, del |-> ds[i],
                         val |-> Cardinality(issued) + i]]

\* The beginning of a call that writes: its records are numbered.
Start(c, op, pc, recs) ==
  /\ phase = "up" /\ cl[c] = Idle
  /\ Cardinality(issued) + Len(recs) <= MaxWrites
  /\ seqNum' = seqNum + Len(recs)
  /\ issued' = issued \cup ToSet(recs)
  /\ Become(c, [Idle EXCEPT !.op = op, !.pc = pc, !.recs = recs])
  /\ UNCHANGED <<ctlVars, mu, memVars, walVars, vsVars, nextFileNum, files, flushQ, fl, compVars,
                 snaps, rv, acked, faults>>

AfterStall == IF CrashRecovery THEN "log" ELSE "apply"

\* Put and Delete: write up to the stall loop.
Put(c)    == "put" \in Ops /\ \E k \in KeysOf[c] :
               Start(c, "write", "stall", NewRecords(<<k>>, <<FALSE>>))
Delete(c) == "delete" \in Ops /\ \E k \in KeysOf[c] :
               Start(c, "write", "stall", NewRecords(<<k>>, <<TRUE>>))
\* WriteBatch up to the log; it does not stall.
WriteBatch(c) ==
  "batch" \in Ops /\ \E n \in 1..MaxBatch :
    \E ks \in [1..n -> KeysOf[c]],
       ds \in [1..n -> IF "delete" \in Ops THEN BOOLEAN ELSE {FALSE}] :
      Start(c, "batch", AfterStall, NewRecords(ks, ds))

\* The stall loop of write ends when level 0 has few enough tables.
Stall(c) ==
  /\ cl[c].pc = "stall" /\ mu = "free"
  /\ Len(levels[0]) < 2 * MaxL0Files
  /\ Become(c, [cl[c] EXCEPT !.pc = AfterStall])
  /\ UNCHANGED <<ctlVars, mu, seqNum, memVars, walVars, vsVars, nextFileNum, files, flushQ, fl,
                 compVars, snaps, rv, histVars, faults>>

\* e.wal is read without the lock ...
ReadWal(c) ==
  /\ cl[c].pc = "log"
  /\ Become(c, [cl[c] EXCEPT !.pc = "append", !.wal = wal])
  /\ UNCHANGED <<ctlVars, mu, seqNum, memVars, walVars, vsVars, nextFileNum, files, flushQ, fl,
                 compVars, snaps, rv, histVars, faults>>

\* Mutant: the records are not written to the file.
AppendNothing(c) ==
  /\ cl[c].pc = "append"
  /\ Become(c, [cl[c] EXCEPT !.pc = "apply"])
  /\ UNCHANGED <<ctlVars, mu, seqNum, memVars, walVars, vsVars, nextFileNum, files, flushQ, fl,
                 compVars, snaps, rv, histVars, faults>>

\* What the caller takes for done when a call ends with an error: Put and
\* WriteBatch return the error, Delete drops it.
AckedOnError(call) ==
  IF call.op = "write" /\ call.recs[1].del THEN acked \cup ToSet(call.recs) ELSE acked

\* What a failing write or fsync leaves in the file: some of the records, and after
\* them half of the next.
HalfWritten(log, recs) ==
  {[log EXCEPT !.recs = @ \o SubSeq(recs, 1, i)] : i \in 0..Len(recs)}
  \cup {[log EXCEPT !.recs = @ \o SubSeq(recs, 1, i), !.torn = @ \cup {Len(log.recs) + i}] :
          i \in 0..(Len(recs) - 1)}

\* ... then Append writes to that log, and with SyncBatch waits for its fsync.  A
\* closed log, or a failing write or fsync, ends the call with an error; what was
\* written stays in the file.
AppendWal(c) ==
  \E fault \in Faults({"append"}) :
    LET call == cl[c]
        w    == call.wal
        recs == wals[w].recs \o call.recs
    IN /\ call.pc = "append"
       /\ Count(fault)
       /\ \/ /\ w \in closedWals /\ fault = "none"
             /\ Become(c, Idle) /\ acked' = AckedOnError(call)
             /\ UNCHANGED wals
          \/ /\ w \notin closedWals /\ fault = "append"
             /\ Become(c, Idle) /\ acked' = AckedOnError(call)
             /\ \E log \in HalfWritten(wals[w], call.recs) : wals' = [wals EXCEPT ![w] = log]
          \/ /\ w \notin closedWals /\ fault = "none"
             /\ wals' = [wals EXCEPT ![w].recs = recs,
                                     ![w].synced = IF SyncBatch THEN Len(recs) ELSE @]
             /\ Become(c, [call EXCEPT !.pc = "apply"])
             /\ UNCHANGED acked
       /\ UNCHANGED <<ctlVars, mu, seqNum, memVars, wal, closedWals, vsVars, nextFileNum, files,
                      flushQ, fl, compVars, snaps, rv, issued>>

\* Mutant: the last record of a batch is left out of a full memtable.
ApplyDropsFull(c) ==
  LET call == cl[c]
      full == Cardinality(mt \cup {call.recs[1]}) >= MemtableSize
  IN /\ call.pc = "apply" /\ mu = "free"
     /\ acked' = acked \cup {call.recs[1]}
     /\ Become(c, Idle)
     /\ mt' = IF full THEN mt ELSE mt \cup {call.recs[1]}
     /\ UNCHANGED <<ctlVars, mu, seqNum, immt, walVars, vsVars, nextFileNum, files, flushQ, fl,
                    compVars, snaps, rv, issued, faults>>

\* The critical section of write and WriteBatch, one record a step: insert it,
\* rotate a full memtable.  A rotate that fails ends a batch; a write it ends
\* without unlocking.  The call returns when there is no task to send.
Apply(c) ==
  \E fault \in Faults(RotateFaults) :
    LET call == cl[c]
        m    == mt \cup {call.recs[call.i]}
        full == Cardinality(m) >= MemtableSize
        last == call.i = Len(call.recs)
        tasks == IF full THEN Append(call.tasks, RotateTask(m)) ELSE call.tasks
        failed == fault \in {"wal", "table"}
    IN /\ call.pc = "apply"
       /\ mu = IF call.i = 1 THEN "free" ELSE c
       /\ ~full => fault = "none"
       /\ Count(fault)
       /\ IF full THEN rotate(m, fault)
          ELSE mt' = m /\ UNCHANGED <<immt, walVars, vsVars, nextFileNum, files>>
       /\ mu' = IF failed THEN IF call.op = "write" THEN c ELSE "free"
                ELSE IF last THEN "free" ELSE c
       /\ Become(c, IF failed THEN Idle
                    ELSE IF ~last THEN [call EXCEPT !.i = @ + 1, !.tasks = tasks]
                    ELSE IF tasks = <<>> THEN Idle
                    ELSE [call EXCEPT !.pc = "send", !.i = 1, !.tasks = tasks])
       /\ acked' = IF failed THEN AckedOnError(call)
                   ELSE IF last /\ tasks = <<>> THEN acked \cup ToSet(call.recs) ELSE acked
       /\ UNCHANGED <<ctlVars, seqNum, flushQ, fl, compVars, snaps, rv, issued>>

\* Send the rotated memtables to the flusher; a full channel blocks the caller.
\* The last send ends the call, except that Sync and Close wait for the flushes.
Send(c) ==
  LET call == cl[c]
      last == call.i = Len(call.tasks)
      done == last /\ call.op \in {"write", "batch"}
  IN /\ call.pc = "send" /\ Len(flushQ) < FlushChanCap
     /\ flushQ' = Append(flushQ, call.tasks[call.i])
     /\ Become(c, IF done THEN Idle
                  ELSE [call EXCEPT !.i = @ + 1, !.pc = IF last THEN "wait" ELSE "send"])
     /\ acked' = IF done THEN acked \cup ToSet(call.recs) ELSE acked
     /\ UNCHANGED <<ctlVars, mu, seqNum, memVars, walVars, vsVars, nextFileNum, files, fl, compVars,
                    snaps, rv, issued, faults>>

----------------------------------------------------------------------------
\* Sync, first critical section: fsync the log; if that fails the call ends.
Sync(c) ==
  \E fault \in Faults(IF CrashRecovery THEN {"fsync"} ELSE {}) :
    /\ "sync" \in Ops /\ phase = "up" /\ cl[c] = Idle /\ mu = "free"
    /\ Count(fault)
    /\ Become(c, IF fault = "none" THEN [Idle EXCEPT !.op = "sync", !.pc = "rotate"] ELSE Idle)
    /\ wals' = IF wal = NoWal \/ fault = "fsync" THEN wals
               ELSE [wals EXCEPT ![wal].synced = Len(wals[wal].recs)]
    /\ UNCHANGED <<ctlVars, mu, seqNum, memVars, wal, closedWals, vsVars, nextFileNum, files, flushQ,
                   fl, compVars, snaps, rv, histVars>>

\* Close is called when no other call is in flight.
Close(c) ==
  /\ "close" \in Ops /\ phase = "up" /\ \A d \in Clients : cl[d] = Idle
  /\ phase' = "closing"
  /\ Become(c, [Idle EXCEPT !.op = "close", !.pc = "rotate"])
  /\ UNCHANGED <<starts, mu, seqNum, memVars, walVars, vsVars, nextFileNum, files, flushQ, fl,
                 compVars, snaps, rv, histVars, faults>>

\* The critical section of Sync and of Close: a memtable that holds anything is
\* rotated.  With an empty one Sync returns at once and Close goes on to wait.  A
\* rotate that fails ends either call; after Close the engine is as it was.
RotateForSync(c) ==
  \E fault \in Faults(RotateFaults) :
    LET call == cl[c] IN
    /\ call.pc = "rotate" /\ mu = "free"
    /\ mt = {} => fault = "none"
    /\ Count(fault)
    /\ \/ /\ mt = {}
          /\ Become(c, IF call.op = "sync" THEN Idle ELSE [call EXCEPT !.pc = "wait"])
          /\ UNCHANGED <<phase, memVars, walVars, vsVars, nextFileNum, files>>
       \/ /\ mt # {}
          /\ rotate(mt, fault)
          /\ IF fault \in {"wal", "table"}
             THEN Become(c, Idle) /\ phase' = "up"
             ELSE /\ Become(c, [call EXCEPT !.pc = "send", !.tasks = <<RotateTask(mt)>>])
                  /\ UNCHANGED phase
    /\ UNCHANGED <<starts, mu, seqNum, flushQ, fl, compVars, snaps, rv, histVars>>

\* flushWg is zero: no task is in the channel or in the flusher's hands.
Flushed == flushQ = <<>> /\ fl.pc = "idle"

\* Mutant: Sync does not wait for the flusher.
SyncNoWait(c) ==
  /\ cl[c].op = "sync" /\ cl[c].pc = "wait"
  /\ Become(c, Idle)
  /\ UNCHANGED <<ctlVars, mu, seqNum, memVars, walVars, vsVars, nextFileNum, files, flushQ, fl,
                 compVars, snaps, rv, histVars, faults>>

\* Sync returns after flushWg.Wait.
SyncReturn(c) ==
  /\ cl[c].op = "sync" /\ cl[c].pc = "wait" /\ Flushed
  /\ Become(c, Idle)
  /\ UNCHANGED <<ctlVars, mu, seqNum, memVars, walVars, vsVars, nextFileNum, files, flushQ, fl,
                 compVars, snaps, rv, histVars, faults>>

ClientNext(c) ==
  \/ Put(c) \/ Delete(c) \/ WriteBatch(c) \/ Stall(c) \/ ReadWal(c) \/ AppendWal(c)
  \/ Apply(c) \/ Send(c) \/ Sync(c) \/ Close(c) \/ RotateForSync(c) \/ SyncReturn(c)
=============================================================================
