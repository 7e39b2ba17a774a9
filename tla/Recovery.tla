------------------------------ MODULE Recovery ------------------------------
(***************************************************************************)
(* Opening, closing and losing the engine: New and the end of Close of     *)
(* engine.go, recover.go, meta.Open, and crashes.  A crash loses the       *)
(* process and every byte of a log that was not fsynced; manifest and      *)
(* table files are fsynced where they are written.                         *)
(***************************************************************************)
EXTENDS Reads

\* The memory of the process is gone.
LoseMemory ==
  /\ mu' = "free" /\ seqNum' = 0
  /\ mt' = {} /\ immt' = {} /\ wal' = NoWal /\ closedWals' = {}
  /\ levels' = NoLevels /\ nextFileNum' = 0
  /\ flushQ' = <<>> /\ fl' = FlIdle
  /\ isCompacting' = FALSE /\ job' = NoJob /\ resched' = 0
  /\ compactPointer' = [l \in Levels |-> <<>>]
  /\ cl' = [c \in Clients |-> Idle]
  /\ snaps' = [s \in Snaps |-> {}]
  /\ rv' = RvIdle

\* A crash can cut a record of log n in two: one that is not fsynced, or one that
\* an Append in progress is writing.
Tearable(n) ==
  /\ "torn" \in Ops
  /\ \/ wals[n].synced < Len(wals[n].recs)
     \/ \E c \in Clients : cl[c].pc = "append" /\ cl[c].wal = n

\* What a crash can leave of a log: at least its fsynced prefix, and possibly part
\* of a record after it.
Leftovers(n) ==
  LET log == wals[n] IN
  UNION {{[recs |-> SubSeq(log.recs, 1, i), synced |-> i, torn |-> {j \in log.torn : j < i} \cup t] :
            t \in {{}} \cup (IF Tearable(n) \/ i \in log.torn THEN {{i}} ELSE {})} :
         i \in log.synced..Len(log.recs)}

\* The machine stops, at any moment.
Crash ==
  /\ "crash" \in Ops /\ phase \in {"recovering", "up", "closing"} /\ starts < MaxStarts
  /\ \E left \in [DOMAIN wals -> UNION {Leftovers(n) : n \in DOMAIN wals}] :
       /\ \A n \in DOMAIN wals : left[n] \in Leftovers(n)
       /\ wals' = left
  /\ LoseMemory /\ phase' = "down"
  /\ UNCHANGED <<starts, manifest, files, histVars, faults>>

\* The end of Close: flushes and compactions are done, the log is fsynced and closed.
CloseReturn(c) ==
  /\ cl[c].op = "close" /\ cl[c].pc = "wait" /\ Flushed
  /\ job.pc = "none" /\ resched = 0
  /\ wals' = IF wal = NoWal THEN wals ELSE [wals EXCEPT ![wal].synced = Len(wals[wal].recs)]
  /\ LoseMemory /\ phase' = "down"
  /\ UNCHANGED <<starts, manifest, files, histVars, faults>>

----------------------------------------------------------------------------
\* New up to recovery: meta.Open, the sequence number of the manifest, the log
\* files, which recover takes in the order of their numbers.  The first start makes the manifest; a
\* later one replays it, and one without any edit yields the file number 0.  After
\* a New that failed the next one is made by another process.
New ==
  /\ phase \in {"down", "failed"} /\ starts < MaxStarts /\ ~manifest.torn
  /\ starts' = starts + 1
  /\ phase' = IF CrashRecovery THEN "recovering" ELSE "up"
  /\ manifest' = [manifest EXCEPT !.made = TRUE]
  /\ levels' = manifest.levels
  /\ nextFileNum' = IF manifest.made THEN manifest.next ELSE 1
  /\ seqNum' = manifest.lastSeq
  /\ rv' = IF CrashRecovery
           THEN [RvIdle EXCEPT !.pc = "open", !.todo = DOMAIN wals]
           ELSE RvIdle
  /\ wals' = IF CrashRecovery /\ DOMAIN wals = {} THEN OpenWal(wals, manifest.log) ELSE wals
  /\ UNCHANGED <<mu, memVars, wal, closedWals, files, flushQ, fl, compVars, cl, snaps, histVars,
                 faults>>

\* meta.Open meets the cut entry of a torn manifest: replay returns an error, and so
\* does New.  (The bytes behind the cut can also be taken for the rest of the entry:
\* what replay yields then is the subject of module Manifest.)
OpenTorn ==
  /\ phase \in {"down", "failed"} /\ starts < MaxStarts /\ manifest.torn
  /\ starts' = starts + 1 /\ phase' = "failed"
  /\ UNCHANGED <<mu, seqNum, memVars, walVars, vsVars, nextFileNum, files, flushQ, fl, compVars, cl,
                 snaps, rv, histVars, faults>>

\* The next log is opened, created anew if it is no longer there, and read.
RecoverOpen ==
  /\ rv.pc = "open" /\ rv.todo # {}
  /\ wals' = OpenWal(wals, Min(rv.todo))
  /\ LET log == wals'[Min(rv.todo)]
     IN rv' = [rv EXCEPT !.pc = "replay", !.recs = Replayable(log, Len(log.recs)),
                         !.torn = log.torn # {}, !.maxSeq = 0]
  /\ UNCHANGED <<ctlVars, mu, seqNum, memVars, wal, closedWals, vsVars, nextFileNum, files, flushQ,
                 fl, compVars, cl, snaps, histVars, faults>>

\* recoveryWrite: a record of the log goes into the memtable, without Engine.mu;
\* a full memtable is rotated.
RecoverRecord ==
  \E fault \in Faults({"manifest"}) :
  LET m    == mt \cup {Head(rv.recs)}
      full == Cardinality(m) >= MemtableSize
  IN /\ rv.pc = "replay" /\ rv.recs # <<>>
     /\ ~full => fault = "none"
     /\ Count(fault)
     /\ IF full THEN rotate(m, fault)
        ELSE mt' = m /\ UNCHANGED <<immt, walVars, vsVars, nextFileNum, files>>
     /\ rv' = [rv EXCEPT !.recs = Tail(@), !.maxSeq = Max({@, Head(rv.recs).seq}),
                         !.pc = IF full THEN "send" ELSE "replay",
                         !.tasks = IF full THEN <<RotateTask(m)>> ELSE <<>>]
     /\ UNCHANGED <<ctlVars, mu, seqNum, flushQ, fl, compVars, cl, snaps, histVars>>

\* A log that cannot be opened, closed or removed makes New fail; so does a rotate
\* that cannot create the new log or, having created that, the new table.
RecoverFails ==
  /\ \E fault \in Faults({"wal", "table"}) \ {"none"} :
       /\ Count(fault)
       /\ \/ /\ rv.pc = "open" \/ (rv.pc = "replay" /\ rv.recs = <<>>)
             /\ fault = "wal"
             /\ UNCHANGED <<wals, manifest>>
          \/ /\ rv.pc = "replay" /\ rv.recs # <<>>
             /\ Cardinality(mt \cup {Head(rv.recs)}) >= MemtableSize
             /\ wals' = IF fault = "wal" THEN wals ELSE OpenWal(wals, nextFileNum)
             /\ manifest' = IF fault = "wal" THEN manifest
                            ELSE replay(manifest, [NoEdit EXCEPT !.log = {nextFileNum}])
  /\ LoseMemory /\ phase' = "failed"
  /\ UNCHANGED <<starts, files, histVars>>

RecoverSend ==
  /\ rv.pc = "send" /\ Len(flushQ) < FlushChanCap
  /\ flushQ' = Append(flushQ, Head(rv.tasks))
  /\ rv' = [rv EXCEPT !.pc = "replay", !.tasks = <<>>]
  /\ UNCHANGED <<ctlVars, mu, seqNum, memVars, walVars, vsVars, nextFileNum, files, fl, compVars,
                 cl, snaps, histVars, faults>>

\* The end of a log: a torn tail, or a file that a flush has removed in the
\* meantime, makes New fail, and the process that called it gives up; else the log
\* is removed and the sequence number is raised to the largest one replayed.
RecoverLogDone ==
  LET n == Min(rv.todo)
  IN /\ rv.pc = "replay" /\ rv.recs = <<>>
     /\ \/ /\ rv.torn \/ n \notin DOMAIN wals
           /\ LoseMemory /\ phase' = "failed"
           /\ UNCHANGED wals
        \/ /\ ~rv.torn /\ n \in DOMAIN wals
           /\ wals' = Unlink(wals, {n})
           /\ rv' = [rv EXCEPT !.pc = "open", !.todo = @ \ {n}]
           /\ seqNum' = Max({seqNum, rv.maxSeq})
           /\ UNCHANGED <<phase, mu, memVars, wal, closedWals, levels, nextFileNum, flushQ, fl,
                          compVars, cl, snaps>>
     /\ UNCHANGED <<starts, manifest, files, histVars, faults>>

\* New after recover: a new log, and the engine is open.
RecoverFinish ==
  /\ rv.pc = "open" /\ rv.todo = {}
  /\ phase' = "up"
  /\ wal' = nextFileNum /\ wals' = OpenWal(wals, nextFileNum)
  /\ nextFileNum' = nextFileNum + 1
  /\ rv' = RvIdle
  /\ UNCHANGED <<starts, mu, seqNum, memVars, closedWals, vsVars, files, flushQ, fl, compVars, cl,
                 snaps, histVars, faults>>

RecoveryNext ==
  \/ New \/ OpenTorn \/ RecoverOpen \/ RecoverRecord \/ RecoverFails \/ RecoverSend
  \/ RecoverLogDone \/ RecoverFinish
=============================================================================
