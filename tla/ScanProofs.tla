----------------------------- MODULE ScanProofs -----------------------------
(***************************************************************************)
(* A range scan beside the engine, for any number of clients, keys, levels *)
(* and writes: its keys come out sorted, each once and within the range;   *)
(* and until the first restart nothing but a compaction that removes       *)
(* tables can end it early.                                                *)
(*                                                                         *)
(* The scan holds no lock, so the first needs to know what may appear in   *)
(* the memtable it walks: only records that calls had still to insert,     *)
(* none of which there was when the scan began.  The second needs that the *)
(* files of the tables it still has to open are those of live tables, or   *)
(* of the inputs that a compaction has not removed yet.                    *)
(***************************************************************************)
EXTENDS Scans, EngineProofs

\* A call has records to insert, and each is one of a kind.
Writes(call) == call.pc \in {"stall", "log", "append", "apply"}
OnceEach(call) == Writes(call) => \A i, j \in 1..Len(call.recs) : call.recs[i] = call.recs[j] => i = j

\* None of the records of W is in a memtable, in a task or in a file.
MemClear(W)   == W \cap mt = {} /\ \A m \in immt : W \cap m = {}
FilesClear(W) == \A p \in DOMAIN files : W \cap files[p] = {}
QueueClear(W) == (\A i \in 1..Len(flushQ) : W \cap flushQ[i].mt = {}) /\ W \cap fl.task.mt = {}
CallClear(call, W) == \A i \in 1..Len(call.tasks) : W \cap call.tasks[i].mt = {}
Clear(W) == MemClear(W) /\ FilesClear(W) /\ QueueClear(W) /\ \A c \in Clients : CallClear(cl[c], W)

\* Nobody writes during recovery, and the records that calls have still to insert are
\* nowhere yet.
Serving == phase \in {"up", "closing"}
WaitInv ==
  /\ rv.pc # "idle" => phase = "recovering"
  /\ phase = "recovering" => \A c \in Clients : cl[c] = Idle
  /\ \A c \in Clients : OnceEach(cl[c]) /\ Clear(Waiting(cl[c]))
  /\ \A c, d \in Clients : c # d => Waiting(cl[c]) \cap Waiting(cl[d]) = {}

----------------------------------------------------------------------------
\* The records that a call waits to insert were issued.
LEMMA WaitingIssued ==
  ASSUME TypeInv, NEW c \in Clients
  PROVE  Waiting(cl[c]) \subseteq issued
<1>1. cl[c] \in Calls(issued) /\ CallShape(cl[c])
  BY DEF TypeInv, CallTypes
<1>2. cl[c].recs \in Seq(issued) /\ cl[c].i \in Nat
  BY <1>1 DEF Calls
<1>3. Writes(cl[c]) => cl[c].i \in 1..Len(cl[c].recs)
  BY <1>1 DEF CallShape, Writes
<1> QED
  BY <1>2, <1>3 DEF Waiting, Writes

\* A client that is in no call waits for nothing.
LEMMA IdleWaits == Waiting(Idle) = {} /\ ~Writes(Idle) /\ OnceEach(Idle) /\ Idle.tasks = <<>> /\ Idle.pc = "idle"
BY DEF Waiting, Writes, OnceEach, Idle

\* Records that were never issued are nowhere.
LEMMA UnissuedClear ==
  ASSUME TypeInv, NEW W, W \cap issued = {}
  PROVE  Clear(W)
<1>1. MemClear(W)
  BY DEF TypeInv, MemTypes, MemClear
<1>2. FilesClear(W)
  BY DEF TypeInv, FileTypes, FilesClear
<1>3. ASSUME NEW t \in Tasks(issued) PROVE W \cap t.mt = {}
  BY DEF Tasks
<1>4. NoTask.mt = {}
  BY DEF NoTask, Task
<1>5. QueueClear(W)
  <2>1. fl.task \in Tasks(issued) \cup {NoTask} /\ flushQ \in Seq(Tasks(issued))
    BY DEF TypeInv, FlusherTypes, Flushers
  <2>2. \A i \in 1..Len(flushQ) : flushQ[i] \in Tasks(issued)
    BY <2>1
  <2> QED
    BY <1>3, <1>4, <2>1, <2>2 DEF QueueClear
<1>6. ASSUME NEW c \in Clients PROVE CallClear(cl[c], W)
  <2>1. cl[c].tasks \in Seq(Tasks(issued))
    BY DEF TypeInv, CallTypes, Calls
  <2>2. \A i \in 1..Len(cl[c].tasks) : cl[c].tasks[i] \in Tasks(issued)
    BY <2>1
  <2> QED
    BY <1>3, <2>2 DEF CallClear
<1> QED
  BY <1>1, <1>2, <1>5, <1>6 DEF Clear

\* Fewer records are in fewer places.
LEMMA ClearUnion ==
  ASSUME NEW V, NEW W, NEW X, Clear(V), Clear(W), X \subseteq V \cup W
  PROVE  Clear(X)
BY DEF Clear, MemClear, FilesClear, QueueClear, CallClear

\* rotate puts the memtable into immt, and makes an empty file.
LEMMA RotateClear ==
  ASSUME NEW m, NEW fault, rotate(m, fault), NEW W, W \cap m = {}, FilesClear(W)
  PROVE  MemClear(W)' /\ FilesClear(W)' /\ immt' = {m} /\ mt' \in {m, {}}
<1>1. immt' = {m} /\ mt' \in {m, {}}
  BY DEF rotate
<1>2. files' = files \/ files' = Create(files, <<0, TableNum>>, {})
  BY DEF rotate
<1>3. FilesClear(W)'
  <2>1. CASE files' = files
    BY <2>1 DEF FilesClear
  <2>2. CASE files' = Create(files, <<0, TableNum>>, {})
    BY <2>2 DEF FilesClear, Create, Overlay
  <2> QED
    BY <1>2, <2>1, <2>2
<1> QED
  BY <1>1, <1>3 DEF MemClear

\* A call goes on from cl[c] to r: the record x it inserts, if any, leaves the ones it
\* waits to insert.  The memtable is as it was, has got x, or was frozen.
Goes(c, r, X) ==
  /\ Become(c, r) /\ OnceEach(r) /\ X \subseteq Waiting(cl[c]) /\ Waiting(r) \subseteq Waiting(cl[c]) \ X
  /\ issued' = issued /\ rv' = rv
  /\ phase' \in {phase, "up", "closing"}
  /\ mt' \subseteq mt \cup X
  /\ immt' = immt \/ immt' \in {{mt}, {mt \cup X}}

\* The steps of a call up to the memtable, and the beginning and end of Sync and Close.
LEMMA PlainGoes ==
  ASSUME TypeInv, WaitInv, NEW c \in Clients,
         Stall(c) \/ ReadWal(c) \/ AppendWal(c) \/ Sync(c) \/ Close(c) \/ SyncReturn(c)
  PROVE  \E r : Goes(c, r, {}) /\ r.tasks \in {cl[c].tasks, <<>>} /\ UNCHANGED <<mt, immt, files, flushQ, fl>>
<1> USE DEF ctlVars, memVars, walVars, vsVars, compVars, histVars
<1>1. cl[c] \in Calls(issued) /\ OnceEach(cl[c])
  BY DEF TypeInv, CallTypes, WaitInv
<1>2. ASSUME NEW pc \in {"log", "append", "apply"}, NEW w, NEW r, r = [cl[c] EXCEPT !.pc = pc, !.wal = w],
             Writes(cl[c])
      PROVE  r.tasks = cl[c].tasks /\ OnceEach(r) /\ Waiting(r) = Waiting(cl[c])
  <2>1. r.pc = pc /\ r.recs = cl[c].recs /\ r.i = cl[c].i /\ r.tasks = cl[c].tasks
    BY <1>1, <1>2 DEF Calls
  <2> QED
    BY <1>1, <1>2, <2>1 DEF OnceEach, Waiting, Writes
<1>3. ASSUME NEW pc \in {"log", "append", "apply"}, NEW r, r = [cl[c] EXCEPT !.pc = pc], Writes(cl[c])
      PROVE  r.tasks = cl[c].tasks /\ OnceEach(r) /\ Waiting(r) = Waiting(cl[c])
  <2>1. r.pc = pc /\ r.recs = cl[c].recs /\ r.i = cl[c].i /\ r.tasks = cl[c].tasks
    BY <1>1, <1>3 DEF Calls
  <2> QED
    BY <1>1, <1>3, <2>1 DEF OnceEach, Waiting, Writes
<1>4. ASSUME NEW r, r = Idle \/ (~Writes(r) /\ r.tasks = <<>>)
      PROVE  r.tasks = <<>> /\ OnceEach(r) /\ Waiting(r) = {}
  BY <1>4, IdleWaits DEF OnceEach, Waiting, Writes
<1>5. CASE Stall(c)
  <2>1. AfterStall \in {"log", "append", "apply"}
    BY DEF AfterStall
  <2>2. PICK r : r = [cl[c] EXCEPT !.pc = AfterStall]
    OBVIOUS
  <2>3. Become(c, r) /\ Writes(cl[c]) /\ UNCHANGED <<mt, immt, files, flushQ, fl, issued, rv, phase>>
    BY <1>5, <2>2 DEF Stall, Writes
  <2> QED
    BY <1>3, <2>1, <2>2, <2>3 DEF Goes
<1>6. CASE ReadWal(c)
  <2>1. PICK r : r = [cl[c] EXCEPT !.pc = "append", !.wal = wal]
    OBVIOUS
  <2>2. Become(c, r) /\ Writes(cl[c]) /\ UNCHANGED <<mt, immt, files, flushQ, fl, issued, rv, phase>>
    BY <1>6, <2>1 DEF ReadWal, Writes
  <2> QED
    BY <1>2, <2>1, <2>2 DEF Goes
<1>7. CASE AppendWal(c)
  <2>1. PICK r : /\ Become(c, r) /\ r \in {Idle, [cl[c] EXCEPT !.pc = "apply"]}
                 /\ cl[c].pc = "append" /\ UNCHANGED <<mt, immt, files, flushQ, fl, issued, rv, phase>>
    BY <1>7, Zenon DEF AppendWal
  <2>2. Writes(cl[c])
    BY <2>1 DEF Writes
  <2> QED
    BY <1>3, <1>4, <2>1, <2>2 DEF Goes
<1>8. CASE Sync(c) \/ Close(c) \/ SyncReturn(c)
  <2>1. PICK r : /\ Become(c, r)
                 /\ r = Idle \/ \E op : r = [Idle EXCEPT !.op = op, !.pc = "rotate"]
                 /\ UNCHANGED <<mt, immt, files, flushQ, fl, issued, rv>> /\ phase' \in {phase, "closing"}
    <3>1. CASE Sync(c)
      <4>1. PICK fault : /\ Become(c, IF fault = "none" THEN [Idle EXCEPT !.op = "sync", !.pc = "rotate"] ELSE Idle)
                         /\ UNCHANGED <<mt, immt, files, flushQ, fl, issued, rv, phase>>
        BY <3>1, Zenon DEF Sync
      <4> QED
        BY <4>1
    <3>2. CASE Close(c)
      BY <3>2 DEF Close
    <3>3. CASE SyncReturn(c)
      BY <3>3 DEF SyncReturn
    <3> QED
      BY <1>8, <3>1, <3>2, <3>3
  <2>2. r = Idle \/ (~Writes(r) /\ r.tasks = <<>>)
    BY <2>1 DEF Writes, Idle
  <2> QED
    BY <1>4, <2>1, <2>2 DEF Goes
<1> QED
  BY <1>5, <1>6, <1>7, <1>8

\* The tasks of a call after one more memtable was frozen.
LEMMA TaskClear ==
  ASSUME TypeInv, NEW c \in Clients, NEW m, NEW W, CallClear(cl[c], W), W \cap m = {}
  PROVE  \A r : r.tasks \in {cl[c].tasks, <<>>, Append(cl[c].tasks, RotateTask(m)), <<RotateTask(m)>>} => CallClear(r, W)
<1>1. cl[c].tasks \in Seq(Tasks(issued))
  BY DEF TypeInv, CallTypes, Calls
<1>2. PICK t : t = RotateTask(m)
  OBVIOUS
<1>3. W \cap t.mt = {}
  BY <1>2 DEF RotateTask, Task
<1>4. \A i \in 1..Len(Append(cl[c].tasks, t)) : W \cap Append(cl[c].tasks, t)[i].mt = {}
  BY <1>1, <1>3 DEF CallClear
<1>5. Len(<<t>>) = 1 /\ <<t>>[1] = t /\ Len(<<>>) = 0
  OBVIOUS
<1>6. \A i \in 1..1 : i = 1
  OBVIOUS
<1>7. \A i \in 1..Len(<<t>>) : W \cap <<t>>[i].mt = {}
  BY <1>3, <1>5, <1>6
<1> SUFFICES ASSUME NEW r, r.tasks \in {cl[c].tasks, <<>>, Append(cl[c].tasks, t), <<t>>} PROVE CallClear(r, W)
  BY <1>2
<1>8. CASE r.tasks = cl[c].tasks
  BY <1>8 DEF CallClear
<1>9. CASE r.tasks = <<>>
  BY <1>9 DEF CallClear
<1>10. CASE r.tasks = Append(cl[c].tasks, t)
  BY <1>4, <1>10, Zenon DEF CallClear
<1>11. CASE r.tasks = <<t>>
  BY <1>7, <1>11, Zenon DEF CallClear
<1> QED
  BY <1>8, <1>9, <1>10, <1>11

\* A record goes into the memtable.
LEMMA ApplyGoes ==
  ASSUME TypeInv, WaitInv, NEW c \in Clients, Apply(c)
  PROVE  \E r : LET x == cl[c].recs[cl[c].i]
                IN /\ Goes(c, r, {x}) /\ UNCHANGED <<flushQ, fl>>
                   /\ \A W : x \notin W /\ Clear(W) => MemClear(W)' /\ FilesClear(W)' /\ CallClear(r, W)
<1> USE DEF ctlVars, memVars, walVars, vsVars, compVars, histVars
<1> DEFINE call == cl[c]
           x == call.recs[call.i]
           m == mt \cup {x}
           full == Cardinality(m) >= MemtableSize
           last == call.i = Len(call.recs)
           tasks == IF full THEN Append(call.tasks, RotateTask(m)) ELSE call.tasks
           r1 == [call EXCEPT !.i = @ + 1, !.tasks = tasks]
           r2 == [call EXCEPT !.pc = "send", !.i = 1, !.tasks = tasks]
<1>1. PICK fault :
        /\ call.pc = "apply"
        /\ IF full THEN rotate(m, fault)
           ELSE mt' = m /\ UNCHANGED <<immt, walVars, vsVars, nextFileNum, files>>
        /\ Become(c, IF fault \in {"wal", "table"} THEN Idle
                     ELSE IF ~last THEN r1 ELSE IF tasks = <<>> THEN Idle ELSE r2)
        /\ UNCHANGED <<ctlVars, seqNum, flushQ, fl, compVars, snaps, rv, issued>>
  BY Zenon DEF Apply
<1>2. call \in Calls(issued) /\ CallShape(call) /\ OnceEach(call)
  BY DEF TypeInv, CallTypes, WaitInv
<1>3. call.recs \in Seq(issued) /\ call.i \in 1..Len(call.recs)
  BY <1>1, <1>2 DEF Calls, CallShape
<1>4. PICK r : Become(c, r) /\ (r = Idle \/ (~last /\ r = r1) \/ r = r2)
  <2> HIDE DEF call, m, full, last, tasks, r1, r2
  <2> QED
    BY <1>1
<1>5. /\ r1.pc = "apply" /\ r1.tasks = tasks /\ r1.recs = call.recs /\ r1.i = call.i + 1
      /\ r2.pc = "send" /\ r2.tasks = tasks
  <2> HIDE DEF tasks
  <2> QED
    BY <1>1, <1>2 DEF Calls
<1>6. Waiting(call) = {call.recs[j] : j \in call.i..Len(call.recs)}
  BY <1>1 DEF Waiting
<1>7. x \in Waiting(call)
  BY <1>3, <1>6
<1>8. OnceEach(r) /\ Waiting(r) \subseteq Waiting(call) \ {x}
  <2>1. CASE r = Idle
    BY <2>1, IdleWaits
  <2>2. CASE ~last /\ r = r1
    <3> HIDE DEF tasks, r1, r2
    <3>1. OnceEach(r)
      BY <1>1, <1>2, <1>5, <2>2 DEF OnceEach, Writes
    <3>2. Waiting(r) = {call.recs[j] : j \in (call.i + 1)..Len(call.recs)}
      BY <1>5, <2>2 DEF Waiting
    <3>3. \A i, j \in 1..Len(call.recs) : call.recs[i] = call.recs[j] => i = j
      BY <1>1, <1>2 DEF OnceEach, Writes
    <3>4. \A j \in (call.i + 1)..Len(call.recs) : j \in call.i..Len(call.recs) /\ call.recs[j] # x
      BY <1>3, <3>3
    <3> HIDE DEF x, call
    <3> QED
      BY <1>6, <3>1, <3>2, <3>4
  <2>3. CASE r = r2
    <3> HIDE DEF tasks, r1, r2, x, call
    <3> QED
      BY <1>5, <2>3 DEF OnceEach, Writes, Waiting
  <2> QED
    BY <1>4, <2>1, <2>2, <2>3
<1>9. r.tasks \in {call.tasks, <<>>, Append(call.tasks, RotateTask(m)), <<RotateTask(m)>>}
  <2>1. tasks \in {call.tasks, Append(call.tasks, RotateTask(m))}
    OBVIOUS
  <2> HIDE DEF tasks, r1, r2, m, call
  <2> QED
    BY <1>4, <1>5, <2>1, IdleWaits
<1>10. (mt' = m /\ UNCHANGED <<immt, files>>) \/ rotate(m, fault)
  <2> HIDE DEF m, full, tasks, r1, r2
  <2> QED
    BY <1>1
<1>11. mt' \subseteq m /\ (immt' = immt \/ immt' = {m})
  <2> HIDE DEF m
  <2> QED
    BY <1>10 DEF rotate
<1>12. Goes(c, r, {x})
  <2>1. phase' = phase /\ rv' = rv /\ issued' = issued
    BY <1>1
  <2> HIDE DEF x, r1, r2, tasks, full, last
  <2> QED
    BY <1>4, <1>7, <1>8, <1>11, <2>1 DEF Goes
<1>13. ASSUME NEW W, x \notin W, Clear(W) PROVE MemClear(W)' /\ FilesClear(W)' /\ CallClear(r, W)
  <2>1. W \cap m = {} /\ MemClear(W) /\ FilesClear(W) /\ CallClear(call, W)
    BY <1>13 DEF Clear, MemClear
  <2> HIDE DEF m, x, r1, r2, tasks, full, last
  <2>2. CallClear(r, W)
    BY <1>9, <2>1, TaskClear
  <2>3. MemClear(W)' /\ FilesClear(W)'
    BY <1>10, <2>1, RotateClear DEF MemClear, FilesClear
  <2> QED
    BY <2>2, <2>3
<1>14. UNCHANGED <<flushQ, fl>>
  BY <1>1
<1> HIDE DEF r1, r2, tasks, full, last, m
<1> QED
  BY <1>12, <1>13, <1>14

\* Sync and Close freeze the memtable.
LEMMA RotateForSyncGoes ==
  ASSUME TypeInv, WaitInv, NEW c \in Clients, RotateForSync(c)
  PROVE  \E r : /\ Goes(c, r, {}) /\ UNCHANGED <<flushQ, fl>>
                /\ \A W : Clear(W) => MemClear(W)' /\ FilesClear(W)' /\ CallClear(r, W)
<1> USE DEF ctlVars, memVars, walVars, vsVars, compVars, histVars
<1> DEFINE call == cl[c]
           wait == [call EXCEPT !.pc = "wait"]
           send == [call EXCEPT !.pc = "send", !.tasks = <<RotateTask(mt)>>]
<1>1. PICK fault : /\ call.pc = "rotate"
                   /\ \/ /\ Become(c, IF call.op = "sync" THEN Idle ELSE wait)
                         /\ UNCHANGED <<phase, memVars, walVars, vsVars, nextFileNum, files>>
                      \/ /\ rotate(mt, fault)
                         /\ IF fault \in {"wal", "table"} THEN Become(c, Idle) /\ phase' = "up"
                            ELSE Become(c, send) /\ phase' = phase
                   /\ UNCHANGED <<starts, mu, seqNum, flushQ, fl, compVars, snaps, rv, histVars>>
  BY DEF RotateForSync
<1>2. call \in Calls(issued)
  BY DEF TypeInv, CallTypes
<1>3. /\ wait.pc = "wait" /\ wait.tasks = call.tasks /\ send.pc = "send" /\ send.tasks = <<RotateTask(mt)>>
  BY <1>2 DEF Calls
<1> HIDE DEF wait, send
<1>4. PICK r : /\ Become(c, r) /\ r \in {Idle, wait, send} /\ phase' \in {phase, "up"}
               /\ UNCHANGED <<mt, immt, files>> \/ rotate(mt, fault)
  BY <1>1
<1>5. OnceEach(r) /\ Waiting(r) = {}
  BY <1>3, <1>4, IdleWaits DEF OnceEach, Writes, Waiting
<1>6. mt' \in {mt, {}} /\ immt' \in {immt, {mt}}
  BY <1>4 DEF rotate
<1>7. Goes(c, r, {})
  BY <1>1, <1>4, <1>5, <1>6 DEF Goes
<1>8. ASSUME NEW W, Clear(W) PROVE MemClear(W)' /\ FilesClear(W)' /\ CallClear(r, W)
  <2>1. W \cap mt = {} /\ MemClear(W) /\ FilesClear(W) /\ CallClear(call, W)
    BY <1>8 DEF Clear, MemClear
  <2>2. r.tasks \in {call.tasks, <<>>, Append(call.tasks, RotateTask(mt)), <<RotateTask(mt)>>}
    BY <1>3, <1>4, IdleWaits
  <2>3. CallClear(r, W)
    BY <2>1, <2>2, TaskClear
  <2>4. MemClear(W)' /\ FilesClear(W)'
    BY <1>4, <2>1, RotateClear DEF MemClear, FilesClear
  <2> QED
    BY <2>3, <2>4
<1> QED
  BY <1>1, <1>7, <1>8

\* A task is sent to the flusher.
LEMMA SendGoes ==
  ASSUME TypeInv, WaitInv, NEW c \in Clients, Send(c)
  PROVE  \E r : /\ Goes(c, r, {}) /\ UNCHANGED <<mt, immt, files>>
                /\ \A W : Clear(W) => QueueClear(W)' /\ CallClear(r, W)
<1> USE DEF ctlVars, memVars, walVars, vsVars, compVars, histVars
<1> DEFINE call == cl[c]
           t == call.tasks[call.i]
           go(pc) == [call EXCEPT !.i = @ + 1, !.pc = pc]
<1>1. /\ call.pc = "send" /\ flushQ' = Append(flushQ, t)
      /\ UNCHANGED <<phase, mt, immt, files, fl, rv, issued>>
  BY DEF Send
<1>2. call \in Calls(issued) /\ CallShape(call)
  BY DEF TypeInv, CallTypes
<1>3. call.i \in 1..Len(call.tasks) /\ call.tasks \in Seq(Tasks(issued)) /\ flushQ \in Seq(Tasks(issued))
  BY <1>1, <1>2 DEF CallShape, Calls, TypeInv, FlusherTypes
<1>4. PICK r : Become(c, r) /\ (r = Idle \/ r = go("wait") \/ r = go("send"))
  BY DEF Send
<1>5. OnceEach(r) /\ Waiting(r) = {} /\ r.tasks \in {call.tasks, <<>>}
  <2>1. \A pc \in {"wait", "send"} : go(pc).pc = pc /\ go(pc).tasks = call.tasks
    BY <1>2 DEF Calls
  <2> HIDE DEF go
  <2> QED
    BY <1>4, <2>1, IdleWaits DEF OnceEach, Writes, Waiting
<1>6. Goes(c, r, {})
  BY <1>1, <1>4, <1>5 DEF Goes
<1>7. ASSUME NEW W, Clear(W) PROVE QueueClear(W)' /\ CallClear(r, W)
  <2>1. QueueClear(W) /\ CallClear(call, W)
    BY <1>7 DEF Clear
  <2>2. W \cap t.mt = {}
    BY <1>3, <2>1 DEF CallClear
  <2> HIDE DEF t, call
  <2>3. QueueClear(W)'
    BY <1>1, <1>3, <2>1, <2>2 DEF QueueClear
  <2> QED
    BY <1>5, <2>1, <2>3 DEF CallClear
<1> QED
  BY <1>1, <1>6, <1>7

----------------------------------------------------------------------------
\* A compaction writes records of its inputs.
LEMMA MergeClear ==
  ASSUME TypeInv, CompactMerge, NEW W, FilesClear(W)
  PROVE  FilesClear(W)'
<1> DEFINE next == job.level + 1
           recs == UNION {FileRecords(t) : t \in ToSet(job.all)}
           S(heads) == Survivors(heads, next = Bottom, oldest)
           outs(heads) == Outputs(S(heads))
           full(heads) == Len(outs(heads)) * MaxSSTableSize = Cardinality(S(heads))
           scratch(heads) == IF full(heads) THEN {<<next, OutNum(Len(outs(heads)) + 1)>>} ELSE {}
<1>1. \/ files' = files
      \/ \E heads \in OnePerKey(Heads(recs)) :
           \/ files' = Unlink(Overlay(files, Written(outs(heads), Len(outs(heads)))), scratch(heads))
           \/ \E k \in 0..(IF full(heads) THEN Len(outs(heads)) ELSE Len(outs(heads)) - 1) :
                files' = Create(Overlay(files, Written(outs(heads), k)), <<next, OutNum(k + 1)>>, {})
  BY DEF CompactMerge, Written, OutNum
<1>2. recs \cap W = {}
  <2>1. \A t : FileRecords(t) \cap W = {}
    BY DEF FileRecords, Readable, FilesClear
  <2> QED
    BY <2>1
<1> HIDE DEF recs
<1>3. ASSUME NEW heads \in OnePerKey(Heads(recs)), NEW k \in 0..Len(outs(heads)), NEW p \in DOMAIN Written(outs(heads), k)
      PROVE  W \cap Written(outs(heads), k)[p] = {}
  <2>1. S(heads) \cap W = {}
    BY <1>2 DEF OnePerKey, Heads, Survivors
  <2>2. ASSUME NEW i \in 1..Len(outs(heads)) PROVE outs(heads)[i] \subseteq S(heads)
    <3> DEFINE T == S(heads)
               n == (Cardinality(T) + MaxSSTableSize - 1) \div MaxSSTableSize
               part(j) == {r \in T : Cardinality({q \in T : q.key <= r.key}) \in ((j - 1) * MaxSSTableSize + 1)..(j * MaxSSTableSize)}
    <3>1. Outputs(T) = [j \in 1..n |-> part(j)]
      BY DEF Outputs
    <3>2. outs(heads) \in Seq(FullTables(issued))
      BY SurvivorTypes DEF recs
    <3>3. DOMAIN outs(heads) = 1..Len(outs(heads))
      <4> HIDE DEF outs
      <4> QED
        BY <3>2
    <3>4. i \in 1..n
      BY <3>1, <3>3
    <3>5. Outputs(T)[i] = part(i)
      BY <3>1, <3>4
    <3> QED
      BY <3>5
  <2>3. outs(heads) \in Seq(FullTables(issued))
    BY SurvivorTypes DEF recs
  <2> HIDE DEF outs, S
  <2>4. Len(outs(heads)) \in Nat
    BY <2>3
  <2> DEFINE D == {<<next, OutNum(i)>> : i \in 1..k}
             pick(q) == CHOOSE i \in 1..k : OutNum(i) = q[2]
  <2>5. Written(outs(heads), k) = [q \in D |-> outs(heads)[pick(q)]]
    BY DEF Written
  <2>6. p \in D
    BY <2>5
  <2>7. pick(p) \in 1..k
    <3>1. PICK i \in 1..k : p = <<next, OutNum(i)>>
      BY <2>6
    <3>2. OutNum(i) = p[2]
      BY <3>1
    <3> QED
      BY <3>2
  <2>8. Written(outs(heads), k)[p] = outs(heads)[pick(p)]
    BY <2>5, <2>6
  <2> HIDE DEF pick, D
  <2>9. pick(p) \in 1..Len(outs(heads))
    BY <2>4, <2>7
  <2> QED
    BY <2>1, <2>2, <2>8, <2>9
<1>4. ASSUME NEW heads \in OnePerKey(Heads(recs)) PROVE Len(outs(heads)) \in Nat
  <2>1. outs(heads) \in Seq(FullTables(issued))
    BY SurvivorTypes DEF recs
  <2> HIDE DEF outs
  <2> QED
    BY <2>1
<1> HIDE DEF outs, S, full, scratch
<1>5. CASE files' = files
  BY <1>5 DEF FilesClear
<1>6. ASSUME NEW heads \in OnePerKey(Heads(recs)),
             files' = Unlink(Overlay(files, Written(outs(heads), Len(outs(heads)))), scratch(heads))
      PROVE  FilesClear(W)'
  <2>1. Len(outs(heads)) \in 0..Len(outs(heads))
    BY <1>4
  <2>2. \A p \in DOMAIN Written(outs(heads), Len(outs(heads))) : W \cap Written(outs(heads), Len(outs(heads)))[p] = {}
    BY <1>3, <2>1
  <2> DEFINE V == Written(outs(heads), Len(outs(heads)))
  <2> HIDE DEF V
  <2> QED
    BY <1>6, <2>2 DEF FilesClear, Unlink, Overlay, V
<1>7. ASSUME NEW heads \in OnePerKey(Heads(recs)),
             NEW k \in 0..(IF full(heads) THEN Len(outs(heads)) ELSE Len(outs(heads)) - 1),
             files' = Create(Overlay(files, Written(outs(heads), k)), <<next, OutNum(k + 1)>>, {})
      PROVE  FilesClear(W)'
  <2>1. k \in 0..Len(outs(heads))
    BY <1>4, <1>7
  <2>2. \A p \in DOMAIN Written(outs(heads), k) : W \cap Written(outs(heads), k)[p] = {}
    BY <1>3, <2>1
  <2> QED
    BY <1>7, <2>2 DEF FilesClear, Create, Overlay
<1> QED
  BY <1>1, <1>5, <1>6, <1>7

\* The steps of the background goroutines and of snapshots bring no record anywhere it
\* or its like was not.
LEMMA BackgroundClear ==
  ASSUME TypeInv, FlusherNext \/ CompactorNext \/ SnapshotNext \/ Quiet \/ UNCHANGED vars
  PROVE  /\ UNCHANGED <<mt, cl, issued, rv, phase>> /\ immt' \in {immt, {}}
         /\ \A W : Clear(W) => Clear(W)'
<1> USE DEF ctlVars, memVars, walVars, vsVars, compVars, histVars
<1>1. FlIdle.task.mt = {}
  BY DEF FlIdle, NoTask, Task
<1>2. fl \in Flushers(issued) /\ flushQ \in Seq(Tasks(issued))
  BY DEF TypeInv, FlusherTypes
<1>3. CASE UNCHANGED <<mt, immt, files, flushQ, fl, cl, issued, rv, phase>>
  BY <1>3 DEF Clear, MemClear, FilesClear, QueueClear, CallClear
<1>4. CASE FlushTake
  <2>1. flushQ # <<>> /\ flushQ' = Tail(flushQ) /\ UNCHANGED <<mt, immt, files, cl, issued, rv, phase>>
    BY <1>4 DEF FlushTake
  <2>2. fl'.task = Head(flushQ)
    BY <1>4 DEF FlushTake, FlIdle
  <2>3. \A W : QueueClear(W) => QueueClear(W)'
    BY <1>2, <2>1, <2>2 DEF QueueClear
  <2> QED
    BY <2>1, <2>3 DEF Clear, MemClear, FilesClear, CallClear
<1>5. CASE FlushWrite
  <2>1. /\ UNCHANGED <<mt, immt, flushQ, cl, issued, rv, phase>>
        /\ \/ fl' = FlIdle /\ files' = files
           \/ files' = Create(files, <<0, fl.task.num>>, fl.task.mt) /\ fl' = [fl EXCEPT !.pc = "install", !.next = nextFileNum]
    BY <1>5 DEF FlushWrite
  <2>2. fl' = FlIdle \/ fl'.task = fl.task
    BY <1>2, <2>1 DEF Flushers
  <2>3. \A W : QueueClear(W) => QueueClear(W)'
    BY <1>1, <2>1, <2>2 DEF QueueClear
  <2>4. ASSUME NEW W, QueueClear(W), FilesClear(W) PROVE FilesClear(W)'
    <3>1. W \cap fl.task.mt = {}
      BY <2>4 DEF QueueClear
    <3> QED
      BY <2>1, <2>4, <3>1 DEF FilesClear, Create, Overlay
  <2> QED
    BY <2>1, <2>3, <2>4 DEF Clear, MemClear, CallClear
<1>6. CASE FlushInstall
  <2>1. UNCHANGED <<mt, immt, files, flushQ, cl, issued, rv, phase>> /\ fl' = [fl EXCEPT !.pc = "cleanup"]
    BY <1>6 DEF FlushInstall
  <2>2. fl'.task = fl.task
    BY <1>2, <2>1 DEF Flushers
  <2> QED
    BY <2>1, <2>2 DEF Clear, MemClear, FilesClear, QueueClear, CallClear
<1>7. CASE FlushCleanup
  <2>1. UNCHANGED <<mt, files, flushQ, cl, issued, rv, phase>> /\ fl' = FlIdle /\ immt' = {}
    BY <1>7 DEF FlushCleanup
  <2> QED
    BY <1>1, <2>1 DEF Clear, MemClear, FilesClear, QueueClear, CallClear
<1>8. CASE CompactMerge
  <2>1. UNCHANGED <<mt, immt, flushQ, fl, cl, issued, rv, phase>>
    BY <1>8, MergeSteps
  <2> QED
    BY <1>8, <2>1, MergeClear DEF Clear, MemClear, QueueClear, CallClear
<1>9. CASE CompactRemove
  <2>1. UNCHANGED <<mt, immt, flushQ, fl, cl, issued, rv, phase>> /\ files' = Unlink(files, Paths(job.all))
    BY <1>9 DEF CompactRemove
  <2> QED
    BY <2>1 DEF Clear, MemClear, FilesClear, QueueClear, CallClear, Unlink
<1>10. CASE CompactBegin \/ CompactInstall \/ CompactDone \/ Reschedule \/ RescheduleClear
  <2>1. UNCHANGED <<mt, immt, files, flushQ, fl, cl, issued, rv, phase>>
    BY <1>10 DEF CompactBegin, CompactInstall, CompactDone, Reschedule, RescheduleClear
  <2> QED
    BY <1>3, <2>1
<1>11. CASE SnapshotNext \/ Quiet \/ UNCHANGED vars
  <2>1. UNCHANGED <<mt, immt, files, flushQ, fl, cl, issued, rv, phase>>
    BY <1>11 DEF SnapshotNext, NewSnapshot, Release, Quiet, vars
  <2> QED
    BY <1>3, <2>1
<1> QED
  BY <1>4, <1>5, <1>6, <1>7, <1>8, <1>9, <1>10, <1>11 DEF FlusherNext, CompactorNext

\* A call that writes begins: its records are new.
LEMMA StartGoes ==
  ASSUME TypeInv, NEW c \in Clients, Put(c) \/ Delete(c) \/ WriteBatch(c)
  PROVE  \E r : /\ phase = "up" /\ cl[c] = Idle /\ Become(c, r) /\ OnceEach(r) /\ r.tasks = <<>>
                /\ issued \subseteq issued' /\ Waiting(r) \subseteq issued' \ issued
                /\ UNCHANGED <<mt, immt, files, flushQ, fl, rv, phase>>
<1> USE DEF ctlVars, memVars, walVars, vsVars, compVars, histVars
<1>1. PICK n \in Nat \ {0} : \E ks \in [1..n -> Keys], ds \in [1..n -> BOOLEAN] : Starts(c, ks, ds)
  BY WriteStarts
<1>2. PICK ks \in [1..n -> Keys], ds \in [1..n -> BOOLEAN] : Starts(c, ks, ds)
  BY <1>1
<1>3. PICK op \in {"write", "batch"}, pc \in {"stall", "log", "apply"} : Start(c, op, pc, NewRecords(ks, ds))
  BY <1>2 DEF Starts
<1>4. PICK recs : recs = NewRecords(ks, ds)
  OBVIOUS
<1>5. PICK r : r = [Idle EXCEPT !.op = op, !.pc = pc, !.recs = recs]
  OBVIOUS
<1>6. /\ phase = "up" /\ cl[c] = Idle /\ Cardinality(issued) + Len(recs) <= MaxWrites
      /\ issued' = issued \cup ToSet(recs) /\ Become(c, r)
      /\ UNCHANGED <<mt, immt, files, flushQ, fl, rv, phase>>
  BY <1>3, <1>4, <1>5 DEF Start
<1>7. r.pc = pc /\ r.recs = recs /\ r.i = 1 /\ r.tasks = <<>>
  BY <1>5 DEF Idle
<1>8. History
  BY DEF TypeInv
<1>9. recs \in Seq(issued \cup ToSet(recs)) /\ Len(recs) = n
  BY <1>4, <1>6, <1>8, NewIssued
<1>10. \A i \in 1..n : recs[i].val = Cardinality(issued) + i
  <2>1. Len(ks) = n
    OBVIOUS
  <2> QED
    BY <1>4, <2>1 DEF NewRecords
<1>11. Cardinality(issued) \in Nat /\ \A q \in issued : q.val <= Cardinality(issued)
  BY <1>8, FS_CardinalityType DEF History
<1>12. Waiting(r) = ToSet(recs) /\ ToSet(recs) = {recs[i] : i \in 1..n}
  BY <1>7, <1>9 DEF Waiting, ToSet
<1>13. Waiting(r) \cap issued = {}
  <2> SUFFICES ASSUME NEW i \in 1..n, recs[i] \in issued PROVE FALSE
    BY <1>12
  <2>1. recs[i].val = Cardinality(issued) + i /\ recs[i].val <= Cardinality(issued)
    BY <1>10, <1>11
  <2> QED
    BY <1>11, <2>1
<1>14. OnceEach(r)
  <2> SUFFICES ASSUME NEW i \in 1..n, NEW j \in 1..n, recs[i] = recs[j] PROVE i = j
    BY <1>7, <1>9 DEF OnceEach
  <2>1. Cardinality(issued) + i = Cardinality(issued) + j
    BY <1>10
  <2> QED
    BY <1>11, <2>1
<1> QED
  BY <1>6, <1>7, <1>12, <1>13, <1>14

----------------------------------------------------------------------------
\* A step of an engine that is open: only records X that calls waited to insert are new
\* in the memtable, and only the memtable is frozen.
Serves(X) ==
  /\ Serving' /\ issued \subseteq issued'
  /\ \A x \in X : \E c \in Clients : x \in Waiting(cl[c])
  /\ mt' \subseteq mt \cup X
  /\ immt' = immt \/ immt' \in {{}, {mt}, {mt \cup X}}
  /\ \A d \in Clients : Waiting(cl'[d]) \subseteq Waiting(cl[d]) \cup (issued' \ issued)

\* A call goes on.
LEMMA GoesServes ==
  ASSUME TypeInv, WaitInv, Serving, NEW c \in Clients, NEW r, NEW X, Goes(c, r, X),
         \A W : W \cap X = {} /\ Clear(W) => MemClear(W)' /\ FilesClear(W)' /\ QueueClear(W)' /\ CallClear(r, W)
  PROVE  Serves(X) /\ WaitInv'
<1>1. /\ Become(c, r) /\ OnceEach(r) /\ X \subseteq Waiting(cl[c]) /\ Waiting(r) \subseteq Waiting(cl[c]) \ X
      /\ issued' = issued /\ rv' = rv /\ phase' \in {phase, "up", "closing"}
      /\ mt' \subseteq mt \cup X /\ (immt' = immt \/ immt' \in {{mt}, {mt \cup X}})
  BY DEF Goes
<1>2. \A d \in Clients : cl'[d] = IF d = c THEN r ELSE cl[d]
  BY <1>1 DEF Become, TypeInv, CallTypes
<1>3. \A d \in Clients : Waiting(cl'[d]) \subseteq Waiting(cl[d]) \ X
  BY <1>1, <1>2 DEF WaitInv
<1>4. Serves(X)
  BY <1>1, <1>3 DEF Serves, Serving
<1>5. ASSUME NEW d \in Clients PROVE OnceEach(cl[d])' /\ Clear(Waiting(cl[d]))'
  <2>1. PICK W : W = Waiting(cl'[d])
    OBVIOUS
  <2>2. W \cap X = {} /\ Clear(W)
    <3>1. Clear(Waiting(cl[d]))
      BY DEF WaitInv
    <3> QED
      BY <1>3, <2>1, <3>1, ClearUnion
  <2>3. MemClear(W)' /\ FilesClear(W)' /\ QueueClear(W)' /\ CallClear(r, W)
    BY <2>2
  <2>4. \A e \in Clients : CallClear(cl'[e], W)
    BY <1>2, <2>2, <2>3 DEF Clear
  <2>5. Clear(W)'
    BY <2>3, <2>4 DEF Clear
  <2>6. OnceEach(cl'[d])
    BY <1>1, <1>2 DEF WaitInv
  <2> QED
    BY <2>1, <2>5, <2>6 DEF Clear, MemClear, FilesClear, QueueClear, CallClear
<1>6. \A d, e \in Clients : d # e => Waiting(cl'[d]) \cap Waiting(cl'[e]) = {}
  BY <1>3 DEF WaitInv
<1>7. rv'.pc = "idle" /\ phase' # "recovering"
  BY <1>1 DEF WaitInv, Serving
<1> QED
  BY <1>4, <1>5, <1>6, <1>7 DEF WaitInv

\* A call that writes begins.
LEMMA StartServes ==
  ASSUME TypeInv, TypeInv', WaitInv, Serving, NEW c \in Clients, Put(c) \/ Delete(c) \/ WriteBatch(c)
  PROVE  Serves({}) /\ WaitInv'
<1>1. PICK r : /\ phase = "up" /\ cl[c] = Idle /\ Become(c, r) /\ OnceEach(r) /\ r.tasks = <<>>
               /\ issued \subseteq issued' /\ Waiting(r) \subseteq issued' \ issued
               /\ UNCHANGED <<mt, immt, files, flushQ, fl, rv, phase>>
  BY StartGoes
<1>2. \A d \in Clients : cl'[d] = IF d = c THEN r ELSE cl[d]
  BY <1>1 DEF Become, TypeInv, CallTypes
<1>3. \A d \in Clients : Waiting(cl'[d]) \subseteq Waiting(cl[d]) \cup (issued' \ issued)
  BY <1>1, <1>2
<1>4. Serves({})
  BY <1>1, <1>3 DEF Serves, Serving
<1>5. ASSUME NEW W, Clear(W) PROVE Clear(W)'
  <2>1. \A d \in Clients : CallClear(cl'[d], W)
    BY <1>1, <1>2, <1>5 DEF Clear, CallClear
  <2> QED
    BY <1>1, <1>5, <2>1 DEF Clear, MemClear, FilesClear, QueueClear
<1>6. ASSUME NEW d \in Clients PROVE OnceEach(cl[d])' /\ Clear(Waiting(cl[d]))'
  <2>1. PICK W : W = Waiting(cl'[d])
    OBVIOUS
  <2>2. Clear(issued' \ issued)
    BY UnissuedClear
  <2>3. Clear(W)
    <3>1. Clear(Waiting(cl[d]))
      BY DEF WaitInv
    <3> QED
      BY <1>3, <2>1, <2>2, <3>1, ClearUnion
  <2>4. OnceEach(cl'[d])
    BY <1>1, <1>2 DEF WaitInv
  <2> QED
    <3>1. Clear(W)'
      BY <1>5, <2>3
    <3> QED
      BY <2>1, <2>4, <3>1 DEF Clear, MemClear, FilesClear, QueueClear, CallClear
<1>7. ASSUME NEW d \in Clients, NEW e \in Clients, d # e PROVE Waiting(cl'[d]) \cap Waiting(cl'[e]) = {}
  <2>1. Waiting(cl[d]) \subseteq issued /\ Waiting(cl[e]) \subseteq issued
    BY WaitingIssued
  <2> QED
    BY <1>1, <1>2, <1>7, <2>1 DEF WaitInv
<1>8. rv'.pc = "idle" /\ phase' # "recovering"
  BY <1>1 DEF WaitInv, Serving
<1> QED
  BY <1>4, <1>6, <1>7, <1>8 DEF WaitInv

\* What a step of an engine that is open can be.
LEMMA ServingStep ==
  ASSUME TypeInv, TypeInv', WaitInv, Serving, [Next]_vars
  PROVE  WaitInv' /\ (phase' = "down" \/ \E X : Serves(X))
<1>1. CASE \E c \in Clients : ClientNext(c)
  <2>1. PICK c \in Clients : ClientNext(c)
    BY <1>1
  <2>2. CASE Put(c) \/ Delete(c) \/ WriteBatch(c)
    BY <2>2, StartServes
  <2>3. CASE Stall(c) \/ ReadWal(c) \/ AppendWal(c) \/ Sync(c) \/ Close(c) \/ SyncReturn(c)
    <3>1. PICK r : Goes(c, r, {}) /\ r.tasks \in {cl[c].tasks, <<>>} /\ UNCHANGED <<mt, immt, files, flushQ, fl>>
      BY <2>3, PlainGoes
    <3>2. \A W : Clear(W) => MemClear(W)' /\ FilesClear(W)' /\ QueueClear(W)' /\ CallClear(r, W)
      BY <3>1 DEF Clear, MemClear, FilesClear, QueueClear, CallClear
    <3> QED
      BY <3>1, <3>2, GoesServes
  <2>4. CASE Apply(c)
    <3> DEFINE x == cl[c].recs[cl[c].i]
    <3>1. PICK r : /\ Goes(c, r, {x}) /\ UNCHANGED <<flushQ, fl>>
                   /\ \A W : x \notin W /\ Clear(W) => MemClear(W)' /\ FilesClear(W)' /\ CallClear(r, W)
      BY <2>4, ApplyGoes
    <3> HIDE DEF x
    <3>2. \A W : Clear(W) => QueueClear(W)'
      BY <3>1 DEF Clear, QueueClear
    <3> QED
      BY <3>1, <3>2, GoesServes
  <2>5. CASE Send(c)
    <3>1. PICK r : /\ Goes(c, r, {}) /\ UNCHANGED <<mt, immt, files>>
                   /\ \A W : Clear(W) => QueueClear(W)' /\ CallClear(r, W)
      BY <2>5, SendGoes
    <3>2. \A W : Clear(W) => MemClear(W)' /\ FilesClear(W)'
      BY <3>1 DEF Clear, MemClear, FilesClear
    <3> QED
      BY <3>1, <3>2, GoesServes
  <2>6. CASE RotateForSync(c)
    <3>1. PICK r : /\ Goes(c, r, {}) /\ UNCHANGED <<flushQ, fl>>
                   /\ \A W : Clear(W) => MemClear(W)' /\ FilesClear(W)' /\ CallClear(r, W)
      BY <2>6, RotateForSyncGoes
    <3>2. \A W : Clear(W) => QueueClear(W)'
      BY <3>1 DEF Clear, QueueClear
    <3> QED
      BY <3>1, <3>2, GoesServes
  <2> QED
    BY <2>1, <2>2, <2>3, <2>4, <2>5, <2>6 DEF ClientNext
<1>2. CASE FlusherNext \/ CompactorNext \/ SnapshotNext \/ Quiet \/ UNCHANGED vars
  <2>1. /\ UNCHANGED <<mt, cl, issued, rv, phase>> /\ immt' \in {immt, {}}
        /\ \A W : Clear(W) => Clear(W)'
    BY <1>2, BackgroundClear
  <2>2. Serves({})
    BY <2>1 DEF Serves, Serving
  <2>3. \A c \in Clients : Clear(Waiting(cl[c]))'
    BY <2>1 DEF WaitInv
  <2>4. WaitInv'
    BY <2>1, <2>3 DEF WaitInv
  <2> QED
    BY <2>2, <2>4
<1>3. CASE Crash \/ \E c \in Clients : CloseReturn(c)
  <2>1. phase' = "down" /\ rv' = RvIdle /\ cl' = [c \in Clients |-> Idle]
    BY <1>3 DEF Crash, CloseReturn, LoseMemory
  <2>2. \A c \in Clients : cl'[c] = Idle
    BY <2>1
  <2>3. Clear({})'
    BY DEF Clear, MemClear, FilesClear, QueueClear, CallClear
  <2>4. rv'.pc = "idle" /\ phase' # "recovering"
    BY <2>1 DEF RvIdle
  <2> QED
    BY <2>1, <2>2, <2>3, <2>4, IdleWaits DEF WaitInv
<1>4. CASE RecoveryNext
  <2>1. rv.pc = "idle" /\ phase \in {"up", "closing"} /\ rv \in Recoveries(issued)
    BY DEF WaitInv, Serving, TypeInv, RecoveryTypes
  <2>2. ~New /\ ~OpenTorn
    BY <2>1 DEF New, OpenTorn
  <2>3. ~(RecoverOpen \/ RecoverRecord \/ RecoverFails \/ RecoverSend \/ RecoverLogDone \/ RecoverFinish)
    BY <2>1 DEF RecoverOpen, RecoverRecord, RecoverFails, RecoverSend, RecoverLogDone, RecoverFinish
  <2> QED
    BY <1>4, <2>2, <2>3 DEF RecoveryNext
<1> QED
  BY <1>1, <1>2, <1>3, <1>4 DEF Next

\* Without a call there is nothing to insert.
LEMMA AllIdle ==
  ASSUME \A c \in Clients : cl[c] = Idle, rv.pc # "idle" => phase = "recovering"
  PROVE  WaitInv
<1>1. Clear({})
  BY DEF Clear, MemClear, FilesClear, QueueClear, CallClear
<1>2. \A c \in Clients : OnceEach(cl[c]) /\ Waiting(cl[c]) = {}
  BY IdleWaits
<1>3. \A c \in Clients : Clear(Waiting(cl[c]))
  BY <1>1, <1>2
<1> QED
  BY <1>2, <1>3 DEF WaitInv

\* An engine that is not open is in no call, and stays so until it is.
LEMMA NotServingStep ==
  ASSUME TypeInv, WaitInv, ~Serving, [Next]_vars
  PROVE  WaitInv'
<1> USE DEF ctlVars, memVars, walVars, vsVars, compVars, histVars
<1>1. phase \in {"down", "failed", "recovering"}
  BY DEF TypeInv, Counters, Serving
<1>2. \A c \in Clients : cl[c] = Idle
  BY <1>1 DEF TypeInv, Lost, WaitInv
<1>3. ASSUME NEW c \in Clients, ClientNext(c) \/ CloseReturn(c) PROVE FALSE
  <2>1. cl[c].pc = "idle" /\ phase # "up"
    BY <1>1, <1>2, IdleWaits
  <2>2. ~(Put(c) \/ Delete(c) \/ WriteBatch(c))
    BY <2>1 DEF Put, Delete, WriteBatch, Start
  <2> QED
    BY <1>3, <2>1, <2>2 DEF ClientNext, Stall, ReadWal, AppendWal, Apply, Send, Sync, Close, RotateForSync,
      SyncReturn, CloseReturn
<1>4. SUFFICES (\A c \in Clients : cl'[c] = Idle) /\ (rv'.pc # "idle" => phase' = "recovering")
  <2>1. Clear({})'
    BY DEF Clear, MemClear, FilesClear, QueueClear, CallClear
  <2> QED
    BY <1>4, <2>1, IdleWaits DEF WaitInv
<1>5. CASE FlusherNext \/ CompactorNext \/ SnapshotNext \/ Quiet \/ UNCHANGED vars
  <2>1. UNCHANGED <<cl, rv, phase>>
    BY <1>5, BackgroundClear
  <2> QED
    BY <1>2, <2>1 DEF WaitInv
<1>6. ASSUME LoseMemory PROVE (\A c \in Clients : cl'[c] = Idle) /\ rv'.pc = "idle"
  BY <1>6 DEF LoseMemory, RvIdle
<1>7. CASE Crash
  BY <1>6, <1>7 DEF Crash
<1>8. CASE New
  <2>1. cl' = cl
    BY <1>8 DEF New
  <2>2. CASE CrashRecovery
    BY <1>2, <1>8, <2>1, <2>2 DEF New
  <2>3. CASE ~CrashRecovery
    <3>1. rv' = RvIdle
      BY <1>8, <2>3 DEF New
    <3> QED
      BY <1>2, <2>1, <3>1 DEF RvIdle
  <2> QED
    BY <2>2, <2>3
<1>9. CASE RecoverOpen \/ RecoverRecord \/ RecoverSend
  <2>1. rv.pc # "idle" /\ cl' = cl /\ phase' = phase
    BY <1>9 DEF RecoverOpen, RecoverRecord, RecoverSend
  <2> QED
    BY <1>2, <2>1 DEF WaitInv
<1>10. CASE RecoverFails \/ OpenTorn
  BY <1>1, <1>2, <1>6, <1>10 DEF RecoverFails, OpenTorn, TypeInv, Lost, RvIdle
<1>11. CASE RecoverLogDone
  <2>1. rv.pc # "idle" /\ (LoseMemory \/ (cl' = cl /\ phase' = phase))
    BY <1>11 DEF RecoverLogDone
  <2> QED
    BY <1>2, <1>6, <2>1 DEF WaitInv
<1>12. CASE RecoverFinish
  BY <1>2, <1>12 DEF RecoverFinish, RvIdle
<1> QED
  BY <1>3, <1>5, <1>7, <1>8, <1>9, <1>10, <1>11, <1>12 DEF Next, RecoveryNext

\* The invariant is one of the engine.
LEMMA WaitStep ==
  ASSUME TypeInv, TypeInv', WaitInv, [Next]_vars
  PROVE  WaitInv'
BY ServingStep, NotServingStep

\* ... and holds at first.
LEMMA WaitInit == ASSUME Init PROVE WaitInv
<1>1. \A c \in Clients : cl[c] = Idle
  BY DEF Init
<1>2. rv.pc = "idle"
  BY DEF Init, RvIdle
<1> QED
  BY <1>1, <1>2, AllIdle

\* What calls have still to insert the engine does not hold.
LEMMA WaitingStored ==
  ASSUME TypeInv, WaitInv, phase = "up", NEW c \in Clients
  PROVE  Waiting(cl[c]) \cap Stored = {}
<1> DEFINE W == Waiting(cl[c])
<1>1. Clear(W)
  BY DEF WaitInv
<1> HIDE DEF W
<1>2. W \cap mt = {} /\ W \cap UNION immt = {}
  BY <1>1 DEF Clear, MemClear
<1>3. W \cap TableRecords = {}
  BY <1>1 DEF Clear, FilesClear, TableRecords, FileRecords, Readable
<1>4. ASSUME NEW t \in FrozenTasks PROVE W \cap t.mt = {}
  <2>1. rv.tasks = <<>>
    BY DEF WaitInv, TypeInv, RecoveryTypes
  <2>2. ToSet(rv.tasks) = {}
    BY <2>1 DEF ToSet
  <2>3. flushQ \in Seq(Tasks(issued))
    BY DEF TypeInv, FlusherTypes
  <2>4. CASE t \in ToSet(flushQ)
    BY <1>1, <2>4 DEF Clear, QueueClear, ToSet
  <2>5. CASE t = fl.task
    BY <1>1, <2>5 DEF Clear, QueueClear
  <2>6. CASE \E d \in Clients : \E i \in Pending(cl[d]) : t = cl[d].tasks[i]
    <3>0. PICK d \in Clients : \E i \in Pending(cl[d]) : t = cl[d].tasks[i]
      BY <2>6
    <3>1. PICK i \in Pending(cl[d]) : t = cl[d].tasks[i]
      BY <3>0
    <3>2. cl[d] \in Calls(issued) /\ CallShape(cl[d])
      BY DEF TypeInv, CallTypes
    <3>3. i \in 1..Len(cl[d].tasks)
      BY <3>1, <3>2 DEF Pending, CallShape, Calls
    <3> QED
      BY <1>1, <3>1, <3>3 DEF Clear, CallClear
  <2> QED
    BY <1>4, <2>2, <2>4, <2>5, <2>6 DEF FrozenTasks, UnsentTasks
<1> QED
  BY <1>2, <1>3, <1>4 DEF Stored, W

----------------------------------------------------------------------------
\* What a scan s is at each of its points, where m is the memtable and I are the issued
\* records.
ScanFields == {"pc", "start", "end", "seq", "srcs", "pred", "todo", "key", "best", "out", "cut",
               "view", "held", "hidden", "removed"}
ScanPoints == {"idle", "find", "land", "version", "reader", "open", "insert", "seek", "advance", "fatal", "end"}

\* A record that the scan may return: not before its start, unless it was not there.
Admits(s, r) == r.key >= s.start \/ r \notin s.held

ScanForm(s, I) ==
  /\ DOMAIN s = ScanFields /\ s.pc \in ScanPoints
  /\ s.start \in Int /\ s.end \in Int /\ s.held \subseteq I /\ s.pred \subseteq I
  /\ \E S : s.srcs \in Seq(S)
  /\ s.pc = "idle" => s.srcs = <<>> /\ s.held = {} /\ s.pred = {}
  /\ s.pc \in {"find", "land", "version", "reader", "open"} => Len(s.srcs) >= 1
  /\ s.pc \in {"insert", "seek"} => Len(s.srcs) >= 2
  /\ s.pc \notin {"advance", "end"} => s.out = <<>> /\ s.key = {} /\ s.best = {}

\* The records of a source, and that its iterator has passed those before the start
\* which were there when the scan began.
RecsOf(src, m) == IF src.live THEN m ELSE src.recs
SourceForm(src, I) ==
  /\ DOMAIN src = {"live", "num", "recs", "closed", "cur"}
  /\ src.recs \subseteq I /\ src.cur \subseteq I /\ \A c, d \in src.cur : c = d
Passed(s, recs, cur) ==
  \A c \in cur : Admits(s, c) /\ \A r \in recs : ~Admits(s, r) => Compare(r, c) <= 0
SourceAt(s, i, m, I) ==
  /\ SourceForm(s.srcs[i], I) /\ Passed(s, RecsOf(s.srcs[i], m), s.srcs[i].cur)
  /\ i # 1 => ~s.srcs[i].live
Sources(s, m, I) == \A i \in 1..Len(s.srcs) : SourceAt(s, i, m, I)
Found(s, m) ==
  s.pc = "land" => \A r \in RecsOf(s.srcs[1], m) : ~Admits(s, r) => \E p \in s.pred : Compare(r, p) <= 0

\* The iterators are not before the key that is collected, nor the key before what was
\* returned.
Collecting(s, I) ==
  /\ \A k, l \in s.key : k = l
  /\ \A k \in s.key : k \in Int /\ k < s.end
  /\ \A k \in s.key : \A i \in 1..Len(s.srcs) : \A c \in s.srcs[i].cur : k <= c.key
  /\ \A b \in s.best : b \in I /\ b.key \in s.key /\ Admits(s, b)
  /\ \A a, b \in s.best : a = b
Returned(s, I) ==
  /\ s.out \in Seq(I)
  /\ \A i, j \in 1..Len(s.out) : i < j => s.out[i].key < s.out[j].key
  /\ \A i \in 1..Len(s.out) : s.out[i].key < s.end /\ Admits(s, s.out[i])
  /\ \A i \in 1..Len(s.out) : \A k \in s.key : s.out[i].key < k
  /\ \A i \in 1..Len(s.out) : \A j \in 1..Len(s.srcs) : \A c \in s.srcs[j].cur : s.out[i].key < c.key

ScanOK(s, m, I) == ScanForm(s, I) /\ Sources(s, m, I) /\ Found(s, m) /\ Collecting(s, I) /\ Returned(s, I)
ScanInv ==
  /\ ScanOK(sc, mt, issued) /\ (sc.pc # "idle" => Serving)
  /\ \A c \in Clients : Waiting(cl[c]) \cap sc.held = {}

----------------------------------------------------------------------------
\* Issued records have keys and numbers, and a set of them is finite.
LEMMA IssuedInts ==
  ASSUME TypeInv
  PROVE  /\ \A r \in issued : r.key \in Int /\ r.seq \in Int /\ r.val \in Int
         /\ \A S \in SUBSET issued : IsFiniteSet(S) /\ Numbered(S)
<1>1. ASSUME NEW r \in issued PROVE r.key \in Int /\ r.seq \in Int /\ r.val \in Int
  <2>1. r \in Records /\ MaxWrites \in Nat /\ Keys \subseteq Int
    BY ConstantTypes DEF TypeInv, History
  <2>2. r.key \in Keys /\ r.seq \in 1..MaxWrites /\ r.val \in 1..MaxWrites
    BY <2>1 DEF Records
  <2>3. r.key \in Int
    BY <2>1, <2>2, Zenon
  <2> QED
    BY <2>1, <2>2, <2>3
<1>2. ASSUME NEW S \in SUBSET issued PROVE IsFiniteSet(S)
  BY FS_Subset DEF TypeInv, History
<1>3. \A r, q \in issued : r.val = q.val => r = q
  BY DEF TypeInv, History
<1>4. ASSUME NEW S \in SUBSET issued PROVE Numbered(S)
  BY <1>1, <1>3 DEF Numbered
<1> QED
  BY <1>1, <1>2, <1>4

\* An iterator that is put on the first record of some is on one of them, or at its end.
LEMMA FirstInIs ==
  ASSUME TypeInv, NEW S \in SUBSET issued
  PROVE  FirstIn(S) \subseteq S /\ \A a, b \in FirstIn(S) : a = b
<1>1. CASE S = {}
  BY <1>1 DEF FirstIn
<1>2. CASE S # {}
  <2>1. FirstOf(S) \in S
    BY <1>2, IssuedInts, FirstAndLast
  <2> QED
    BY <1>2, <2>1 DEF FirstIn
<1> QED
  BY <1>1, <1>2

\* The last record before the target is behind all records before it.
LEMMA LastIs ==
  ASSUME TypeInv, NEW S \in (SUBSET issued) \ {{}}
  PROVE  LastOf(S) \in S /\ \A q \in S : Compare(q, LastOf(S)) <= 0
<1>1. IsFiniteSet(S) /\ Numbered(S)
  BY IssuedInts
<1>2. LastOf(S) \in S /\ \A q \in S \ {LastOf(S)} : Ahead(q, LastOf(S))
  BY <1>1, LastIsBehind
<1>3. PICK l \in S : l = LastOf(S)
  BY <1>2
<1>4. l.key \in Int /\ l.seq \in Int
  BY <1>1 DEF Numbered
<1>5. Compare(l, l) <= 0
  BY <1>4 DEF Compare
<1>6. ASSUME NEW q \in S \ {l} PROVE Compare(q, l) <= 0
  <2>1. q.key \in Int /\ q.seq \in Int
    BY <1>1 DEF Numbered
  <2> QED
    BY <1>2, <1>3, <1>4, <2>1 DEF Ahead, Compare
<1> QED
  BY <1>2, <1>3, <1>5, <1>6

\* An iterator that goes on to the record behind those it has passed.
LEMMA BehindPasses ==
  ASSUME TypeInv, NEW recs \in SUBSET issued, NEW cur \in SUBSET issued, sc.start \in Int,
         \A r \in recs : ~Admits(sc, r) => \E c \in cur : Compare(r, c) <= 0
  PROVE  /\ Passed(sc, recs, Behind(recs, cur)) /\ Behind(recs, cur) \subseteq recs
         /\ \A a, b \in Behind(recs, cur) : a = b
         /\ \A n \in Behind(recs, cur), c \in cur : c.key <= n.key
<1> DEFINE B == {r \in recs : \A c \in cur : Compare(r, c) > 0}
<1>1. Behind(recs, cur) \subseteq B /\ \A a, b \in Behind(recs, cur) : a = b
  BY FirstInIs DEF Behind
<1>2. ASSUME NEW n \in Behind(recs, cur), NEW c \in cur PROVE c.key <= n.key
  <2>1. n \in issued /\ Compare(n, c) > 0
    BY <1>1
  <2>2. n.key \in Int /\ c.key \in Int /\ n.seq \in Int /\ c.seq \in Int
    BY <2>1, IssuedInts
  <2> QED
    BY <2>1, <2>2 DEF Compare
<1>3. ASSUME NEW n \in Behind(recs, cur), NEW r \in recs, ~Admits(sc, r) PROVE Compare(r, n) < 0
  <2>1. PICK c \in cur : Compare(r, c) <= 0
    BY <1>3
  <2>2. Compare(n, c) > 0
    BY <1>1
  <2>3. n.key \in Int /\ c.key \in Int /\ r.key \in Int /\ n.seq \in Int /\ c.seq \in Int /\ r.seq \in Int
    BY <1>1, IssuedInts
  <2> QED
    BY <2>1, <2>2, <2>3 DEF Compare
<1>4. ASSUME NEW n \in Behind(recs, cur) PROVE Admits(sc, n)
  <2>1. n \in recs /\ ~(Compare(n, n) < 0)
    <3>1. n \in recs /\ n.key \in Int /\ n.seq \in Int
      BY <1>1, IssuedInts
    <3> QED
      BY <3>1 DEF Compare
  <2> QED
    BY <1>3, <2>1
<1>5. ASSUME NEW n \in Behind(recs, cur), NEW r \in recs, ~Admits(sc, r) PROVE Compare(r, n) <= 0
  <2>1. Compare(r, n) < 0
    BY <1>3, <1>5
  <2>2. n.key \in Int /\ r.key \in Int /\ n.seq \in Int /\ r.seq \in Int
    BY <1>1, IssuedInts
  <2> QED
    BY <2>1, <2>2 DEF Compare
<1> QED
  BY <1>1, <1>2, <1>4, <1>5 DEF Passed

\* An iterator that is put on the target.
LEMMA TargetPasses ==
  ASSUME TypeInv, NEW recs \in SUBSET issued, sc.start \in Int
  PROVE  /\ Passed(sc, recs, FromTarget(recs)) /\ FromTarget(recs) \subseteq recs
         /\ \A a, b \in FromTarget(recs) : a = b
<1> DEFINE F == {r \in recs : Compare(r, Target) >= 0}
<1>1. FromTarget(recs) \subseteq F /\ \A a, b \in FromTarget(recs) : a = b
  BY FirstInIs DEF FromTarget
<1>2. ASSUME NEW n \in FromTarget(recs) PROVE n.key >= sc.start
  <2>1. n.key \in Int /\ Compare(n, Target) >= 0
    BY <1>1, IssuedInts
  <2> QED
    BY <2>1 DEF Compare, Target, Lookup
<1>3. ASSUME NEW n \in FromTarget(recs), NEW r \in recs, ~Admits(sc, r) PROVE Compare(r, n) <= 0
  <2>1. r.key < sc.start
    <3>1. r.key \in Int
      BY IssuedInts
    <3> QED
      BY <1>3, <3>1 DEF Admits
  <2>2. n.key \in Int /\ r.key \in Int /\ n.seq \in Int /\ r.seq \in Int
    BY <1>1, IssuedInts
  <2> QED
    BY <1>2, <2>1, <2>2 DEF Compare
<1> QED
  BY <1>1, <1>2, <1>3 DEF Passed, Admits

\* The sequence of a set of at most one element.
LEMMA SetToSeqOne ==
  ASSUME NEW S, \A x, y \in S : x = y
  PROVE  SetToSeq(S) \in Seq(S) /\ Len(SetToSeq(S)) <= 1
<1>1. CASE S = {}
  <2>1. Cardinality(S) = 0
    BY <1>1, FS_EmptySet
  <2>2. \E f \in [1..0 -> S] : IsInjective(f)
    <3> DEFINE f == [i \in 1..0 |-> 0]
    <3>1. f \in [1..0 -> S] /\ IsInjective(f)
      BY <1>1 DEF IsInjective
    <3> QED
      BY <3>1
  <2>3. SetToSeq(S) \in [1..0 -> S]
    BY <2>1, <2>2 DEF SetToSeq
  <2> QED
    BY <2>3
<1>2. CASE S # {}
  <2>1. PICK x : S = {x}
    BY <1>2
  <2>2. Cardinality(S) = 1
    BY <2>1, FS_Singleton
  <2>3. \E f \in [1..1 -> S] : IsInjective(f)
    <3> DEFINE f == [i \in 1..1 |-> x]
    <3>1. f \in [1..1 -> S] /\ IsInjective(f)
      BY <2>1 DEF IsInjective
    <3> QED
      BY <3>1
  <2>4. SetToSeq(S) \in [1..1 -> S]
    BY <2>2, <2>3 DEF SetToSeq
  <2>5. PICK f \in [1..1 -> S] : f = SetToSeq(S)
    BY <2>4
  <2>6. f \in Seq(S) /\ Len(f) = 1
    <3>1. f = [i \in 1..1 |-> f[i]] /\ \A i \in 1..1 : f[i] \in S
      OBVIOUS
    <3>2. [i \in 1..1 |-> f[i]] \in Seq(S) /\ Len([i \in 1..1 |-> f[i]]) = 1
      BY <3>1
    <3> QED
      BY <3>1, <3>2
  <2> QED
    BY <2>5, <2>6
<1> QED
  BY <1>1, <1>2

\* A step that leaves the sources and what was collected and returned.
LEMMA SameScan ==
  ASSUME NEW s, NEW t, NEW m, NEW I, ScanOK(s, m, I),
         DOMAIN t = ScanFields, t.pc \in ScanPoints \ {"idle"}, t.pred \subseteq I, Found(t, m),
         t.start = s.start, t.end = s.end, t.held = s.held, t.srcs = s.srcs, t.key = s.key, t.best = s.best,
         t.out = s.out,
         t.pc \in {"find", "land", "version", "reader", "open"} => Len(s.srcs) >= 1,
         t.pc \in {"insert", "seek"} => Len(s.srcs) >= 2,
         s.pc \in {"advance", "end"} => t.pc \in {"advance", "end"}
  PROVE  ScanOK(t, m, I)
<1>1. \A r : Admits(t, r) <=> Admits(s, r)
  BY DEF Admits
<1>2. \A recs, cur : Passed(t, recs, cur) <=> Passed(s, recs, cur)
  BY <1>1 DEF Passed
<1>3. ScanForm(t, I)
  BY DEF ScanOK, ScanForm
<1>4. Sources(t, m, I)
  BY <1>2 DEF ScanOK, Sources, SourceAt
<1>5. Collecting(t, I)
  BY <1>1 DEF ScanOK, Collecting
<1>6. Returned(t, I)
  BY <1>1 DEF ScanOK, Returned
<1> QED
  BY <1>3, <1>4, <1>5, <1>6 DEF ScanOK

\* A step of the scan leaves the engine.
LEMMA ScanKeeps ==
  ASSUME ScanInv, UNCHANGED vars, sc.pc # "idle", sc'.held = sc.held, ScanOK(sc', mt, issued)
  PROVE  ScanInv'
<1>1. UNCHANGED <<phase, mt, issued, cl>>
  BY DEF vars, ctlVars, memVars, histVars
<1>2. Serving'
  BY <1>1 DEF ScanInv, Serving
<1> QED
  BY <1>1, <1>2 DEF ScanInv

\* The end of the process.
LEMMA ScanFatal ==
  ASSUME TypeInv, ScanInv, sc.pc \in {"reader", "open", "insert", "seek"}, sc' = [sc EXCEPT !.pc = "fatal"],
         UNCHANGED vars
  PROVE  ScanInv'
<1>1. ScanOK(sc, mt, issued)
  BY DEF ScanInv
<1>2. DOMAIN sc = ScanFields /\ sc.pred \subseteq issued
  BY <1>1 DEF ScanOK, ScanForm
<1>3. PICK t : t = sc'
  OBVIOUS
<1>4. /\ DOMAIN t = ScanFields /\ t.pc = "fatal" /\ t.pred = sc.pred /\ t.start = sc.start /\ t.end = sc.end
      /\ t.held = sc.held /\ t.srcs = sc.srcs /\ t.key = sc.key /\ t.best = sc.best /\ t.out = sc.out
  BY <1>2, <1>3 DEF ScanFields
<1>5. Found(t, mt)
  BY <1>4 DEF Found
<1>6. ScanOK(t, mt, issued)
  BY <1>1, <1>2, <1>4, <1>5, SameScan DEF ScanPoints
<1> QED
  BY <1>3, <1>4, <1>6, ScanKeeps

\* The scan begins: its sources are the memtables.
LEMMA TakeOK ==
  ASSUME TypeInv, WaitInv, ScanTake
  PROVE  ScanInv'
<1> DEFINE live == [Source EXCEPT !.live = TRUE]
           old == {[Source EXCEPT !.recs = m] : m \in immt}
<1> DEFINE Seqs == {MaxUint64} \cup {sn.seq : sn \in {x \in UNION {snaps[y] : y \in Snaps} : x.quiet}}
           Taken(range, seq) ==
             [NoScan EXCEPT !.pc = "find", !.start = range[1], !.end = range[2], !.seq = seq,
                !.srcs = <<live>> \o SetToSeq(old),
                !.view = [k \in Keys |-> VisibleAt(k, seq)], !.held = Stored, !.hidden = ~NothingHidden]
<1>0. phase = "up" /\ \E range \in Ranges, seq \in Seqs : ScanStep(Taken(range, seq))
  BY DEF ScanTake
<1>1. PICK range \in Ranges, seq \in Seqs : phase = "up" /\ UNCHANGED vars /\ sc' = Taken(range, seq)
  BY <1>0 DEF ScanStep
<1>2. UNCHANGED <<phase, mt, issued, cl>>
  BY <1>1 DEF vars, ctlVars, memVars, histVars
<1>3. range[1] \in Int /\ range[2] \in Int
  BY RangesOfKeys
<1>4. PICK q : q = SetToSeq(old)
  OBVIOUS
<1>5. q \in Seq(old) /\ Len(q) <= 1
  <2>1. \A x, y \in old : x = y
    BY DEF TypeInv, MemTypes
  <2> HIDE DEF old
  <2> QED
    BY <1>4, <2>1, SetToSeqOne
<1>6. PICK t : t = sc'
  OBVIOUS
<1>7. /\ DOMAIN t = ScanFields /\ t.pc = "find" /\ t.pred = {} /\ t.start = range[1] /\ t.end = range[2]
      /\ t.held = Stored /\ t.srcs = <<live>> \o q /\ t.key = {} /\ t.best = {} /\ t.out = <<>>
  <2> HIDE DEF live, old
  <2> QED
    BY <1>1, <1>4, <1>6 DEF NoScan, ScanFields
<1>8. SourceForm(live, issued) /\ live.cur = {}
  BY DEF Source, SourceForm
<1>9. ASSUME NEW x \in old PROVE SourceForm(x, issued) /\ x.cur = {} /\ ~x.live
  <2>1. PICK m \in immt : x = [Source EXCEPT !.recs = m]
    OBVIOUS
  <2>2. m \subseteq issued
    BY DEF TypeInv, MemTypes
  <2> QED
    BY <2>1, <2>2 DEF Source, SourceForm
<1> HIDE DEF live, old
<1>10. /\ t.srcs \in Seq(old \cup {live}) /\ Len(t.srcs) >= 1
       /\ \A i \in 1..Len(t.srcs) : t.srcs[i] = IF i = 1 THEN live ELSE q[i - 1]
       /\ \A i \in 1..Len(t.srcs) : i # 1 => q[i - 1] \in old
  BY <1>5, <1>7
<1>11. ASSUME NEW i \in 1..Len(t.srcs)
       PROVE  SourceForm(t.srcs[i], issued) /\ t.srcs[i].cur = {} /\ (i # 1 => ~t.srcs[i].live)
  BY <1>8, <1>9, <1>10
<1>12. Sources(t, mt, issued)
  BY <1>11 DEF Sources, SourceAt, Passed
<1>13. t.held \subseteq issued
  BY <1>7, StoredIssued
<1>14. ScanForm(t, issued)
  BY <1>3, <1>7, <1>10, <1>13 DEF ScanForm, ScanPoints
<1>15. Collecting(t, issued)
  BY <1>7 DEF Collecting
<1>16. Returned(t, issued)
  BY <1>7 DEF Returned
<1>17. Found(t, mt)
  BY <1>7 DEF Found
<1>18. \A c \in Clients : Waiting(cl[c]) \cap t.held = {}
  BY <1>1, <1>7, WaitingStored
<1>19. Serving'
  BY <1>1, <1>2 DEF Serving
<1> QED
  BY <1>2, <1>6, <1>12, <1>14, <1>15, <1>16, <1>17, <1>18, <1>19 DEF ScanInv, ScanOK

\* A function on 1..n is a sequence.
LEMMA ListOf ==
  ASSUME NEW n \in Nat, NEW f, f = [i \in 1..n |-> f[i]]
  PROVE  f \in Seq({f[i] : i \in 1..n}) /\ Len(f) = n
<1>1. PICK S : S = {f[i] : i \in 1..n}
  OBVIOUS
<1>2. \A i \in 1..n : f[i] \in S
  BY <1>1
<1>3. [i \in 1..n |-> f[i]] \in Seq(S) /\ Len([i \in 1..n |-> f[i]]) = n
  BY <1>2
<1>4. f \in Seq(S) /\ Len(f) = n
  BY <1>3
<1> QED
  BY <1>1, <1>4

\* Seek finds the last node before the target.
LEMMA FindOK ==
  ASSUME TypeInv, ScanInv, ScanFind
  PROVE  ScanInv'
<1> DEFINE before == {r \in RecordsOf(sc.srcs[1]) : Compare(r, Target) < 0}
           p == IF before = {} THEN {} ELSE {LastOf(before)}
<1>1. sc.pc = "find" /\ UNCHANGED vars /\ sc' = [sc EXCEPT !.pc = "land", !.pred = p]
  BY DEF ScanFind, ScanStep
<1>2. ScanOK(sc, mt, issued)
  BY DEF ScanInv
<1>3. DOMAIN sc = ScanFields /\ Len(sc.srcs) >= 1 /\ sc.start \in Int /\ \E S : sc.srcs \in Seq(S)
  BY <1>1, <1>2 DEF ScanOK, ScanForm
<1>4. RecordsOf(sc.srcs[1]) \subseteq issued /\ RecordsOf(sc.srcs[1]) = RecsOf(sc.srcs[1], mt)
  <2>1. SourceAt(sc, 1, mt, issued)
    <3>1. 1 \in 1..Len(sc.srcs)
      BY <1>3
    <3> QED
      BY <1>2, <3>1 DEF ScanOK, Sources
  <2> QED
    BY <2>1 DEF SourceAt, SourceForm, RecordsOf, RecsOf, TypeInv, MemTypes
<1>5. p \subseteq issued /\ \A r \in before : \E x \in p : Compare(r, x) <= 0
  <2>1. before \subseteq issued
    BY <1>4
  <2> HIDE DEF before
  <2>2. CASE before = {}
    BY <2>2
  <2>3. CASE before # {}
    BY <2>1, <2>3, LastIs
  <2> QED
    BY <2>2, <2>3
<1>6. PICK t : t = sc'
  OBVIOUS
<1>7. /\ DOMAIN t = ScanFields /\ t.pc = "land" /\ t.pred = p /\ t.start = sc.start /\ t.end = sc.end
      /\ t.held = sc.held /\ t.srcs = sc.srcs /\ t.key = sc.key /\ t.best = sc.best /\ t.out = sc.out
  <2> HIDE DEF p
  <2> QED
    BY <1>1, <1>3, <1>6 DEF ScanFields
<1>8. ASSUME NEW r \in RecordsOf(sc.srcs[1]), ~Admits(t, r) PROVE r \in before
  <2>1. r.key \in Int /\ r.key < sc.start
    <3>1. r.key \in Int
      BY <1>4, IssuedInts
    <3> QED
      BY <1>3, <1>7, <1>8, <3>1 DEF Admits
  <2> QED
    BY <1>3, <2>1 DEF Compare, Target, Lookup
<1> HIDE DEF before, p
<1>9. Found(t, mt)
  BY <1>4, <1>5, <1>7, <1>8 DEF Found
<1>10. ScanOK(t, mt, issued)
  BY <1>1, <1>2, <1>3, <1>5, <1>7, <1>9, SameScan DEF ScanPoints
<1> QED
  BY <1>1, <1>6, <1>7, <1>10, ScanKeeps

\* A step before the first record is returned that brings new sources, or puts their
\* iterators on records.
LEMMA NewSources ==
  ASSUME NEW s, NEW t, NEW m, NEW I, ScanOK(s, m, I), s.pc \notin {"idle", "advance", "end"},
         DOMAIN t = ScanFields, t.pc \in ScanPoints \ {"idle", "land"}, t.pred \subseteq I,
         t.start = s.start, t.end = s.end, t.held = s.held, t.key = s.key, t.best = s.best, t.out = s.out,
         NEW S, t.srcs \in Seq(S), Len(t.srcs) >= 2 \/ (Len(t.srcs) >= 1 /\ t.pc \notin {"insert", "seek"}),
         \A i \in 1..Len(t.srcs) : SourceAt(t, i, m, I)
  PROVE  ScanOK(t, m, I)
<1>1. t.out = <<>> /\ t.key = {} /\ t.best = {}
  BY DEF ScanOK, ScanForm
<1>2. ScanForm(t, I)
  BY <1>1 DEF ScanOK, ScanForm
<1>3. Sources(t, m, I)
  BY DEF Sources
<1>4. Collecting(t, I) /\ Found(t, m)
  BY <1>1 DEF Collecting, Found
<1>5. Returned(t, I)
  BY <1>1 DEF Returned
<1> QED
  BY <1>2, <1>3, <1>4, <1>5 DEF ScanOK

\* The iterators of the memtables land on their first records.
LEMMA LandOK ==
  ASSUME TypeInv, ScanInv, ScanLand
  PROVE  ScanInv'
<1> DEFINE n == Len(sc.srcs)
           cur(i) == IF i = 1 THEN Behind(RecordsOf(sc.srcs[1]), sc.pred) ELSE FromTarget(sc.srcs[i].recs)
           srcs == [i \in 1..n |-> [sc.srcs[i] EXCEPT !.cur = cur(i)]]
<1>1. sc.pc = "land" /\ UNCHANGED vars /\ sc' = [sc EXCEPT !.pc = "version", !.pred = {}, !.srcs = srcs]
  <2>1. ScanOK(sc, mt, issued)
    BY DEF ScanInv
  <2>2. DOMAIN sc = ScanFields
    BY <2>1 DEF ScanOK, ScanForm
  <2> QED
    BY <2>2 DEF ScanLand, ScanStep, ScanFields
<1>2. ScanOK(sc, mt, issued)
  BY DEF ScanInv
<1>3. /\ DOMAIN sc = ScanFields /\ n >= 1 /\ sc.start \in Int /\ n \in Nat
      /\ sc.pred \subseteq issued
  BY <1>1, <1>2 DEF ScanOK, ScanForm
<1>4. PICK t : t = sc'
  OBVIOUS
<1>5. /\ DOMAIN t = ScanFields /\ t.pc = "version" /\ t.pred = {} /\ t.start = sc.start /\ t.end = sc.end
      /\ t.held = sc.held /\ t.srcs = srcs /\ t.key = sc.key /\ t.best = sc.best /\ t.out = sc.out
  <2> HIDE DEF srcs
  <2> QED
    BY <1>1, <1>3, <1>4 DEF ScanFields
<1>6. \A recs, c : Passed(t, recs, c) <=> Passed(sc, recs, c)
  BY <1>5 DEF Passed, Admits
<1>7. ASSUME NEW i \in 1..n PROVE SourceAt(t, i, mt, issued)
  <2>1. SourceAt(sc, i, mt, issued)
    BY <1>2 DEF ScanOK, Sources
  <2>2. t.srcs[i] = [sc.srcs[i] EXCEPT !.cur = cur(i)]
    BY <1>5
  <2>3. PICK recs : recs = RecsOf(sc.srcs[i], mt)
    OBVIOUS
  <2>4. recs \subseteq issued /\ RecordsOf(sc.srcs[i]) = recs
    BY <2>1, <2>3 DEF SourceAt, SourceForm, RecordsOf, RecsOf, TypeInv, MemTypes
  <2>5. Passed(sc, recs, cur(i)) /\ cur(i) \subseteq recs /\ \A a, b \in cur(i) : a = b
    <3>1. CASE i = 1
      <4>1. \A r \in recs : ~Admits(sc, r) => \E c \in sc.pred : Compare(r, c) <= 0
        BY <1>1, <1>2, <2>3, <3>1 DEF ScanOK, Found
      <4>2. cur(i) = Behind(recs, sc.pred)
        BY <2>4, <3>1
      <4> HIDE DEF cur
      <4>3. recs \in SUBSET issued /\ sc.pred \in SUBSET issued /\ sc.start \in Int
        BY <1>3, <2>4
      <4>4. /\ Passed(sc, recs, Behind(recs, sc.pred)) /\ Behind(recs, sc.pred) \subseteq recs
            /\ \A a, b \in Behind(recs, sc.pred) : a = b
        BY <4>1, <4>3, BehindPasses
      <4> QED
        BY <4>2, <4>4
    <3>2. CASE i # 1
      <4>1. recs = sc.srcs[i].recs
        BY <2>1, <2>3, <3>2 DEF SourceAt, RecsOf
      <4> QED
        BY <1>3, <2>4, <3>2, <4>1, TargetPasses
    <3> QED
      BY <3>1, <3>2
  <2> HIDE DEF cur, srcs
  <2>6. /\ DOMAIN t.srcs[i] = {"live", "num", "recs", "closed", "cur"} /\ t.srcs[i].cur = cur(i)
        /\ t.srcs[i].live = sc.srcs[i].live /\ t.srcs[i].recs = sc.srcs[i].recs
    BY <2>1, <2>2 DEF SourceAt, SourceForm
  <2>7. RecsOf(t.srcs[i], mt) = recs
    BY <2>3, <2>6 DEF RecsOf
  <2> QED
    BY <1>6, <2>1, <2>4, <2>5, <2>6, <2>7 DEF SourceAt, SourceForm
<1>8. t.srcs \in Seq({srcs[i] : i \in 1..n}) /\ Len(t.srcs) = n
  <2>1. srcs = [i \in 1..n |-> srcs[i]] /\ n \in Nat
    BY <1>3
  <2> HIDE DEF srcs, n
  <2> QED
    BY <1>5, <2>1, ListOf
<1> HIDE DEF srcs, n
<1>9. ScanOK(t, mt, issued)
  BY <1>1, <1>2, <1>3, <1>5, <1>7, <1>8, NewSources DEF ScanPoints
<1> QED
  BY <1>1, <1>4, <1>5, <1>9, ScanKeeps

\* The Version is read.
LEMMA VersionOK ==
  ASSUME TypeInv, ScanInv, ScanVersion
  PROVE  ScanInv'
<1>1. PICK todo : sc.pc = "version" /\ ScanTables(todo, sc.srcs)
  BY Zenon DEF ScanVersion
<1>2. ScanOK(sc, mt, issued)
  BY DEF ScanInv
<1>3. DOMAIN sc = ScanFields /\ Len(sc.srcs) >= 1 /\ sc.pred \subseteq issued
  BY <1>1, <1>2 DEF ScanOK, ScanForm
<1>4. PICK pc \in {"advance", "reader"} :
        sc' = [sc EXCEPT !.pc = pc, !.todo = todo, !.srcs = sc.srcs] /\ UNCHANGED vars
  BY <1>1 DEF ScanTables, ScanStep
<1>5. PICK t : t = sc'
  OBVIOUS
<1>6. /\ DOMAIN t = ScanFields /\ t.pc = pc /\ t.pred = sc.pred /\ t.start = sc.start /\ t.end = sc.end
      /\ t.held = sc.held /\ t.srcs = sc.srcs /\ t.key = sc.key /\ t.best = sc.best /\ t.out = sc.out
  BY <1>3, <1>4, <1>5 DEF ScanFields
<1>7. Found(t, mt)
  BY <1>6 DEF Found
<1>8. ScanOK(t, mt, issued)
  BY <1>1, <1>2, <1>3, <1>6, <1>7, SameScan DEF ScanPoints
<1> QED
  BY <1>1, <1>4, <1>5, <1>6, <1>8, ScanKeeps

\* A step that only moves the scan on.
LEMMA MovesOn ==
  ASSUME TypeInv, ScanInv, UNCHANGED vars, NEW pc, sc' = [sc EXCEPT !.pc = pc],
         (sc.pc = "reader" /\ pc = "open") \/ (sc.pc = "insert" /\ pc = "seek")
  PROVE  ScanInv'
<1>1. ScanOK(sc, mt, issued)
  BY DEF ScanInv
<1>2. DOMAIN sc = ScanFields /\ sc.pred \subseteq issued
  BY <1>1 DEF ScanOK, ScanForm
<1>3. /\ pc = "open" => Len(sc.srcs) >= 1
      /\ pc = "seek" => Len(sc.srcs) >= 2
  BY <1>1 DEF ScanOK, ScanForm
<1>4. PICK t : t = sc'
  OBVIOUS
<1>5. /\ DOMAIN t = ScanFields /\ t.pc = pc /\ t.pred = sc.pred /\ t.start = sc.start /\ t.end = sc.end
      /\ t.held = sc.held /\ t.srcs = sc.srcs /\ t.key = sc.key /\ t.best = sc.best /\ t.out = sc.out
  BY <1>2, <1>4 DEF ScanFields
<1>6. Found(t, mt)
  BY <1>5 DEF Found
<1>7. ScanOK(t, mt, issued)
  BY <1>1, <1>2, <1>3, <1>5, <1>6, SameScan DEF ScanPoints
<1> QED
  BY <1>4, <1>5, <1>7, ScanKeeps

\* A table has become a source.
LEMMA ReaderJoins ==
  ASSUME TypeInv, ScanInv, UNCHANGED vars, sc.pc \in {"reader", "open"}, NEW recs \in SUBSET issued,
         NEW pc \in {"seek", "insert"}, sc' = [WithReader(recs) EXCEPT !.pc = pc]
  PROVE  ScanInv'
<1> DEFINE src == [Source EXCEPT !.num = Table.num, !.recs = recs]
<1>1. ScanOK(sc, mt, issued)
  BY DEF ScanInv
<1>2. DOMAIN sc = ScanFields /\ sc.pred \subseteq issued /\ Len(sc.srcs) >= 1
  BY <1>1 DEF ScanOK, ScanForm
<1>3. PICK S : sc.srcs \in Seq(S)
  BY <1>1 DEF ScanOK, ScanForm
<1>4. PICK t : t = sc'
  OBVIOUS
<1>5. /\ DOMAIN t = ScanFields /\ t.pc = pc /\ t.pred = sc.pred /\ t.start = sc.start /\ t.end = sc.end
      /\ t.held = sc.held /\ t.srcs = Append(sc.srcs, src) /\ t.key = sc.key /\ t.best = sc.best /\ t.out = sc.out
  <2>1. WithReader(recs) = [sc EXCEPT !.pc = "seek", !.srcs = Append(sc.srcs, src)]
    BY <1>2 DEF WithReader, ScanFields
  <2> HIDE DEF src
  <2> QED
    BY <1>2, <1>4, <2>1 DEF ScanFields
<1>6. SourceForm(src, issued) /\ src.cur = {} /\ ~src.live
  BY DEF SourceForm, Source
<1> HIDE DEF src
<1>7. /\ t.srcs \in Seq(S \cup {src}) /\ Len(t.srcs) = Len(sc.srcs) + 1
      /\ \A i \in 1..Len(t.srcs) : t.srcs[i] = IF i = Len(t.srcs) THEN src ELSE sc.srcs[i]
      /\ \A i \in 1..Len(t.srcs) : i # Len(t.srcs) => i \in 1..Len(sc.srcs)
  BY <1>3, <1>5
<1>8. \A r, c : Passed(t, r, c) <=> Passed(sc, r, c)
  BY <1>5 DEF Passed, Admits
<1>9. ASSUME NEW i \in 1..Len(t.srcs) PROVE SourceAt(t, i, mt, issued)
  <2>1. CASE i = Len(t.srcs)
    BY <1>6, <1>7, <2>1 DEF SourceAt, Passed
  <2>2. CASE i # Len(t.srcs)
    <3>1. SourceAt(sc, i, mt, issued) /\ t.srcs[i] = sc.srcs[i]
      BY <1>1, <1>7, <2>2 DEF ScanOK, Sources
    <3> QED
      BY <1>8, <3>1 DEF SourceAt
  <2> QED
    BY <2>1, <2>2
<1>10. Len(t.srcs) >= 2
  BY <1>2, <1>3, <1>7
<1>11. ScanOK(t, mt, issued)
  BY <1>1, <1>2, <1>5, <1>7, <1>9, <1>10, NewSources DEF ScanPoints
<1> QED
  BY <1>4, <1>5, <1>11, ScanKeeps

\* getReader.
LEMMA ReaderOK ==
  ASSUME TypeInv, ScanInv, ScanReader \/ ScanOpen \/ ScanInsert
  PROVE  ScanInv'
<1>1. DOMAIN sc = ScanFields
  BY DEF ScanInv, ScanOK, ScanForm
<1>2. ASSUME NEW path PROVE path \in DOMAIN files => files[path] \in SUBSET issued
  BY DEF TypeInv, FileTypes
<1>3. FileRecords(Table) \in SUBSET issued
  BY <1>2 DEF FileRecords, Readable
<1>4. ASSUME NEW recs PROVE WithReader(recs) = [WithReader(recs) EXCEPT !.pc = "seek"]
  BY <1>1 DEF WithReader, ScanFields
<1>5. CASE ScanReader
  <2>1. CASE ScanStep([sc EXCEPT !.pc = "fatal"])
    BY <1>5, <2>1, ScanFatal DEF ScanReader, ScanStep
  <2>2. CASE ScanStep(WithReader(FileRecords(Table)))
    BY <1>3, <1>4, <1>5, <2>2, ReaderJoins DEF ScanReader, ScanStep
  <2>3. CASE ScanStep([sc EXCEPT !.pc = "open"])
    BY <1>5, <2>3, MovesOn DEF ScanReader, ScanStep
  <2> QED
    BY <1>5, <2>1, <2>2, <2>3 DEF ScanReader
<1>6. CASE ScanOpen
  <2> DEFINE path == <<Table.level, Table.num>>
  <2>1. CASE Readable(path)
    <3>1. sc.pc = "open" /\ ScanStep([WithReader(files[path]) EXCEPT !.pc = "insert"])
      BY <1>6, <2>1 DEF ScanOpen
    <3>2. files[path] \in SUBSET issued
      BY <1>2, <2>1 DEF Readable
    <3> QED
      BY <3>1, <3>2, ReaderJoins DEF ScanStep
  <2>2. CASE ~Readable(path)
    <3>1. sc.pc = "open" /\ ScanStep([sc EXCEPT !.pc = "fatal"])
      BY <1>6, <2>2 DEF ScanOpen
    <3> QED
      BY <3>1, ScanFatal DEF ScanStep
  <2> QED
    BY <2>1, <2>2
<1>7. CASE ScanInsert
  <2>1. CASE sc' = [sc EXCEPT !.pc = "fatal"]
    BY <1>7, <2>1, ScanFatal DEF ScanInsert
  <2>2. CASE sc' = [sc EXCEPT !.pc = "seek"]
    BY <1>7, <2>2, MovesOn DEF ScanInsert
  <2> QED
    BY <1>7, <2>1, <2>2 DEF ScanInsert
<1> QED
  BY <1>5, <1>6, <1>7

\* Seek on a table.
LEMMA SeekOK ==
  ASSUME TypeInv, ScanInv, ScanSeek
  PROVE  ScanInv'
<1> DEFINE n == Len(sc.srcs)
           cur == FromTarget(sc.srcs[n].recs)
           srcs == [sc.srcs EXCEPT ![n].cur = cur]
<1>1. ScanOK(sc, mt, issued)
  BY DEF ScanInv
<1>2. sc.pc = "seek" /\ (ScanTables(Tail(sc.todo), srcs) \/ ScanStep([sc EXCEPT !.pc = "fatal"]))
  BY DEF ScanSeek
<1>3. CASE ScanStep([sc EXCEPT !.pc = "fatal"])
  BY <1>2, <1>3, ScanFatal DEF ScanStep
<1>4. CASE ScanTables(Tail(sc.todo), srcs)
  <2>1. DOMAIN sc = ScanFields /\ sc.pred \subseteq issued /\ n >= 2 /\ sc.start \in Int
    BY <1>1, <1>2 DEF ScanOK, ScanForm
  <2>2. PICK S : sc.srcs \in Seq(S)
    BY <1>1 DEF ScanOK, ScanForm
  <2>3. n \in 1..n /\ n # 1 /\ n \in Nat
    <3>1. n \in Nat
      BY <2>2
    <3> HIDE DEF n
    <3> QED
      BY <2>1, <3>1
  <2>4. SourceAt(sc, n, mt, issued)
    BY <1>1, <2>3 DEF ScanOK, Sources
  <2>5. PICK x : x = [sc.srcs[n] EXCEPT !.cur = cur]
    OBVIOUS
  <2>6. /\ srcs \in Seq(S \cup {x}) /\ Len(srcs) = n
        /\ \A i \in 1..n : srcs[i] = IF i = n THEN x ELSE sc.srcs[i]
    <3>1. srcs = [sc.srcs EXCEPT ![n] = x]
      BY <2>2, <2>3, <2>5
    <3> HIDE DEF srcs
    <3> QED
      BY <2>2, <2>3, <3>1
  <2>7. /\ DOMAIN x = {"live", "num", "recs", "closed", "cur"} /\ x.cur = cur
        /\ x.live = sc.srcs[n].live /\ x.recs = sc.srcs[n].recs
    <3> HIDE DEF cur
    <3> QED
      BY <2>4, <2>5 DEF SourceAt, SourceForm
  <2> HIDE DEF srcs
  <2>8. PICK pc \in {"advance", "reader"} :
          sc' = [sc EXCEPT !.pc = pc, !.todo = Tail(sc.todo), !.srcs = srcs] /\ UNCHANGED vars
    BY <1>4 DEF ScanTables, ScanStep
  <2>9. PICK t : t = sc'
    OBVIOUS
  <2>10. /\ DOMAIN t = ScanFields /\ t.pc = pc /\ t.pred = sc.pred /\ t.start = sc.start /\ t.end = sc.end
         /\ t.held = sc.held /\ t.srcs = srcs /\ t.key = sc.key /\ t.best = sc.best /\ t.out = sc.out
    BY <2>1, <2>8, <2>9 DEF ScanFields
  <2>11. \A r, c : Passed(t, r, c) <=> Passed(sc, r, c)
    BY <2>10 DEF Passed, Admits
  <2>12. /\ Passed(sc, x.recs, cur) /\ cur \subseteq x.recs /\ x.recs \subseteq issued
         /\ \A a, b \in cur : a = b
    <3>1. sc.srcs[n].recs \in SUBSET issued
      BY <2>4 DEF SourceAt, SourceForm
    <3> QED
      BY <2>1, <2>7, <3>1, TargetPasses
  <2> HIDE DEF cur
  <2>13. RecsOf(x, mt) = x.recs /\ ~x.live
    BY <2>3, <2>4, <2>7 DEF RecsOf, SourceAt
  <2>14. ASSUME NEW i \in 1..n PROVE SourceAt(t, i, mt, issued)
    <3>1. CASE i = n
      <4>1. t.srcs[i] = x
        BY <2>6, <2>10, <3>1
      <4> QED
        BY <2>7, <2>11, <2>12, <2>13, <4>1 DEF SourceAt, SourceForm
    <3>2. CASE i # n
      <4>1. SourceAt(sc, i, mt, issued) /\ t.srcs[i] = sc.srcs[i]
        BY <1>1, <2>6, <2>10, <3>2 DEF ScanOK, Sources
      <4> QED
        BY <2>11, <4>1 DEF SourceAt
    <3> QED
      BY <3>1, <3>2
  <2>15. ScanOK(t, mt, issued)
    <3> HIDE DEF n
    <3> QED
      BY <1>1, <1>2, <2>1, <2>6, <2>10, <2>14, NewSources DEF ScanPoints
  <2> QED
    BY <1>2, <2>8, <2>9, <2>10, <2>15, ScanKeeps
<1> QED
  BY <1>2, <1>3, <1>4

\* The source that an iterator of the heap belongs to, and the record it is on.
LEMMA OnRecord ==
  ASSUME TypeInv, ScanInv, NEW i \in Heap
  PROVE  /\ i \in 1..Len(sc.srcs) /\ CurOf(i) \in sc.srcs[i].cur /\ sc.srcs[i].cur = {CurOf(i)}
         /\ CurOf(i) \in issued /\ CurOf(i).key \in Int /\ CurOf(i).seq \in Int
<1>1. i \in 1..Len(sc.srcs) /\ sc.srcs[i].cur # {}
  BY DEF Heap
<1>2. CurOf(i) \in sc.srcs[i].cur
  BY <1>1 DEF CurOf
<1>3. SourceForm(sc.srcs[i], issued)
  BY <1>1 DEF ScanInv, ScanOK, Sources, SourceAt
<1>4. CurOf(i) \in issued /\ sc.srcs[i].cur = {CurOf(i)}
  BY <1>2, <1>3 DEF SourceForm
<1> QED
  BY <1>1, <1>2, <1>4, IssuedInts

\* The top of the heap: there is one, and its user key is the least.
LEMMA TopIsLeast ==
  ASSUME TypeInv, ScanInv
  PROVE  /\ Heap # {} => Tops # {}
         /\ \A i \in Tops, j \in Heap : CurOf(i).key <= CurOf(j).key
<1>1. ASSUME Heap # {} PROVE Tops # {}
  <2> DEFINE C == {CurOf(i) : i \in Heap}
  <2>1. C \in SUBSET issued /\ C # {}
    BY <1>1, OnRecord
  <2> HIDE DEF C
  <2>2. IsFiniteSet(C) /\ Numbered(C)
    BY <2>1, IssuedInts
  <2>3. FirstOf(C) \in C /\ \A q \in C \ {FirstOf(C)} : Ahead(FirstOf(C), q)
    BY <2>1, <2>2, FirstIsAhead
  <2>4. PICK i \in Heap : CurOf(i) = FirstOf(C)
    BY <2>3 DEF C
  <2>5. ASSUME NEW j \in Heap PROVE Compare(CurOf(i), CurOf(j)) <= 0
    <3>1. CurOf(i).key \in Int /\ CurOf(i).seq \in Int /\ CurOf(j).key \in Int /\ CurOf(j).seq \in Int
      BY OnRecord
    <3>2. CurOf(j) \in C
      BY DEF C
    <3>3. CASE CurOf(j) = CurOf(i)
      BY <3>1, <3>3 DEF Compare
    <3>4. CASE CurOf(j) # CurOf(i)
      <4>1. Ahead(CurOf(i), CurOf(j))
        BY <2>3, <2>4, <3>2, <3>4
      <4> QED
        BY <3>1, <4>1 DEF Ahead, Compare
    <3> QED
      BY <3>3, <3>4
  <2> QED
    BY <2>5 DEF Tops
<1>2. ASSUME NEW i \in Tops, NEW j \in Heap PROVE CurOf(i).key <= CurOf(j).key
  <2>1. i \in Heap /\ Compare(CurOf(i), CurOf(j)) <= 0
    BY DEF Tops
  <2>2. CurOf(i).key \in Int /\ CurOf(j).key \in Int
    BY <2>1, OnRecord
  <2> QED
    BY <2>1, <2>2 DEF Compare
<1> QED
  BY <1>1, <1>2

\* The iterator of the heap's top goes on.
LEMMA TopAdvances ==
  ASSUME TypeInv, sc.start \in Int, NEW R \in SUBSET issued, NEW C \in SUBSET issued, Passed(sc, R, C), C # {}
  PROVE  /\ Passed(sc, R, Behind(R, C)) /\ Behind(R, C) \subseteq R /\ \A a, b \in Behind(R, C) : a = b
         /\ \A n \in Behind(R, C), c \in C : c.key <= n.key
<1>1. \A r \in R : ~Admits(sc, r) => \E c \in C : Compare(r, c) <= 0
  BY DEF Passed
<1> QED
  BY <1>1, BehindPasses

\* PopAndAdvance.
LEMMA PopOK ==
  ASSUME TypeInv, ScanInv, ScanPop
  PROVE  ScanInv'
<1>1. ScanOK(sc, mt, issued) /\ sc.pc = "advance"
  BY DEF ScanInv, ScanPop
<1>2. PICK i \in Tops :
        LET rec == CurOf(i)
            src == sc.srcs[i]
            nexts == {Behind(RecordsOf(src), src.cur)} \cup (IF src.closed THEN {{}} ELSE {})
        IN /\ sc.key = {rec.key} \/ (sc.key = {} /\ rec.key < sc.end)
           /\ \E next \in nexts :
                ScanStep([sc EXCEPT !.key = {rec.key}, !.best = Collect(rec), !.srcs[i].cur = next,
                                    !.cut = @ \/ next # Behind(RecordsOf(src), src.cur)])
  BY DEF ScanPop
<1> DEFINE rec == CurOf(i)
           recs == RecordsOf(sc.srcs[i])
           cur == sc.srcs[i].cur
<1>3. i \in Heap /\ i \in 1..Len(sc.srcs) /\ cur = {rec} /\ rec \in issued /\ rec.key \in Int
  BY OnRecord DEF Tops
<1>4. SourceAt(sc, i, mt, issued)
  BY <1>1, <1>3 DEF ScanOK, Sources
<1>5. recs = RecsOf(sc.srcs[i], mt) /\ recs \in SUBSET issued
  BY <1>4 DEF RecordsOf, RecsOf, SourceAt, SourceForm, TypeInv, MemTypes
<1>6. Passed(sc, recs, cur)
  BY <1>4, <1>5 DEF SourceAt
<1>7. PICK next \in {Behind(recs, cur), {}} :
        /\ sc.key = {rec.key} \/ (sc.key = {} /\ rec.key < sc.end)
        /\ ScanStep([sc EXCEPT !.key = {rec.key}, !.best = Collect(rec), !.srcs[i].cur = next,
                               !.cut = @ \/ next # Behind(recs, cur)])
  <2>1. PICK next \in {Behind(recs, cur)} \cup (IF sc.srcs[i].closed THEN {{}} ELSE {}) :
          ScanStep([sc EXCEPT !.key = {rec.key}, !.best = Collect(rec), !.srcs[i].cur = next,
                              !.cut = @ \/ next # Behind(recs, cur)])
    BY <1>2
  <2>2. next \in {Behind(recs, cur), {}}
    BY <2>1
  <2> QED
    BY <1>2, <2>1, <2>2
<1>8. /\ DOMAIN sc = ScanFields /\ sc.pred \subseteq issued /\ sc.start \in Int /\ sc.end \in Int
      /\ \E S : sc.srcs \in Seq(S)
  BY <1>1 DEF ScanOK, ScanForm
<1>9. /\ Passed(sc, recs, next) /\ next \subseteq recs /\ \A a, b \in next : a = b
      /\ \A n \in next : rec.key <= n.key
  <2>1. CASE next = {}
    BY <2>1 DEF Passed
  <2>2. CASE next = Behind(recs, cur)
    <3>1. cur \in SUBSET issued /\ cur # {}
      BY <1>3
    <3> HIDE DEF recs, cur, rec
    <3>2. /\ Passed(sc, recs, Behind(recs, cur)) /\ Behind(recs, cur) \subseteq recs
          /\ \A a, b \in Behind(recs, cur) : a = b
          /\ \A n \in Behind(recs, cur), c \in cur : c.key <= n.key
      BY <1>5, <1>6, <1>8, <3>1, TopAdvances
    <3> QED
      BY <1>3, <2>2, <3>2
  <2> QED
    BY <1>7, <2>1, <2>2
<1>10. PICK x : x = [sc.srcs[i] EXCEPT !.cur = next]
  OBVIOUS
<1>11. /\ DOMAIN x = {"live", "num", "recs", "closed", "cur"} /\ x.cur = next
       /\ x.live = sc.srcs[i].live /\ x.recs = sc.srcs[i].recs
  BY <1>4, <1>10 DEF SourceAt, SourceForm
<1>12. PICK t : t = sc'
  OBVIOUS
<1>13. PICK S : sc.srcs \in Seq(S)
  BY <1>8
<1>14. /\ DOMAIN t = ScanFields /\ t.pc = sc.pc /\ t.pred = sc.pred /\ t.start = sc.start /\ t.end = sc.end
       /\ t.held = sc.held /\ t.srcs = [sc.srcs EXCEPT ![i] = x] /\ t.key = {rec.key} /\ t.best = Collect(rec)
       /\ t.out = sc.out
  <2>1. PICK cut : sc' = [sc EXCEPT !.key = {rec.key}, !.best = Collect(rec), !.srcs[i].cur = next, !.cut = cut]
    BY <1>7 DEF ScanStep
  <2> HIDE DEF rec
  <2>2. sc' = [sc EXCEPT !.key = {rec.key}, !.best = Collect(rec), !.srcs = [sc.srcs EXCEPT ![i] = x], !.cut = cut]
    BY <1>3, <1>8, <1>10, <1>13, <2>1 DEF ScanFields
  <2> QED
    BY <1>8, <1>12, <2>2 DEF ScanFields
<1>15. /\ t.srcs \in Seq(S \cup {x}) /\ Len(t.srcs) = Len(sc.srcs)
       /\ \A j \in 1..Len(sc.srcs) : t.srcs[j] = IF j = i THEN x ELSE sc.srcs[j]
  BY <1>3, <1>13, <1>14
<1> HIDE DEF recs, cur, rec
<1>16. (\A r : Admits(t, r) <=> Admits(sc, r)) /\ \A r, c : Passed(t, r, c) <=> Passed(sc, r, c)
  BY <1>14 DEF Passed, Admits
<1>17. Sources(t, mt, issued)
  <2> SUFFICES ASSUME NEW j \in 1..Len(sc.srcs) PROVE SourceAt(t, j, mt, issued)
    BY <1>15 DEF Sources
  <2>1. CASE j = i
    <3>1. t.srcs[j] = x /\ RecsOf(x, mt) = recs
      BY <1>5, <1>11, <1>15, <2>1 DEF RecsOf
    <3> QED
      BY <1>4, <1>5, <1>9, <1>11, <1>16, <2>1, <3>1 DEF SourceAt, SourceForm
  <2>2. CASE j # i
    <3>1. SourceAt(sc, j, mt, issued) /\ t.srcs[j] = sc.srcs[j]
      BY <1>1, <1>15, <2>2 DEF ScanOK, Sources
    <3> QED
      BY <1>16, <3>1 DEF SourceAt
  <2> QED
    BY <2>1, <2>2
<1>18. ScanForm(t, issued)
  BY <1>1, <1>14, <1>15 DEF ScanOK, ScanForm
<1>19. Found(t, mt)
  BY <1>1, <1>14 DEF Found
<1>20. ASSUME NEW j \in 1..Len(sc.srcs), NEW c \in t.srcs[j].cur PROVE rec.key <= c.key /\ c \in issued
  <2>1. CASE j = i
    BY <1>5, <1>9, <1>11, <1>15, <2>1
  <2>2. CASE j # i
    <3>1. c \in sc.srcs[j].cur
      BY <1>15, <1>20, <2>2
    <3>2. j \in Heap
      BY <3>1 DEF Heap
    <3>3. c = CurOf(j)
      BY <3>1, <3>2, OnRecord
    <3> QED
      BY <3>2, <3>3, OnRecord, TopIsLeast DEF rec
  <2> QED
    BY <2>1, <2>2
<1>21. rec.key < sc.end
  BY <1>1, <1>7 DEF ScanOK, Collecting
<1>22. Admits(sc, rec)
  BY <1>3, <1>6 DEF Passed
<1>23. \A b \in Collect(rec) : b = rec \/ (b \in sc.best /\ Collect(rec) = sc.best)
  BY DEF Collect
<1>24. \A b \in sc.best : b \in issued /\ b.key = rec.key /\ Admits(sc, b)
  BY <1>1, <1>7 DEF ScanOK, Collecting
<1>25. Collecting(t, issued)
  <2>1. \A a, b \in sc.best : a = b
    BY <1>1 DEF ScanOK, Collecting
  <2>2. \A a, b \in Collect(rec) : a = b
    BY <2>1 DEF Collect
  <2>3. \A b \in t.best : b \in issued /\ b.key \in t.key /\ Admits(t, b)
    BY <1>3, <1>14, <1>16, <1>22, <1>23, <1>24
  <2> QED
    BY <1>3, <1>14, <1>15, <1>20, <1>21, <2>2, <2>3 DEF Collecting
<1>26. Returned(t, issued)
  <2>1. /\ sc.out \in Seq(issued)
        /\ \A k, j \in 1..Len(sc.out) : k < j => sc.out[k].key < sc.out[j].key
        /\ \A k \in 1..Len(sc.out) : sc.out[k].key < sc.end /\ Admits(sc, sc.out[k])
        /\ \A k \in 1..Len(sc.out) : \A j \in 1..Len(sc.srcs) : \A c \in sc.srcs[j].cur : sc.out[k].key < c.key
    BY <1>1 DEF ScanOK, Returned
  <2>2. ASSUME NEW k \in 1..Len(sc.out) PROVE sc.out[k].key < rec.key /\ sc.out[k] \in issued
    BY <1>3, <2>1 DEF cur
  <2>3. ASSUME NEW k \in 1..Len(sc.out), NEW j \in 1..Len(sc.srcs), NEW c \in t.srcs[j].cur
        PROVE  sc.out[k].key < c.key
    <3>1. sc.out[k].key < rec.key /\ rec.key <= c.key
      BY <1>20, <2>2
    <3>2. sc.out[k].key \in Int /\ c.key \in Int
      BY <1>20, <2>2, IssuedInts
    <3> QED
      BY <1>3, <3>1, <3>2
  <2> QED
    BY <1>14, <1>15, <1>16, <2>1, <2>2, <2>3 DEF Returned
<1>27. UNCHANGED vars
  BY <1>7 DEF ScanStep
<1>28. ScanOK(t, mt, issued)
  BY <1>17, <1>18, <1>19, <1>25, <1>26 DEF ScanOK
<1> QED
  BY <1>1, <1>12, <1>14, <1>27, <1>28, ScanKeeps

\* All versions of a key are collected.
LEMMA EmitOK ==
  ASSUME TypeInv, ScanInv, ScanEmit
  PROVE  ScanInv'
<1>1. /\ ScanOK(sc, mt, issued) /\ sc.pc = "advance" /\ sc.key # {} /\ TopKey # sc.key /\ UNCHANGED vars
      /\ sc' = [sc EXCEPT !.key = {}, !.best = {}, !.out = sc.out \o SetToSeq(UserView(sc.best))]
  <2>1. ScanOK(sc, mt, issued)
    BY DEF ScanInv
  <2>2. DOMAIN sc = ScanFields
    BY <2>1 DEF ScanOK, ScanForm
  <2> QED
    BY <2>1, <2>2 DEF ScanEmit, ScanStep, ScanFields
<1>2. /\ DOMAIN sc = ScanFields /\ sc.pred \subseteq issued /\ sc.end \in Int
  BY <1>1 DEF ScanOK, ScanForm
<1>3. PICK k : sc.key = {k} /\ k \in Int /\ k < sc.end
  BY <1>1 DEF ScanOK, Collecting
<1>4. ASSUME NEW j \in 1..Len(sc.srcs), NEW c \in sc.srcs[j].cur PROVE k < c.key
  <2>1. j \in Heap
    BY <1>4 DEF Heap
  <2>2. c = CurOf(j) /\ c.key \in Int
    BY <1>4, <2>1, OnRecord
  <2>3. k <= c.key
    BY <1>1, <1>3, <1>4 DEF ScanOK, Collecting
  <2>4. ASSUME c.key = k PROVE FALSE
    <3>1. PICK i \in Tops : TRUE
      BY <2>1, TopIsLeast
    <3>2. ASSUME NEW h \in Tops PROVE CurOf(h).key = k
      <4>1. h \in Heap
        BY DEF Tops
      <4>2. CurOf(h).key <= k
        BY <2>1, <2>2, <2>4, TopIsLeast
      <4>3. h \in 1..Len(sc.srcs) /\ CurOf(h) \in sc.srcs[h].cur /\ CurOf(h).key \in Int
        BY <4>1, OnRecord
      <4>4. k <= CurOf(h).key
        BY <1>1, <1>3, <4>3 DEF ScanOK, Collecting
      <4> QED
        BY <1>3, <4>2, <4>3, <4>4
    <3>3. TopKey = {k}
      BY <3>1, <3>2 DEF TopKey
    <3> QED
      BY <1>1, <1>3, <3>3
  <2> QED
    BY <1>3, <2>2, <2>3, <2>4
<1>5. PICK q : q = SetToSeq(UserView(sc.best))
  OBVIOUS
<1>6. \A b \in sc.best : b \in issued /\ b.key = k /\ Admits(sc, b)
  BY <1>1, <1>3 DEF ScanOK, Collecting
<1>7. q \in Seq(sc.best) /\ Len(q) <= 1
  <2>1. UserView(sc.best) \subseteq sc.best /\ \A a, b \in UserView(sc.best) : a = b
    BY <1>1 DEF ScanOK, Collecting, UserView
  <2>2. q \in Seq(UserView(sc.best)) /\ Len(q) <= 1
    BY <1>5, <2>1, SetToSeqOne
  <2> QED
    BY <2>1, <2>2
<1>8. PICK t : t = sc'
  OBVIOUS
<1>9. /\ DOMAIN t = ScanFields /\ t.pc = sc.pc /\ t.pred = sc.pred /\ t.start = sc.start /\ t.end = sc.end
      /\ t.held = sc.held /\ t.srcs = sc.srcs /\ t.key = {} /\ t.best = {} /\ t.out = sc.out \o q
  BY <1>1, <1>2, <1>5, <1>8 DEF ScanFields
<1>10. (\A r : Admits(t, r) <=> Admits(sc, r)) /\ \A r, c : Passed(t, r, c) <=> Passed(sc, r, c)
  BY <1>9 DEF Passed, Admits
<1>11. /\ sc.out \in Seq(issued)
       /\ \A i, j \in 1..Len(sc.out) : i < j => sc.out[i].key < sc.out[j].key
       /\ \A i \in 1..Len(sc.out) : sc.out[i].key < sc.end /\ Admits(sc, sc.out[i]) /\ sc.out[i].key < k
       /\ \A i \in 1..Len(sc.out) : \A j \in 1..Len(sc.srcs) : \A c \in sc.srcs[j].cur : sc.out[i].key < c.key
  BY <1>1, <1>3 DEF ScanOK, Returned
<1>12. /\ t.out \in Seq(issued)
       /\ \A i \in 1..Len(t.out) :
            \/ i \in 1..Len(sc.out) /\ t.out[i] = sc.out[i]
            \/ i = Len(sc.out) + 1 /\ i = Len(t.out) /\ t.out[i] \in sc.best
  <2>1. q \in Seq(issued)
    BY <1>6, <1>7
  <2>2. Len(t.out) = Len(sc.out) + Len(q) /\ t.out \in Seq(issued)
    BY <1>9, <1>11, <2>1
  <2>3. ASSUME NEW i \in 1..Len(t.out)
        PROVE  \/ i \in 1..Len(sc.out) /\ t.out[i] = sc.out[i]
               \/ i = Len(sc.out) + 1 /\ i = Len(t.out) /\ t.out[i] \in sc.best
    <3>1. CASE i <= Len(sc.out)
      BY <1>9, <1>11, <2>1, <3>1
    <3>2. CASE i > Len(sc.out)
      <4>1. Len(q) = 1 /\ i = Len(sc.out) + 1 /\ i = Len(t.out)
        <5>1. Len(q) \in Nat /\ Len(sc.out) \in Nat /\ Len(q) <= 1
          BY <1>7, <1>11
        <5>2. PICK a \in Nat, b \in Nat : a = Len(sc.out) /\ b = Len(q) /\ b <= 1 /\ Len(t.out) = a + b
          BY <2>2, <5>1
        <5>3. i \in 1..(a + b) /\ i > a
          BY <3>2, <5>2
        <5>4. b = 1 /\ i = a + 1
          BY <5>2, <5>3
        <5> QED
          BY <5>2, <5>4
      <4>2. t.out[i] = q[1] /\ q[1] \in sc.best
        BY <1>7, <1>9, <1>11, <2>1, <4>1
      <4> QED
        BY <4>1, <4>2
    <3> QED
      BY <1>11, <3>1, <3>2
  <2> QED
    BY <2>2, <2>3
<1>13. ASSUME NEW i \in 1..Len(t.out), NEW j \in 1..Len(t.out), i < j PROVE t.out[i].key < t.out[j].key
  <2>1. i \in 1..Len(sc.out) /\ t.out[i] = sc.out[i]
    BY <1>11, <1>12, <1>13
  <2>2. CASE j \in 1..Len(sc.out) /\ t.out[j] = sc.out[j]
    BY <1>11, <1>13, <2>1, <2>2
  <2>3. CASE t.out[j] \in sc.best
    BY <1>6, <1>11, <2>1, <2>3
  <2> QED
    BY <1>12, <2>2, <2>3
<1>14. ASSUME NEW i \in 1..Len(t.out) PROVE t.out[i].key < t.end /\ Admits(t, t.out[i])
  BY <1>3, <1>6, <1>9, <1>10, <1>11, <1>12
<1>15. ASSUME NEW i \in 1..Len(t.out), NEW j \in 1..Len(t.srcs), NEW c \in t.srcs[j].cur PROVE t.out[i].key < c.key
  BY <1>4, <1>6, <1>9, <1>11, <1>12
<1>16. Returned(t, issued)
  BY <1>9, <1>12, <1>13, <1>14, <1>15 DEF Returned
<1>17. Collecting(t, issued)
  BY <1>9 DEF Collecting
<1>18. Sources(t, mt, issued)
  BY <1>1, <1>9, <1>10 DEF ScanOK, Sources, SourceAt
<1>19. ScanForm(t, issued) /\ Found(t, mt)
  BY <1>1, <1>9 DEF ScanOK, ScanForm, Found
<1>20. ScanOK(t, mt, issued)
  BY <1>16, <1>17, <1>18, <1>19 DEF ScanOK
<1> QED
  BY <1>1, <1>8, <1>9, <1>20, ScanKeeps

\* The iterator is at its end.
LEMMA EndOK ==
  ASSUME TypeInv, ScanInv, ScanEnd
  PROVE  ScanInv'
<1>1. /\ ScanOK(sc, mt, issued) /\ sc.pc = "advance" /\ sc.key = {} /\ UNCHANGED vars
      /\ sc' = [sc EXCEPT !.pc = "end", !.srcs = <<>>]
  BY DEF ScanInv, ScanEnd, ScanStep
<1>2. DOMAIN sc = ScanFields
  BY <1>1 DEF ScanOK, ScanForm
<1>3. PICK t : t = sc'
  OBVIOUS
<1>4. /\ DOMAIN t = ScanFields /\ t.pc = "end" /\ t.pred = sc.pred /\ t.start = sc.start /\ t.end = sc.end
      /\ t.held = sc.held /\ t.srcs = <<>> /\ t.key = sc.key /\ t.best = sc.best /\ t.out = sc.out
  BY <1>1, <1>2, <1>3 DEF ScanFields
<1>5. \A r : Admits(t, r) <=> Admits(sc, r)
  BY <1>4 DEF Admits
<1>6. ScanForm(t, issued)
  <2>1. t.srcs \in Seq({})
    BY <1>4
  <2> QED
    BY <1>1, <1>4, <2>1 DEF ScanOK, ScanForm, ScanPoints
<1>7. Sources(t, mt, issued) /\ Found(t, mt)
  BY <1>4 DEF Sources, Found
<1>8. Collecting(t, issued)
  BY <1>1, <1>4, <1>5 DEF ScanOK, Collecting
<1>9. Returned(t, issued)
  BY <1>1, <1>4, <1>5 DEF ScanOK, Returned
<1>10. ScanOK(t, mt, issued)
  BY <1>6, <1>7, <1>8, <1>9 DEF ScanOK
<1> QED
  BY <1>1, <1>3, <1>4, <1>10, ScanKeeps

----------------------------------------------------------------------------
\* No scan is a scan that has returned nothing.
LEMMA NoScanOK ==
  ASSUME NEW s, NEW m, NEW I, DOMAIN s = ScanFields, s.pc = "idle", s.start \in Int, s.end \in Int,
         s.srcs = <<>>, s.pred = {}, s.key = {}, s.best = {}, s.out = <<>>, s.held = {}
  PROVE  ScanOK(s, m, I)
<1>1. s.srcs \in Seq({}) /\ Len(s.srcs) = 0
  OBVIOUS
<1>2. ScanForm(s, I)
  BY <1>1 DEF ScanForm, ScanPoints
<1>3. Sources(s, m, I) /\ Found(s, m) /\ Collecting(s, I)
  BY <1>1 DEF Sources, Found, Collecting
<1>4. Returned(s, I)
  BY DEF Returned
<1> QED
  BY <1>2, <1>3, <1>4 DEF ScanOK

\* The fields of the idle scan that its invariant is about.
LEMMA NoScanIs ==
  /\ DOMAIN NoScan = ScanFields /\ NoScan.pc = "idle" /\ NoScan.start \in Int /\ NoScan.end \in Int
  /\ NoScan.srcs = <<>> /\ NoScan.pred = {} /\ NoScan.key = {} /\ NoScan.best = {} /\ NoScan.out = <<>>
  /\ NoScan.held = {}
BY DEF NoScan, ScanFields

\* What becomes of a source of the scan while the engine is open.
LEMMA SourceFollows ==
  ASSUME TypeInv', NEW X, Serves(X), NEW src, SourceForm(src, issued), NEW c, NEW y,
         y = [Frozen(src) EXCEPT !.closed = c]
  PROVE  /\ SourceForm(y, issued') /\ y.cur = src.cur /\ (y.live => src.live)
         /\ RecsOf(y, mt') \subseteq RecsOf(src, mt) \cup X
<1>1. issued \subseteq issued' /\ mt' \subseteq mt \cup X /\ (immt' = immt \/ immt' \in {{}, {mt}, {mt \cup X}})
  BY DEF Serves
<1>2. UNION immt' \subseteq issued'
  BY DEF TypeInv, MemTypes
<1>3. DOMAIN src = {"live", "num", "recs", "closed", "cur"}
  BY DEF SourceForm
<1>4. CASE src.live /\ immt' # immt /\ immt' # {}
  <2>1. Frozen(src) = [src EXCEPT !.live = FALSE, !.recs = UNION immt']
    BY <1>4 DEF Frozen
  <2>2. /\ DOMAIN y = {"live", "num", "recs", "closed", "cur"} /\ y.cur = src.cur /\ y.live = FALSE
        /\ y.recs = UNION immt'
    BY <1>3, <2>1
  <2>3. UNION immt' \subseteq mt \cup X
    BY <1>1, <1>4
  <2> QED
    BY <1>1, <1>2, <1>4, <2>2, <2>3 DEF SourceForm, RecsOf
<1>5. CASE ~(src.live /\ immt' # immt /\ immt' # {})
  <2>1. Frozen(src) = src
    BY <1>5 DEF Frozen
  <2>2. /\ DOMAIN y = {"live", "num", "recs", "closed", "cur"} /\ y.cur = src.cur /\ y.live = src.live
        /\ y.recs = src.recs
    BY <1>3, <2>1
  <2> QED
    BY <1>1, <2>2 DEF SourceForm, RecsOf
<1> QED
  BY <1>4, <1>5

\* A step of the engine beside the scan.
LEMMA FollowOK ==
  ASSUME TypeInv, TypeInv', WaitInv, ScanInv, [Next]_vars, Follow, sc.pc \notin {"fatal", "end"}
  PROVE  ScanInv'
<1>1. ScanOK(sc, mt, issued)
  BY DEF ScanInv
<1>2. CASE phase' = "down"
  <2>1. sc' = NoScan
    BY <1>2 DEF Follow
  <2>2. ScanOK(NoScan, mt', issued')
    BY NoScanIs, NoScanOK
  <2> QED
    BY <2>1, <2>2, NoScanIs DEF ScanInv
<1>3. CASE phase' # "down"
  <2> DEFINE n == Len(sc.srcs)
             closed(i) == Frozen(sc.srcs[i]).closed \/ (HasCached(i) /\ sc.srcs[i].num \in Removing)
             srcs == [i \in 1..n |-> [Frozen(sc.srcs[i]) EXCEPT !.closed = closed(i)]]
  <2>1. DOMAIN sc = ScanFields /\ n \in Nat /\ sc.start \in Int /\ sc.end \in Int
    BY <1>1 DEF ScanOK, ScanForm
  <2>2. PICK removed : sc' = [sc EXCEPT !.removed = removed, !.srcs = srcs]
    <3>1. sc' = [sc EXCEPT !.removed = @ \/ (sc.pc # "idle" /\ Removing # {}), !.srcs = srcs]
      BY <1>3, Zenon DEF Follow
    <3> HIDE DEF srcs
    <3> QED
      BY <2>1, <3>1 DEF ScanFields
  <2>3. PICK t : t = sc'
    OBVIOUS
  <2>4. /\ DOMAIN t = ScanFields /\ t.pc = sc.pc /\ t.pred = sc.pred /\ t.start = sc.start /\ t.end = sc.end
        /\ t.held = sc.held /\ t.srcs = srcs /\ t.key = sc.key /\ t.best = sc.best /\ t.out = sc.out
    <3> HIDE DEF srcs
    <3> QED
      BY <2>1, <2>2, <2>3 DEF ScanFields
  <2>5. CASE sc.pc = "idle"
    <3>1. sc.srcs = <<>> /\ sc.held = {} /\ sc.pred = {} /\ sc.out = <<>> /\ sc.key = {} /\ sc.best = {}
      BY <1>1, <2>5 DEF ScanOK, ScanForm
    <3>2. t.srcs = <<>>
      <4>1. n = 0
        BY <3>1
      <4>2. srcs = [i \in 1..0 |-> srcs[i]]
        BY <4>1
      <4> HIDE DEF srcs
      <4> QED
        BY <2>4, <4>2
    <3> HIDE DEF srcs
    <3>3. ScanOK(t, mt', issued')
      BY <2>1, <2>4, <2>5, <3>1, <3>2, NoScanOK
    <3> QED
      BY <2>3, <2>4, <2>5, <3>1, <3>3 DEF ScanInv
  <2>6. CASE sc.pc # "idle"
    <3>1. PICK X : Serves(X)
      BY <1>3, <2>6, ServingStep DEF ScanInv
    <3>2. issued \subseteq issued' /\ Serving'
      BY <3>1 DEF Serves
    <3>3. X \cap sc.held = {} /\ sc.held \subseteq issued
      BY <1>1, <3>1 DEF Serves, ScanInv, ScanOK, ScanForm
    <3>4. ASSUME NEW c \in Clients PROVE Waiting(cl'[c]) \cap sc.held = {}
      BY <3>1, <3>3 DEF Serves, ScanInv
    <3>5. ASSUME NEW i \in 1..n
          PROVE  /\ SourceForm(sc.srcs[i], issued) /\ SourceAt(sc, i, mt, issued)
                 /\ SourceForm(t.srcs[i], issued') /\ t.srcs[i].cur = sc.srcs[i].cur
                 /\ (t.srcs[i].live => sc.srcs[i].live)
                 /\ RecsOf(t.srcs[i], mt') \subseteq RecsOf(sc.srcs[i], mt) \cup X
      <4>1. SourceForm(sc.srcs[i], issued) /\ SourceAt(sc, i, mt, issued)
        BY <1>1 DEF ScanOK, Sources, SourceAt
      <4>2. t.srcs[i] = [Frozen(sc.srcs[i]) EXCEPT !.closed = closed(i)]
        BY <2>4
      <4> HIDE DEF closed, srcs
      <4>3. PICK src, c : src = sc.srcs[i] /\ c = closed(i)
        OBVIOUS
      <4>4. PICK y : y = [Frozen(src) EXCEPT !.closed = c]
        OBVIOUS
      <4>5. t.srcs[i] = y
        BY <4>2, <4>3, <4>4 DEF Frozen
      <4>6. SourceForm(src, issued)
        BY <4>1, <4>3
      <4>7. /\ SourceForm(y, issued') /\ y.cur = src.cur /\ (y.live => src.live)
            /\ RecsOf(y, mt') \subseteq RecsOf(src, mt) \cup X
        BY <3>1, <4>4, <4>6, SourceFollows
      <4> QED
        BY <4>1, <4>3, <4>5, <4>7
    <3>6. t.srcs \in Seq({srcs[i] : i \in 1..n}) /\ Len(t.srcs) = n
      <4>1. srcs = [i \in 1..n |-> srcs[i]]
        OBVIOUS
      <4> HIDE DEF srcs, n
      <4> QED
        BY <2>1, <2>4, <4>1, ListOf
    <3> HIDE DEF srcs, n
    <3>7. \A r : Admits(t, r) <=> Admits(sc, r)
      BY <2>4 DEF Admits
    <3>8. \A r \in X : Admits(sc, r)
      BY <3>3 DEF Admits
    <3>9. Sources(t, mt', issued')
      <4> SUFFICES ASSUME NEW i \in 1..n PROVE SourceAt(t, i, mt', issued')
        BY <3>6 DEF Sources
      <4>1. Passed(sc, RecsOf(sc.srcs[i], mt), sc.srcs[i].cur) /\ (i # 1 => ~sc.srcs[i].live)
        BY <3>5 DEF SourceAt
      <4>2. Passed(t, RecsOf(t.srcs[i], mt'), t.srcs[i].cur)
        BY <3>5, <3>7, <3>8, <4>1 DEF Passed
      <4> QED
        BY <3>5, <4>1, <4>2 DEF SourceAt
    <3>10. Found(t, mt')
      <4> SUFFICES ASSUME sc.pc = "land", NEW r \in RecsOf(t.srcs[1], mt'), ~Admits(t, r)
                   PROVE  \E p \in sc.pred : Compare(r, p) <= 0
        BY <2>4 DEF Found
      <4>1. n >= 1 /\ 1 \in 1..n
        BY <1>1, <2>1 DEF ScanOK, ScanForm, n
      <4>2. r \in RecsOf(sc.srcs[1], mt)
        BY <3>5, <3>7, <3>8, <4>1
      <4> QED
        BY <1>1, <3>7, <4>2 DEF ScanOK, Found
    <3>11. ScanForm(t, issued')
      BY <1>1, <2>4, <2>6, <3>2, <3>6 DEF ScanOK, ScanForm, n
    <3>12. Collecting(t, issued')
      BY <1>1, <2>4, <3>2, <3>5, <3>6, <3>7 DEF ScanOK, Collecting, n
    <3>13. Returned(t, issued')
      <4>1. sc.out \in Seq(issued')
        BY <1>1, <3>2 DEF ScanOK, Returned
      <4> QED
        BY <1>1, <2>4, <3>5, <3>6, <3>7, <4>1 DEF ScanOK, Returned, n
    <3>14. ScanOK(t, mt', issued')
      BY <3>9, <3>10, <3>11, <3>12, <3>13 DEF ScanOK
    <3> QED
      BY <2>3, <2>4, <3>2, <3>4, <3>14 DEF ScanInv
  <2> QED
    BY <2>5, <2>6
<1> QED
  BY <1>2, <1>3

\* A step of the whole is one of the engine, or leaves the engine.
LEMMA BesideEngine == ASSUME [NextBeside]_allVars PROVE [Next]_vars
<1>1. ASSUME ScanNext PROVE UNCHANGED vars
  <2>1. ASSUME ScanTake \/ ScanFind \/ ScanLand \/ ScanVersion PROVE UNCHANGED vars
    BY <2>1 DEF ScanTake, ScanFind, ScanLand, ScanVersion, ScanTables, ScanStep
  <2>2. ASSUME ScanReader \/ ScanOpen \/ ScanInsert \/ ScanSeek PROVE UNCHANGED vars
    BY <2>2 DEF ScanReader, ScanOpen, ScanInsert, ScanSeek, ScanTables, ScanStep
  <2>3. ASSUME ScanPop \/ ScanEmit \/ ScanEnd \/ GetReader PROVE UNCHANGED vars
    BY <2>3 DEF ScanPop, ScanEmit, ScanEnd, GetReader, ScanStep
  <2> QED
    BY <1>1, <2>1, <2>2, <2>3 DEF ScanNext
<1> QED
  BY <1>1 DEF NextBeside, Over, allVars

\* Every step keeps the invariant of the scan.
LEMMA BesideStep ==
  ASSUME TypeInv, TypeInv', WaitInv, ScanInv, [NextBeside]_allVars
  PROVE  ScanInv'
<1>1. CASE ScanNext /\ ~GetReader
  BY <1>1, TakeOK, FindOK, LandOK, VersionOK, ReaderOK, SeekOK, PopOK, EmitOK, EndOK DEF ScanNext
<1>2. CASE sc.pc \notin {"fatal", "end"} /\ Next /\ Follow
  BY <1>2, FollowOK
<1>3. CASE UNCHANGED <<vars, sc>>
  <2>1. UNCHANGED <<phase, mt, issued, cl, sc>>
    BY <1>3 DEF vars, ctlVars, memVars, histVars
  <2>2. Serving' = Serving
    BY <2>1 DEF Serving
  <2> QED
    BY <2>1, <2>2 DEF ScanInv
<1>4. GetReader \/ Over \/ UNCHANGED allVars => UNCHANGED <<vars, sc>>
  BY DEF GetReader, Over, allVars, scanVars
<1> QED
  BY <1>1, <1>2, <1>3, <1>4 DEF NextBeside

\* At first there is no scan.
LEMMA ScanInitOK == ASSUME ScanInit PROVE ScanInv
<1>1. sc = NoScan
  BY DEF ScanInit
<1>2. ScanOK(NoScan, mt, issued)
  BY NoScanIs, NoScanOK
<1> QED
  BY <1>1, <1>2, NoScanIs DEF ScanInv

\* The engine beside a scan, and the scan, keep their invariants.
THEOREM ScanInvariant == SpecBeside => [](TypeInv /\ WaitInv /\ ScanInv)
<1>1. ScanInit => TypeInv /\ WaitInv /\ ScanInv
  BY InitTypes, WaitInit, ScanInitOK DEF ScanInit
<1>2. TypeInv /\ WaitInv /\ ScanInv /\ [NextBeside]_allVars => (TypeInv /\ WaitInv /\ ScanInv)'
  <2> SUFFICES ASSUME TypeInv, WaitInv, ScanInv, [NextBeside]_allVars PROVE (TypeInv /\ WaitInv /\ ScanInv)'
    OBVIOUS
  <2>1. [Next]_vars
    BY BesideEngine
  <2>2. TypeInv'
    BY <2>1, NextTypes
  <2>3. WaitInv' /\ ScanInv'
    BY <2>1, <2>2, WaitStep, BesideStep
  <2> QED
    BY <2>2, <2>3
<1> QED
  BY <1>1, <1>2, PTL DEF SpecBeside

\* A scan returns its keys in ascending order, each once, below its end; and not below
\* its start, but for a record that was inserted while it sought its first one: whatever
\* clients, rotations, flushes, compactions, failures and crashes come in between, and
\* wherever its readers were closed.
THEOREM ScanIsSorted == SpecBeside => []ScanSorted
<1>1. ScanInv => ScanSorted
  <2> SUFFICES ASSUME Returned(sc, issued) PROVE ScanSorted
    BY DEF ScanInv, ScanOK
  <2> QED
    BY DEF Returned, Admits, ScanSorted, ToSet
<1> QED
  BY <1>1, ScanInvariant, PTL
----------------------------------------------------------------------------
\* f is the function FlattenSeq(ss) is computed with, up to n.
Flat(f, ss, n) == f = [i \in 1..n |-> IF i = 1 THEN ss[i] ELSE f[i - 1] \o ss[i]]

\* The recursion of FlattenSeq defines a function.
LEMMA FlatExists == ASSUME NEW ss, NEW n \in Nat PROVE \E f : Flat(f, ss, n)
<1> DEFINE P == {i \in Nat : \E f : Flat(f, ss, i)}
<1>1. 0 \in P
  <2>1. Flat([i \in 1..0 |-> ss], ss, 0)
    BY DEF Flat
  <2> QED
    BY <2>1
<1>2. ASSUME NEW i \in 0..n, i \in P, i < n PROVE i + 1 \in P
  <2>1. PICK f : Flat(f, ss, i)
    BY <1>2
  <2> DEFINE last == IF i = 0 THEN ss[i + 1] ELSE f[i] \o ss[i + 1]
             g == [j \in 1..(i + 1) |-> IF j = i + 1 THEN last ELSE f[j]]
  <2>2. ASSUME NEW j \in 1..(i + 1)
        PROVE  g[j] = IF j = 1 THEN ss[j] ELSE g[j - 1] \o ss[j]
    <3>1. CASE j = i + 1
      <4>1. CASE i = 0
        BY <3>1, <4>1
      <4>2. CASE i # 0
        <5>1. i \in 1..(i + 1) /\ j - 1 = i /\ i # i + 1 /\ j # 1
          BY <3>1, <4>2
        <5>2. g[j] = f[i] \o ss[j] /\ g[j - 1] = f[i]
          BY <3>1, <4>2, <5>1
        <5> QED
          BY <5>1, <5>2
      <4> QED
        BY <4>1, <4>2
    <3>2. CASE j # i + 1
      <4>1. j \in 1..i /\ (j # 1 => j - 1 \in 1..i)
        BY <3>2
      <4>2. f[j] = IF j = 1 THEN ss[j] ELSE f[j - 1] \o ss[j]
        BY <2>1, <4>1 DEF Flat
      <4>3. g[j] = f[j] /\ (j # 1 => g[j - 1] = f[j - 1])
        BY <4>1
      <4> QED
        BY <4>2, <4>3
    <3> QED
      BY <3>1, <3>2
  <2>3. Flat(g, ss, i + 1)
    BY <2>2 DEF Flat
  <2> QED
    BY <2>3
<1> HIDE DEF P
<1>3. n \in P
  BY <1>1, <1>2, UpTo
<1> QED
  BY <1>3 DEF P

\* What is in a concatenation of sequences is in one of them.
LEMMA FlattenElements ==
  ASSUME NEW S, NEW ss \in Seq(Seq(S)), Len(ss) # 0
  PROVE  /\ FlattenSeq(ss) \in Seq(S)
         /\ \A x \in ToSet(FlattenSeq(ss)) : \E i \in 1..Len(ss) : x \in ToSet(ss[i])
<1> DEFINE n == Len(ss)
           f == CHOOSE g : Flat(g, ss, n)
<1>1. n \in Nat \ {0} /\ \A i \in 1..n : ss[i] \in Seq(S)
  OBVIOUS
<1>2. Flat(f, ss, n)
  BY <1>1, FlatExists
<1>3. FlattenSeq(ss) = f[n]
  BY <1>1 DEF FlattenSeq, Flat
<1> HIDE DEF f, n
<1> DEFINE P == {k \in Nat : k \in 1..n => /\ f[k] \in Seq(S)
                                           /\ \A x \in ToSet(f[k]) : \E i \in 1..n : x \in ToSet(ss[i])}
<1>4. 0 \in P
  OBVIOUS
<1>5. ASSUME NEW k \in 0..n, k \in P, k < n PROVE k + 1 \in P
  <2>1. k + 1 \in 1..n /\ (k + 1) - 1 = k /\ (k # 0 => k \in 1..n)
    BY <1>1, <1>5
  <2>2. f[k + 1] = IF k = 0 THEN ss[k + 1] ELSE f[k] \o ss[k + 1]
    <3>1. f = [i \in 1..n |-> IF i = 1 THEN ss[i] ELSE f[i - 1] \o ss[i]]
      BY <1>2 DEF Flat
    <3>2. f[k + 1] = IF k + 1 = 1 THEN ss[k + 1] ELSE f[(k + 1) - 1] \o ss[k + 1]
      BY <2>1, <3>1, Zenon
    <3> QED
      BY <2>1, <3>2
  <2>3. CASE k = 0
    BY <1>1, <2>1, <2>2, <2>3
  <2>4. CASE k # 0
    <3>1. f[k] \in Seq(S) /\ \A x \in ToSet(f[k]) : \E i \in 1..n : x \in ToSet(ss[i])
      BY <1>5, <2>1, <2>4
    <3>2. f[k + 1] \in Seq(S) /\ ToSet(f[k + 1]) = ToSet(f[k]) \cup ToSet(ss[k + 1])
      BY <1>1, <2>1, <2>2, <2>4, <3>1, ConcatElements
    <3> QED
      BY <2>1, <3>1, <3>2
  <2> QED
    BY <2>3, <2>4
<1> HIDE DEF P
<1>6. \A k \in 0..n : k \in P
  BY <1>1, <1>4, <1>5, UpTo
<1>7. n \in P /\ n \in 1..n
  BY <1>1, <1>6
<1> QED
  BY <1>1, <1>3, <1>7 DEF P, n

----------------------------------------------------------------------------
\* The files that a scan which has just read the Version may meet: those of the tables of
\* the Version and of the inputs a compaction is about to remove.
Shelf == {PathOf(t) : t \in LiveTables} \cup (IF job.pc = "remove" THEN Paths(job.all) ELSE {})

\* The tables that a scan has still to open are on the shelf until a compaction removes
\* tables; only then readers are closed, iterators are cut off, and the scan fails.
ReaderInv ==
  /\ \E S : sc.todo \in Seq(S)
  /\ sc.removed \in BOOLEAN /\ sc.cut \in BOOLEAN /\ \A i \in 1..Len(sc.srcs) : sc.srcs[i].closed \in BOOLEAN
  /\ sc.pc = "idle" => sc.todo = <<>>
  /\ sc.pc \in {"reader", "open", "insert", "seek"} => sc.todo # <<>>
  /\ ~sc.removed => \A i \in 1..Len(sc.todo) : PathOf(sc.todo[i]) \in Shelf
  /\ sc.cut => sc.removed
  /\ \A i \in 1..Len(sc.srcs) : sc.srcs[i].closed => sc.removed
  /\ starts <= 1 /\ sc.pc = "fatal" => sc.removed \/ job.pc = "remove"

\* The tables of the Version after an edit.
LEMMA ShelfEdited ==
  ASSUME TypeInv, NEW edit \in Edits, levels' \in {levels, apply(levels, edit)}, NEW t \in LiveTables,
         PathOf(t) \notin edit.dels
  PROVE  t \in LiveTables'
<1>1. CASE levels' = levels
  BY <1>1 DEF LiveTables, TablesAt
<1>2. CASE levels' = apply(levels, edit)
  <2>1. PICK l \in Levels : t \in TablesAt(l)
    BY DEF LiveTables
  <2>2. levels \in TreeOf /\ OnLevels(levels) /\ levels[l] \in Seq(Tables)
    BY DEF TypeInv, TreeTypes, OnLevels, TreeOf
  <2>3. levels'[l] = Applied(levels[l], edit, l)
    BY <1>2, <2>2, ApplyTypes
  <2>4. t \in ToSet(levels'[l])
    BY <2>1, <2>2, <2>3, AppliedTable DEF TablesAt
  <2> QED
    BY <2>4 DEF LiveTables, TablesAt
<1> QED
  BY <1>1, <1>2

\* A step of an engine that is open takes no file from the shelf, but for the removal of a
\* compaction's inputs, and the end of the process.
LEMMA ShelfStep ==
  ASSUME TypeInv, WaitInv, Serving, [Next]_vars
  PROVE  \/ phase' = "down"
         \/ Shelf \subseteq Shelf'
         \/ job.pc = "remove" /\ job'.pc = "done" /\ job.all # <<>>
<1> USE DEF ctlVars, memVars, walVars, vsVars, compVars, histVars
<1>1. ASSUME levels' = levels, job' = job PROVE Shelf' = Shelf
  BY <1>1 DEF Shelf, LiveTables, TablesAt
<1>2. ASSUME levels' = levels, job.pc # "remove" PROVE Shelf \subseteq Shelf'
  BY <1>2 DEF Shelf, LiveTables, TablesAt
<1>3. ASSUME NEW c \in Clients, ClientNext(c) PROVE levels' = levels /\ job' = job
  <2>1. CASE Put(c) \/ Delete(c) \/ WriteBatch(c)
    BY <2>1 DEF Put, Delete, WriteBatch, Start
  <2>2. CASE Stall(c) \/ ReadWal(c) \/ AppendWal(c) \/ Sync(c) \/ Close(c) \/ SyncReturn(c) \/ Send(c)
    BY <2>2 DEF Stall, ReadWal, AppendWal, Sync, Close, SyncReturn, Send
  <2>3. ASSUME NEW m, NEW fault, rotate(m, fault) PROVE levels' = levels
    <3>1. TreeTypes /\ nextFileNum \in Nat
      BY DEF TypeInv, Counters
    <3>2. levels' = levels \/ LogAndApply([NoEdit EXCEPT !.log = {nextFileNum}], fault)
      BY <2>3 DEF rotate
    <3> QED
      BY <3>1, <3>2, LogAndApplyLog
  <2>4. CASE Apply(c)
    BY <2>3, <2>4 DEF Apply
  <2>5. CASE RotateForSync(c)
    BY <2>3, <2>5 DEF RotateForSync
  <2> QED
    BY <1>3, <2>1, <2>2, <2>4, <2>5 DEF ClientNext
<1>4. CASE FlushTake \/ FlushWrite
  BY <1>1, <1>4 DEF FlushTake, FlushWrite
<1>5. ASSUME NEW edit, NEW fault, LogAndApply(edit, fault) PROVE levels' \in {levels, apply(levels, edit)}
  BY <1>5 DEF LogAndApply
<1>6. CASE FlushInstall
  <2>1. fl.pc = "install" /\ job' = job /\ \E fault : LogAndApply(FlushEdit, fault)
    BY <1>6 DEF FlushInstall
  <2>2. FlushEdit \in Edits /\ FlushEdit.dels = {}
    BY <2>1, FlushEditTypes
  <2>3. levels' \in {levels, apply(levels, FlushEdit)}
    BY <1>5, <2>1
  <2>4. LiveTables \subseteq LiveTables'
    BY <2>2, <2>3, ShelfEdited
  <2> QED
    BY <2>1, <2>4 DEF Shelf
<1>7. CASE CompactInstall
  <2>1. job.pc = "install"
    BY <1>7 DEF CompactInstall
  <2>2. PICK fault \in Faults({"manifest"}) :
          LogAndApply(CompactionEdit, fault) /\ (fault # "manifest" => job' = [job EXCEPT !.pc = "remove"])
    BY <1>7, Zenon DEF CompactInstall
  <2>3. CASE fault = "manifest"
    <3>1. levels' = levels
      BY <2>2, <2>3 DEF LogAndApply
    <3> QED
      BY <1>2, <2>1, <3>1
  <2>4. CASE fault # "manifest"
    <3>1. job'.pc = "remove" /\ job'.all = job.all
      BY <2>2, <2>4 DEF TypeInv, Jobs
    <3>2. CompactionEdit \in Edits /\ CompactionEdit.dels = Paths(job.all)
      BY CompactionEditTypes
    <3>3. levels' \in {levels, apply(levels, CompactionEdit)}
      BY <1>5, <2>2
    <3>4. ASSUME NEW t \in LiveTables PROVE PathOf(t) \in Shelf'
      <4>1. CASE PathOf(t) \in Paths(job.all)
        BY <3>1, <4>1 DEF Shelf
      <4>2. CASE PathOf(t) \notin Paths(job.all)
        <5>1. t \in LiveTables'
          BY <3>2, <3>3, <4>2, ShelfEdited
        <5>2. PathOf(t) \in {PathOf(u) : u \in LiveTables'}
          BY <5>1
        <5> QED
          BY <5>2 DEF Shelf
      <4> QED
        BY <4>1, <4>2
    <3>5. Shelf = {PathOf(t) : t \in LiveTables}
      BY <2>1 DEF Shelf
    <3> QED
      BY <3>4, <3>5
  <2> QED
    BY <2>3, <2>4
<1>9. CASE FlushCleanup
  <2>1. levels' = levels /\ (~isCompacting \/ job' = job)
    BY <1>9 DEF FlushCleanup
  <2> QED
    BY <1>1, <1>2, <2>1 DEF TypeInv, Locks
<1>10. CASE CompactBegin \/ CompactMerge \/ CompactDone \/ RescheduleClear
  <2>1. levels' = levels /\ job.pc # "remove"
    <3>1. CASE CompactMerge
      BY <3>1, MergeSteps
    <3>2. CASE CompactBegin \/ CompactDone \/ RescheduleClear
      BY <3>2 DEF CompactBegin, CompactDone, RescheduleClear
    <3> QED
      BY <1>10, <3>1, <3>2
  <2> QED
    BY <1>2, <2>1
<1>11. CASE Reschedule
  <2>1. levels' = levels /\ (~isCompacting \/ job' = job)
    BY <1>11 DEF Reschedule
  <2> QED
    BY <1>1, <1>2, <2>1 DEF TypeInv, Locks
<1>12. CASE CompactRemove
  <2>1. job.pc = "remove" /\ levels' = levels /\ job'.pc = "done"
    BY <1>12 DEF CompactRemove, NoJob
  <2>2. ASSUME job.all = <<>> PROVE Shelf \subseteq Shelf'
    <3>1. Paths(job.all) = {}
      BY <2>2 DEF Paths, ToSet
    <3> QED
      BY <2>1, <3>1 DEF Shelf, LiveTables, TablesAt
  <2> QED
    BY <2>1, <2>2
<1>13. CASE SnapshotNext \/ Quiet \/ UNCHANGED vars
  BY <1>1, <1>13 DEF SnapshotNext, NewSnapshot, Release, Quiet, vars
<1>14. CASE Crash \/ \E c \in Clients : CloseReturn(c)
  BY <1>14 DEF Crash, CloseReturn
<1>15. ~RecoveryNext
  <2>1. rv.pc = "idle" /\ phase \in {"up", "closing"}
    BY DEF WaitInv, Serving
  <2>2. ~New /\ ~OpenTorn
    BY <2>1 DEF New, OpenTorn
  <2>3. ~(RecoverOpen \/ RecoverRecord \/ RecoverFails \/ RecoverSend \/ RecoverLogDone \/ RecoverFinish)
    BY <2>1 DEF RecoverOpen, RecoverRecord, RecoverFails, RecoverSend, RecoverLogDone, RecoverFinish
  <2> QED
    BY <2>2, <2>3 DEF RecoveryNext
<1>16. CASE FlusherNext
  BY <1>4, <1>6, <1>9, <1>16 DEF FlusherNext
<1>17. CASE CompactorNext
  BY <1>7, <1>10, <1>11, <1>12, <1>17 DEF CompactorNext
<1>18. CASE \E c \in Clients : ClientNext(c)
  BY <1>1, <1>3, <1>18
<1> QED
  BY <1>13, <1>14, <1>15, <1>16, <1>17, <1>18 DEF Next

\* What a scan s has still to open, and that its sources are closed and cut off only when
\* tables were removed.
Opens(s) == s.pc \in {"reader", "open", "insert", "seek"}
Closes(s) == \A i \in 1..Len(s.srcs) : s.srcs[i].closed \in BOOLEAN /\ (s.srcs[i].closed => s.removed)

\* A step of the scan that leaves the list of the tables to open.
LEMMA SameList ==
  ASSUME ReaderInv, UNCHANGED vars, NEW t, t = sc', t.todo = sc.todo, t.removed = sc.removed, t.pc # "idle",
         t.cut \in BOOLEAN, t.cut => sc.removed, Closes(t), Opens(t) => Opens(sc),
         starts <= 1 /\ t.pc = "fatal" => sc.removed \/ job.pc = "remove"
  PROVE  ReaderInv'
<1>1. UNCHANGED <<starts, job, levels>>
  BY DEF vars, ctlVars, vsVars, compVars
<1>2. Shelf' = Shelf
  BY <1>1 DEF Shelf, LiveTables, TablesAt
<1> QED
  BY <1>1, <1>2 DEF ReaderInv, Closes, Opens

\* The scan begins with open readers and nothing to open.
LEMMA TakeReads ==
  ASSUME TypeInv, ScanTake
  PROVE  ReaderInv'
<1> DEFINE live == [Source EXCEPT !.live = TRUE]
           old == {[Source EXCEPT !.recs = m] : m \in immt}
           Seqs == {MaxUint64} \cup {sn.seq : sn \in {x \in UNION {snaps[y] : y \in Snaps} : x.quiet}}
           Taken(range, seq) ==
             [NoScan EXCEPT !.pc = "find", !.start = range[1], !.end = range[2], !.seq = seq,
                !.srcs = <<live>> \o SetToSeq(old),
                !.view = [k \in Keys |-> VisibleAt(k, seq)], !.held = Stored, !.hidden = ~NothingHidden]
<1>1. \E range \in Ranges, seq \in Seqs : ScanStep(Taken(range, seq))
  BY DEF ScanTake
<1>2. PICK range \in Ranges, seq \in Seqs : sc' = Taken(range, seq)
  BY <1>1 DEF ScanStep
<1>3. PICK q : q = SetToSeq(old)
  OBVIOUS
<1>4. q \in Seq(old)
  <2>1. \A x, y \in old : x = y
    BY DEF TypeInv, MemTypes
  <2> HIDE DEF old
  <2> QED
    BY <1>3, <2>1, SetToSeqOne
<1>5. PICK t : t = sc'
  OBVIOUS
<1>6. t.pc = "find" /\ t.todo = <<>> /\ t.srcs = <<live>> \o q /\ t.cut = FALSE /\ t.removed = FALSE
  <2> HIDE DEF live, old
  <2> QED
    BY <1>2, <1>3, <1>5 DEF NoScan
<1>7. live.closed = FALSE /\ \A x \in old : x.closed = FALSE
  BY DEF Source
<1> HIDE DEF live, old
<1>8. \A i \in 1..Len(t.srcs) : t.srcs[i] = live \/ t.srcs[i] \in old
  BY <1>4, <1>6
<1>9. t.todo \in Seq({}) /\ Len(t.todo) = 0
  BY <1>6
<1>10. \A i \in 1..Len(t.srcs) : t.srcs[i].closed = FALSE
  BY <1>7, <1>8
<1>11. \A i \in 1..Len(t.todo) : FALSE
  BY <1>9
<1> QED
  BY <1>5, <1>6, <1>9, <1>10, <1>11 DEF ReaderInv

\* Seek on the memtables.
LEMMA FindReads ==
  ASSUME ScanInv, ReaderInv, ScanFind \/ ScanLand
  PROVE  ReaderInv'
<1>1. DOMAIN sc = ScanFields /\ Len(sc.srcs) \in Nat /\ \A i \in 1..Len(sc.srcs) : SourceForm(sc.srcs[i], issued)
  BY DEF ScanInv, ScanOK, ScanForm, Sources, SourceAt
<1>2. CASE ScanFind
  <2>1. PICK p : UNCHANGED vars /\ sc' = [sc EXCEPT !.pc = "land", !.pred = p]
    BY <1>2 DEF ScanFind, ScanStep
  <2>2. PICK t : t = sc'
    OBVIOUS
  <2>3. t.pc = "land" /\ t.todo = sc.todo /\ t.srcs = sc.srcs /\ t.cut = sc.cut /\ t.removed = sc.removed
    BY <1>1, <2>1, <2>2 DEF ScanFields
  <2> QED
    BY <2>1, <2>2, <2>3, SameList DEF ReaderInv, Closes, Opens
<1>3. CASE ScanLand
  <2> DEFINE n == Len(sc.srcs)
             cur(i) == IF i = 1 THEN Behind(RecordsOf(sc.srcs[1]), sc.pred) ELSE FromTarget(sc.srcs[i].recs)
             srcs == [i \in 1..n |-> [sc.srcs[i] EXCEPT !.cur = cur(i)]]
  <2>1. UNCHANGED vars /\ sc' = [sc EXCEPT !.pc = "version", !.pred = {}, !.srcs = srcs]
    BY <1>1, <1>3 DEF ScanLand, ScanStep, ScanFields
  <2>2. PICK t : t = sc'
    OBVIOUS
  <2>3. t.pc = "version" /\ t.todo = sc.todo /\ t.srcs = srcs /\ t.cut = sc.cut /\ t.removed = sc.removed
    <3> HIDE DEF srcs
    <3> QED
      BY <1>1, <2>1, <2>2 DEF ScanFields
  <2>4. Len(t.srcs) = n
    <3>1. srcs = [i \in 1..n |-> srcs[i]]
      OBVIOUS
    <3> HIDE DEF srcs, n
    <3> QED
      BY <1>1, <2>3, <3>1, ListOf DEF n
  <2>5. ASSUME NEW i \in 1..n PROVE t.srcs[i].closed = sc.srcs[i].closed
    <3>1. t.srcs[i] = [sc.srcs[i] EXCEPT !.cur = cur(i)]
      BY <2>3
    <3> HIDE DEF cur, srcs
    <3> QED
      BY <1>1, <3>1 DEF SourceForm
  <2> HIDE DEF srcs
  <2> QED
    BY <2>1, <2>2, <2>3, <2>4, <2>5, SameList DEF ReaderInv, Closes, Opens
<1> QED
  BY <1>2, <1>3

\* The tables that the scan finds are those of the Version.
LEMMA VersionReads ==
  ASSUME TypeInv, ScanInv, ReaderInv, ScanVersion
  PROVE  ReaderInv'
<1> DEFINE hits(l) == Filter(levels[l], {t \in TablesAt(l) : ~(t.max.key < sc.start \/ t.min.key > sc.end)})
           ss == [i \in 1..Bottom + 1 |-> hits(i - 1)]
<1>1. PICK todo : todo = FlattenSeq(ss)
  OBVIOUS
<1>2. DOMAIN sc = ScanFields
  BY DEF ScanInv, ScanOK, ScanForm
<1>3. UNCHANGED vars /\ sc' = [sc EXCEPT !.pc = IF todo = <<>> THEN "advance" ELSE "reader", !.todo = todo, !.srcs = sc.srcs]
  BY <1>1 DEF ScanVersion, ScanTables, ScanStep
<1>4. ASSUME NEW l \in Levels PROVE hits(l) \in Seq(Tables) /\ ToSet(hits(l)) \subseteq TablesAt(l)
  <2>1. levels[l] \in Seq(Tables)
    BY DEF TypeInv, TreeTypes, TreeOf
  <2> QED
    BY <2>1, FilterElements DEF TablesAt
<1> HIDE DEF hits
<1>5. Bottom + 1 \in Nat \ {0} /\ \A i \in 1..Bottom + 1 : i - 1 \in Levels
  BY ConstantTypes DEF Levels
<1>6. ss \in Seq(Seq(Tables)) /\ Len(ss) = Bottom + 1
  BY <1>4, <1>5
<1>7. todo \in Seq(Tables) /\ \A x \in ToSet(todo) : \E i \in 1..Bottom + 1 : x \in ToSet(ss[i])
  BY <1>1, <1>5, <1>6, FlattenElements
<1>8. ASSUME NEW i \in 1..Len(todo) PROVE PathOf(todo[i]) \in Shelf
  <2>1. PICK j \in 1..Bottom + 1 : todo[i] \in ToSet(ss[j])
    BY <1>7, InToSet
  <2>2. ss[j] = hits(j - 1) /\ j - 1 \in Levels
    BY <1>5
  <2>3. todo[i] \in TablesAt(j - 1)
    BY <1>4, <2>1, <2>2
  <2>4. todo[i] \in LiveTables
    BY <2>2, <2>3 DEF LiveTables
  <2> QED
    BY <2>4 DEF Shelf
<1> HIDE DEF ss
<1>9. PICK t : t = sc'
  OBVIOUS
<1>10. /\ t.pc = IF todo = <<>> THEN "advance" ELSE "reader"
       /\ t.todo = todo /\ t.srcs = sc.srcs /\ t.cut = sc.cut /\ t.removed = sc.removed
  BY <1>2, <1>3, <1>9 DEF ScanFields
<1>11. UNCHANGED <<starts, job, levels>>
  BY <1>3 DEF vars, ctlVars, vsVars, compVars
<1>12. Shelf' = Shelf
  BY <1>11 DEF Shelf, LiveTables, TablesAt
<1> QED
  BY <1>7, <1>8, <1>9, <1>10, <1>12 DEF ReaderInv

\* The end of the process.
LEMMA FatalReads ==
  ASSUME ScanInv, ReaderInv, UNCHANGED vars, sc' = [sc EXCEPT !.pc = "fatal"],
         starts <= 1 => sc.removed \/ job.pc = "remove"
  PROVE  ReaderInv'
<1>1. DOMAIN sc = ScanFields
  BY DEF ScanInv, ScanOK, ScanForm
<1>2. PICK t : t = sc'
  OBVIOUS
<1>3. t.pc = "fatal" /\ t.todo = sc.todo /\ t.srcs = sc.srcs /\ t.cut = sc.cut /\ t.removed = sc.removed
  BY <1>1, <1>2 DEF ScanFields
<1> QED
  BY <1>2, <1>3, SameList DEF ReaderInv, Closes, Opens

\* A step that only moves the scan on.
LEMMA MovesReads ==
  ASSUME ScanInv, ReaderInv, UNCHANGED vars, Opens(sc), NEW pc \in {"open", "seek"}, sc' = [sc EXCEPT !.pc = pc]
  PROVE  ReaderInv'
<1>1. DOMAIN sc = ScanFields
  BY DEF ScanInv, ScanOK, ScanForm
<1>2. PICK t : t = sc'
  OBVIOUS
<1>3. t.pc = pc /\ t.todo = sc.todo /\ t.srcs = sc.srcs /\ t.cut = sc.cut /\ t.removed = sc.removed
  BY <1>1, <1>2 DEF ScanFields
<1> QED
  BY <1>2, <1>3, SameList DEF ReaderInv, Closes

\* A table becomes a source, with an open reader.
LEMMA JoinsReads ==
  ASSUME ScanInv, ReaderInv, UNCHANGED vars, Opens(sc), NEW recs, NEW pc \in {"seek", "insert"},
         sc' = [WithReader(recs) EXCEPT !.pc = pc]
  PROVE  ReaderInv'
<1> DEFINE src == [Source EXCEPT !.num = Table.num, !.recs = recs]
<1>1. DOMAIN sc = ScanFields /\ \E S : sc.srcs \in Seq(S)
  BY DEF ScanInv, ScanOK, ScanForm
<1>2. PICK S : sc.srcs \in Seq(S)
  BY <1>1
<1>3. PICK t : t = sc'
  OBVIOUS
<1>4. /\ t.pc = pc /\ t.todo = sc.todo /\ t.srcs = Append(sc.srcs, src) /\ t.cut = sc.cut
      /\ t.removed = sc.removed
  <2>1. WithReader(recs) = [sc EXCEPT !.pc = "seek", !.srcs = Append(sc.srcs, src)]
    BY <1>1 DEF WithReader, ScanFields
  <2> HIDE DEF src
  <2> QED
    BY <1>1, <1>3, <2>1 DEF ScanFields
<1>5. src.closed = FALSE
  BY DEF Source
<1> HIDE DEF src
<1>6. /\ Len(t.srcs) = Len(sc.srcs) + 1
      /\ \A i \in 1..Len(t.srcs) : t.srcs[i] = IF i = Len(t.srcs) THEN src ELSE sc.srcs[i]
      /\ \A i \in 1..Len(t.srcs) : i # Len(t.srcs) => i \in 1..Len(sc.srcs)
  BY <1>2, <1>4
<1>7. ASSUME NEW i \in 1..Len(t.srcs)
      PROVE  t.srcs[i].closed \in BOOLEAN /\ (t.srcs[i].closed => t.removed)
  <2>1. CASE i = Len(t.srcs)
    BY <1>5, <1>6, <2>1
  <2>2. CASE i # Len(t.srcs)
    BY <1>4, <1>6, <2>2 DEF ReaderInv
  <2> QED
    BY <2>1, <2>2
<1> QED
  BY <1>3, <1>4, <1>7, SameList DEF ReaderInv, Closes

\* Until the first restart, and as long as no compaction has come to remove tables, the
\* next table to open can be opened.
LEMMA NextOpens ==
  ASSUME IInv, starts <= 1, ReaderInv, Opens(sc), ~sc.removed, job.pc # "remove"
  PROVE  Readable(<<Table.level, Table.num>>)
<1>1. PICK S : sc.todo \in Seq(S)
  BY DEF ReaderInv
<1>2. sc.todo # <<>> /\ Table = sc.todo[1] /\ 1 \in 1..Len(sc.todo)
  BY <1>1 DEF ReaderInv, Opens, Table
<1>3. PathOf(Table) \in {PathOf(t) : t \in LiveTables}
  BY <1>2 DEF ReaderInv, Shelf
<1>4. PICK t \in LiveTables : PathOf(t) = PathOf(Table)
  BY <1>3
<1>5. Readable(PathOf(t))
  BY DEF IInv, FirstRun, WholeTables, Whole, Listed
<1> QED
  BY <1>4, <1>5 DEF PathOf

\* getReader.
LEMMA ReaderReads ==
  ASSUME IInv, ScanInv, ReaderInv, ScanReader \/ ScanOpen \/ ScanInsert
  PROVE  ReaderInv'
<1>1. DOMAIN sc = ScanFields
  BY DEF ScanInv, ScanOK, ScanForm
<1>2. ASSUME NEW recs PROVE WithReader(recs) = [WithReader(recs) EXCEPT !.pc = "seek"]
  BY <1>1 DEF WithReader, ScanFields
<1>3. CASE ScanReader
  <2>1. sc.pc = "reader" /\ Opens(sc) /\ UNCHANGED vars
    BY <1>3 DEF ScanReader, ScanStep, Opens
  <2>2. \/ job.pc = "remove" /\ sc' = [sc EXCEPT !.pc = "fatal"]
        \/ sc' = WithReader(FileRecords(Table))
        \/ sc' = [sc EXCEPT !.pc = "open"]
    BY <1>3 DEF ScanReader, ScanStep, MapRace
  <2> QED
    BY <1>2, <2>1, <2>2, FatalReads, MovesReads, JoinsReads
<1>4. CASE ScanOpen
  <2> DEFINE path == <<Table.level, Table.num>>
  <2>1. Opens(sc) /\ UNCHANGED vars
    BY <1>4 DEF ScanOpen, ScanStep, Opens
  <2>2. CASE Readable(path)
    <3>1. sc' = [WithReader(files[path]) EXCEPT !.pc = "insert"]
      BY <1>4, <2>2 DEF ScanOpen, ScanStep
    <3> QED
      BY <2>1, <3>1, JoinsReads
  <2>3. CASE ~Readable(path)
    <3>1. sc' = [sc EXCEPT !.pc = "fatal"]
      BY <1>4, <2>3 DEF ScanOpen, ScanStep
    <3>2. starts <= 1 => sc.removed \/ job.pc = "remove"
      BY <2>1, <2>3, NextOpens
    <3> QED
      BY <2>1, <3>1, <3>2, FatalReads
  <2> QED
    BY <2>2, <2>3
<1>5. CASE ScanInsert
  <2>1. Opens(sc) /\ UNCHANGED vars
    BY <1>5 DEF ScanInsert, Opens
  <2>2. (job.pc = "remove" /\ sc' = [sc EXCEPT !.pc = "fatal"]) \/ sc' = [sc EXCEPT !.pc = "seek"]
    BY <1>5 DEF ScanInsert, MapRace
  <2> QED
    BY <2>1, <2>2, FatalReads, MovesReads
<1> QED
  BY <1>3, <1>4, <1>5

\* Seek on a table, which is then no longer to be opened.
LEMMA SeekReads ==
  ASSUME ScanInv, ReaderInv, ScanSeek
  PROVE  ReaderInv'
<1> DEFINE n == Len(sc.srcs)
           cur == FromTarget(sc.srcs[n].recs)
           srcs == [sc.srcs EXCEPT ![n].cur = cur]
           todo == Tail(sc.todo)
<1>1. /\ DOMAIN sc = ScanFields /\ \E S : sc.srcs \in Seq(S)
      /\ \A i \in 1..n : SourceForm(sc.srcs[i], issued)
  BY DEF ScanInv, ScanOK, ScanForm, Sources, SourceAt
<1>2. sc.pc = "seek" /\ n >= 2
  BY DEF ScanSeek, ScanInv, ScanOK, ScanForm
<1>3. PICK S : sc.srcs \in Seq(S)
  BY <1>1
<1>4. n \in 1..n
  <2>1. n \in Nat
    BY <1>3
  <2> HIDE DEF n
  <2> QED
    BY <1>2, <2>1
<1>5. CASE sc.srcs[n].closed /\ ScanStep([sc EXCEPT !.pc = "fatal"])
  <2>1. sc.removed /\ UNCHANGED vars /\ sc' = [sc EXCEPT !.pc = "fatal"]
    BY <1>4, <1>5 DEF ReaderInv, ScanStep
  <2> QED
    BY <2>1, FatalReads
<1>6. CASE ScanTables(todo, srcs)
  <2>1. PICK T : sc.todo \in Seq(T)
    BY DEF ReaderInv
  <2>2. sc.todo # <<>>
    BY <1>2 DEF ReaderInv
  <2>3. /\ todo \in Seq(T) /\ Len(todo) = Len(sc.todo) - 1
        /\ \A i \in 1..Len(todo) : i + 1 \in 1..Len(sc.todo) /\ todo[i] = sc.todo[i + 1]
    BY <2>1, <2>2
  <2> HIDE DEF todo
  <2>4. PICK x : x = [sc.srcs[n] EXCEPT !.cur = cur]
    OBVIOUS
  <2>5. Len(srcs) = n /\ \A i \in 1..n : srcs[i] = IF i = n THEN x ELSE sc.srcs[i]
    <3>1. srcs = [sc.srcs EXCEPT ![n] = x]
      BY <1>3, <1>4, <2>4
    <3> HIDE DEF srcs
    <3> QED
      BY <1>3, <1>4, <3>1
  <2>6. x.closed = sc.srcs[n].closed
    <3> HIDE DEF cur
    <3> QED
      BY <1>1, <1>4, <2>4 DEF SourceForm
  <2> HIDE DEF srcs
  <2>7. /\ sc' = [sc EXCEPT !.pc = IF todo = <<>> THEN "advance" ELSE "reader", !.todo = todo, !.srcs = srcs]
        /\ UNCHANGED vars
    BY <1>6 DEF ScanTables, ScanStep
  <2>8. PICK t : t = sc'
    OBVIOUS
  <2>9. /\ t.pc = IF todo = <<>> THEN "advance" ELSE "reader"
        /\ t.todo = todo /\ t.srcs = srcs /\ t.cut = sc.cut /\ t.removed = sc.removed
    BY <1>1, <2>7, <2>8 DEF ScanFields
  <2> HIDE DEF n
  <2>10. \A i \in 1..Len(t.srcs) : i \in 1..n /\ t.srcs[i].closed = sc.srcs[i].closed
    BY <2>5, <2>6, <2>9
  <2>11. \A i \in 1..Len(t.srcs) : t.srcs[i].closed \in BOOLEAN /\ (t.srcs[i].closed => t.removed)
    BY <2>9, <2>10 DEF ReaderInv, n
  <2>12. UNCHANGED <<starts, job, levels>>
    BY <2>7 DEF vars, ctlVars, vsVars, compVars
  <2>13. Shelf' = Shelf
    BY <2>12 DEF Shelf, LiveTables, TablesAt
  <2>14. ~t.removed => \A i \in 1..Len(t.todo) : PathOf(t.todo[i]) \in Shelf
    BY <2>3, <2>9 DEF ReaderInv
  <2>15. t.removed \in BOOLEAN /\ t.cut \in BOOLEAN /\ (t.cut => t.removed)
    BY <2>9 DEF ReaderInv
  <2> QED
    BY <2>3, <2>8, <2>9, <2>11, <2>13, <2>14, <2>15 DEF ReaderInv
<1> QED
  BY <1>5, <1>6 DEF ScanSeek

\* An iterator is cut off only when its reader was closed.
LEMMA PopReads ==
  ASSUME TypeInv, ScanInv, ReaderInv, ScanPop
  PROVE  ReaderInv'
<1>1. PICK i \in Tops :
        LET rec == CurOf(i)
            src == sc.srcs[i]
            nexts == {Behind(RecordsOf(src), src.cur)} \cup (IF src.closed THEN {{}} ELSE {})
        IN /\ sc.key = {rec.key} \/ (sc.key = {} /\ rec.key < sc.end)
           /\ \E next \in nexts :
                ScanStep([sc EXCEPT !.key = {rec.key}, !.best = Collect(rec), !.srcs[i].cur = next,
                                    !.cut = @ \/ next # Behind(RecordsOf(src), src.cur)])
  BY DEF ScanPop
<1> DEFINE b == Behind(RecordsOf(sc.srcs[i]), sc.srcs[i].cur)
<1>2. PICK next \in {b} \cup (IF sc.srcs[i].closed THEN {{}} ELSE {}) :
        ScanStep([sc EXCEPT !.key = {CurOf(i).key}, !.best = Collect(CurOf(i)), !.srcs[i].cur = next,
                            !.cut = @ \/ next # b])
  BY <1>1
<1>3. next # b => sc.srcs[i].closed
  BY <1>2
<1> HIDE DEF b
<1>4. i \in 1..Len(sc.srcs)
  BY DEF Tops, Heap
<1>5. sc.pc = "advance" /\ DOMAIN sc = ScanFields /\ SourceForm(sc.srcs[i], issued) /\ \E S : sc.srcs \in Seq(S)
  BY <1>4 DEF ScanPop, ScanInv, ScanOK, ScanForm, Sources, SourceAt
<1>6. PICK S : sc.srcs \in Seq(S)
  BY <1>5
<1>7. PICK x : x = [sc.srcs[i] EXCEPT !.cur = next]
  OBVIOUS
<1>8. x.closed = sc.srcs[i].closed
  BY <1>5, <1>7 DEF SourceForm
<1>9. PICK cut \in BOOLEAN : cut <=> (sc.cut \/ next # b)
  OBVIOUS
<1>10. UNCHANGED vars /\ sc' = [sc EXCEPT !.key = {CurOf(i).key}, !.best = Collect(CurOf(i)), !.srcs[i].cur = next,
                                          !.cut = sc.cut \/ next # b]
  BY <1>2, <1>5 DEF ScanStep, ScanFields
<1>11. cut = (sc.cut \/ next # b)
  BY <1>9 DEF ReaderInv
<1>12. sc' = [sc EXCEPT !.key = {CurOf(i).key}, !.best = Collect(CurOf(i)), !.srcs[i].cur = next, !.cut = cut]
  BY <1>10, <1>11
<1>13. sc' = [sc EXCEPT !.key = {CurOf(i).key}, !.best = Collect(CurOf(i)), !.srcs = [sc.srcs EXCEPT ![i] = x],
                        !.cut = cut]
  BY <1>4, <1>5, <1>6, <1>7, <1>12 DEF ScanFields
<1>14. PICK t : t = sc'
  OBVIOUS
<1>15. /\ t.pc = "advance" /\ t.todo = sc.todo /\ t.srcs = [sc.srcs EXCEPT ![i] = x] /\ t.cut = cut
       /\ t.removed = sc.removed
  BY <1>5, <1>13, <1>14 DEF ScanFields
<1>16. Len(t.srcs) = Len(sc.srcs) /\ \A j \in 1..Len(sc.srcs) : t.srcs[j] = IF j = i THEN x ELSE sc.srcs[j]
  BY <1>4, <1>6, <1>15
<1>17. Closes(t)
  <2>1. \A j \in 1..Len(sc.srcs) : t.srcs[j].closed = sc.srcs[j].closed
    BY <1>8, <1>16
  <2> QED
    BY <1>15, <1>16, <2>1 DEF Closes, ReaderInv
<1>18. cut => sc.removed
  BY <1>3, <1>4, <1>9 DEF ReaderInv
<1> QED
  BY <1>10, <1>14, <1>15, <1>17, <1>18, SameList DEF Opens

\* A key is returned, or the scan is at its end.
LEMMA EmitReads ==
  ASSUME ScanInv, ReaderInv, ScanEmit \/ ScanEnd
  PROVE  ReaderInv'
<1>1. DOMAIN sc = ScanFields
  BY DEF ScanInv, ScanOK, ScanForm
<1>2. CASE ScanEmit
  <2>1. PICK out : UNCHANGED vars /\ sc.pc = "advance" /\ sc' = [sc EXCEPT !.key = {}, !.best = {}, !.out = out]
    BY <1>1, <1>2 DEF ScanEmit, ScanStep, ScanFields
  <2>2. PICK t : t = sc'
    OBVIOUS
  <2>3. t.pc = "advance" /\ t.todo = sc.todo /\ t.srcs = sc.srcs /\ t.cut = sc.cut /\ t.removed = sc.removed
    BY <1>1, <2>1, <2>2 DEF ScanFields
  <2> QED
    BY <2>1, <2>2, <2>3, SameList DEF ReaderInv, Closes, Opens
<1>3. CASE ScanEnd
  <2>1. UNCHANGED vars /\ sc' = [sc EXCEPT !.pc = "end", !.srcs = <<>>]
    BY <1>3 DEF ScanEnd, ScanStep
  <2>2. PICK t : t = sc'
    OBVIOUS
  <2>3. t.pc = "end" /\ t.todo = sc.todo /\ t.srcs = <<>> /\ t.cut = sc.cut /\ t.removed = sc.removed
    BY <1>1, <2>1, <2>2 DEF ScanFields
  <2>4. Closes(t)
    BY <2>3 DEF Closes
  <2> QED
    BY <2>1, <2>2, <2>3, <2>4, SameList DEF ReaderInv, Opens
<1> QED
  BY <1>2, <1>3

\* A step of the engine beside the scan.
LEMMA FollowReads ==
  ASSUME TypeInv, WaitInv, ScanInv, ReaderInv, [Next]_vars, Follow, sc.pc \notin {"fatal", "end"}
  PROVE  ReaderInv'
<1>1. CASE phase' = "down"
  <2>1. sc' = NoScan
    BY <1>1 DEF Follow
  <2>2. sc'.todo = <<>> /\ sc'.srcs = <<>> /\ sc'.pc = "idle" /\ sc'.removed = FALSE /\ sc'.cut = FALSE
    BY <2>1 DEF NoScan
  <2>3. sc'.todo \in Seq({}) /\ (\A i \in 1..Len(sc'.todo) : FALSE) /\ (\A i \in 1..Len(sc'.srcs) : FALSE)
    BY <2>2
  <2> QED
    BY <2>2, <2>3 DEF ReaderInv
<1>2. CASE phase' # "down"
  <2> DEFINE n == Len(sc.srcs)
             closed(i) == Frozen(sc.srcs[i]).closed \/ (HasCached(i) /\ sc.srcs[i].num \in Removing)
             srcs == [i \in 1..n |-> [Frozen(sc.srcs[i]) EXCEPT !.closed = closed(i)]]
             removed == sc.removed \/ (sc.pc # "idle" /\ Removing # {})
  <2>1. /\ DOMAIN sc = ScanFields /\ n \in Nat /\ \A i \in 1..n : SourceForm(sc.srcs[i], issued)
        /\ sc.pc = "idle" => n = 0
    BY DEF ScanInv, ScanOK, ScanForm, Sources, SourceAt
  <2>2. sc' = [sc EXCEPT !.removed = removed, !.srcs = srcs]
    <3>1. sc' = [sc EXCEPT !.removed = @ \/ (sc.pc # "idle" /\ Removing # {}), !.srcs = srcs]
      BY <1>2, Zenon DEF Follow
    <3> HIDE DEF srcs
    <3> QED
      BY <2>1, <3>1 DEF ScanFields
  <2>3. removed \in BOOLEAN
    OBVIOUS
  <2>4. PICK t : t = sc'
    OBVIOUS
  <2>5. t.pc = sc.pc /\ t.todo = sc.todo /\ t.srcs = srcs /\ t.cut = sc.cut /\ t.removed = removed
    <3> HIDE DEF srcs, removed
    <3> QED
      BY <2>1, <2>2, <2>4 DEF ScanFields
  <2>6. Len(t.srcs) = n
    <3>1. srcs = [i \in 1..n |-> srcs[i]]
      OBVIOUS
    <3> HIDE DEF srcs, n
    <3> QED
      BY <2>1, <2>5, <3>1, ListOf
  <2>7. ASSUME NEW i \in 1..n PROVE t.srcs[i].closed \in BOOLEAN /\ (t.srcs[i].closed => removed)
    <3>1. t.srcs[i] = [Frozen(sc.srcs[i]) EXCEPT !.closed = closed(i)]
      BY <2>5
    <3>2. DOMAIN sc.srcs[i] = {"live", "num", "recs", "closed", "cur"}
      BY <2>1 DEF SourceForm
    <3>3. DOMAIN Frozen(sc.srcs[i]) = {"live", "num", "recs", "closed", "cur"} /\ Frozen(sc.srcs[i]).closed = sc.srcs[i].closed
      BY <3>2 DEF Frozen
    <3>4. closed(i) \in BOOLEAN
      OBVIOUS
    <3>5. closed(i) => removed
      <4>1. sc.pc # "idle"
        BY <2>1
      <4> QED
        BY <3>3, <4>1 DEF ReaderInv
    <3> HIDE DEF closed, removed, srcs
    <3> QED
      BY <3>1, <3>3, <3>4, <3>5
  <2>8. ASSUME ~removed, sc.pc # "idle" PROVE Shelf \subseteq Shelf'
    <3>1. Serving
      BY <2>8 DEF ScanInv
    <3>2. ASSUME job.pc = "remove", job'.pc = "done", job.all # <<>> PROVE FALSE
      <4>1. Removing = {}
        BY <2>8
      <4>2. job.all \in Seq(Tables)
        BY DEF TypeInv, Jobs
      <4>3. job.all[1] \in ToSet(job.all)
        BY <3>2, <4>2, InToSet
      <4> QED
        BY <3>2, <4>1, <4>3 DEF Removing
    <3> QED
      BY <1>2, <3>1, <3>2, ShelfStep
  <2>9. ASSUME ~removed, NEW i \in 1..Len(sc.todo) PROVE PathOf(sc.todo[i]) \in Shelf'
    <3>1. CASE sc.pc = "idle"
      BY <2>9, <3>1 DEF ReaderInv
    <3>2. CASE sc.pc # "idle"
      BY <2>8, <2>9, <3>2 DEF ReaderInv
    <3> QED
      BY <3>1, <3>2
  <2>10. sc.removed => removed
    OBVIOUS
  <2> HIDE DEF removed, srcs, n
  <2>11. t.removed \in BOOLEAN /\ t.cut \in BOOLEAN /\ (t.cut => t.removed)
    BY <2>3, <2>5, <2>10 DEF ReaderInv
  <2>12. \A i \in 1..Len(t.srcs) : t.srcs[i].closed \in BOOLEAN /\ (t.srcs[i].closed => t.removed)
    BY <2>5, <2>6, <2>7
  <2>13. ~t.removed => \A i \in 1..Len(t.todo) : PathOf(t.todo[i]) \in Shelf'
    BY <2>5, <2>9
  <2> QED
    BY <2>4, <2>5, <2>11, <2>12, <2>13 DEF ReaderInv
<1> QED
  BY <1>1, <1>2

\* Every step keeps it.
LEMMA ReaderStep ==
  ASSUME IInv, WaitInv, ScanInv, ReaderInv, [NextBeside]_allVars
  PROVE  ReaderInv'
<1>1. TypeInv
  BY DEF IInv
<1>2. CASE ScanNext /\ ~GetReader
  BY <1>1, <1>2, TakeReads, FindReads, VersionReads, ReaderReads, SeekReads, PopReads, EmitReads DEF ScanNext
<1>3. CASE sc.pc \notin {"fatal", "end"} /\ Next /\ Follow
  BY <1>1, <1>3, FollowReads
<1>4. CASE UNCHANGED <<vars, sc>>
  <2>1. UNCHANGED <<starts, job, levels, sc>>
    BY <1>4 DEF vars, ctlVars, vsVars, compVars
  <2>2. Shelf' = Shelf
    BY <2>1 DEF Shelf, LiveTables, TablesAt
  <2> QED
    BY <2>1, <2>2 DEF ReaderInv
<1>5. GetReader \/ Over \/ UNCHANGED allVars => UNCHANGED <<vars, sc>>
  BY DEF GetReader, Over, allVars, scanVars
<1> QED
  BY <1>2, <1>3, <1>4, <1>5 DEF NextBeside

\* At first there is no scan.
LEMMA ReaderInit == ASSUME ScanInit PROVE ReaderInv
<1>1. sc = NoScan
  BY DEF ScanInit
<1>2. sc.todo = <<>> /\ sc.srcs = <<>> /\ sc.pc = "idle" /\ sc.removed = FALSE /\ sc.cut = FALSE
  BY <1>1 DEF NoScan
<1>3. sc.todo \in Seq({}) /\ (\A i \in 1..Len(sc.todo) : FALSE) /\ (\A i \in 1..Len(sc.srcs) : FALSE)
  BY <1>2
<1> QED
  BY <1>2, <1>3 DEF ReaderInv

\* Until the first restart a scan ends the process, or loses the rest of a table, only when
\* a compaction removes tables during it: whatever clients, rotations, flushes and failing
\* file operations come in between, every table that it has found in the Version and not
\* yet opened is a complete file until then.
THEOREM ScanIsUndisturbed == SpecBeside => [](starts <= 1 => ScanDisturbed)
<1>1. ScanInit => IInv /\ ReaderInv
  BY InitFirst, ReaderInit DEF ScanInit
<1>2. TypeInv /\ WaitInv /\ ScanInv /\ IInv /\ ReaderInv /\ [NextBeside]_allVars => (IInv /\ ReaderInv)'
  BY BesideEngine, NextIInv, ReaderStep
<1>3. ReaderInv => (starts <= 1 => ScanDisturbed)
  BY DEF ReaderInv, ScanDisturbed
<1> QED
  BY <1>1, <1>2, <1>3, ScanInvariant, PTL DEF SpecBeside
=============================================================================
