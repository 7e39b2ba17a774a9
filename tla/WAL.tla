--------------------------------- MODULE WAL ---------------------------------
(***************************************************************************)
(* One write-ahead log (internal/wal/wal.go): the goroutines that submit,  *)
(* the committer that writes and fsyncs their requests in groups, the      *)
(* interval syncer, Sync and Close.                                        *)
(*                                                                         *)
(* A request is the encoded records of one Append or AppendBatch; each is  *)
(* submitted once.  w.mu protects sections that are single steps here; the *)
(* committer does not take it.                                             *)
(***************************************************************************)
EXTENDS Integers, Sequences

CONSTANTS
  Reqs,        \* the requests
  ChanCap,     \* capacity of commitCh (256 in the code)
  MayFail      \* BOOLEAN: may writes and fsyncs fail?

ASSUME WALConstants ==
  /\ ChanCap \in Nat \ {0}
  /\ MayFail \in BOOLEAN

VARIABLES
  mode,        \* opts.Mode, "SyncBatch" or "SyncNone": how the log was opened
  pc,          \* where each request is: "new", "checked", "sent", "ok", "err"
  ch,          \* commitCh
  closed,      \* w.closed; commitCh and closeCh are closed with it
  com,         \* program point of the committer
  reqs, err,   \* the committer's group and the error it has met
  file,        \* the requests in the file
  synced,      \* length of the part of the file that is on disk
  closer,      \* program point of Close
  alive        \* the process has neither crashed nor panicked

vars == <<mode, pc, ch, closed, com, reqs, err, file, synced, closer, alive>>
committer == <<com, reqs, err>>

Elems(s) == {s[i] : i \in 1..Len(s)}

\* Open: with SyncBatch the committer runs.
Init ==
  /\ mode \in {"SyncBatch", "SyncNone"}
  /\ pc = [r \in Reqs |-> "new"]
  /\ ch = <<>> /\ closed = "no"
  /\ com = (IF mode = "SyncBatch" THEN "recv" ELSE "exit") /\ reqs = <<>> /\ err = "nil"
  /\ file = <<>> /\ synced = 0
  /\ closer = "idle" /\ alive = "yes"

----------------------------------------------------------------------------
\* submit, SyncBatch: w.closed is looked at under w.mu ...
Check(r) ==
  /\ alive = "yes" /\ mode = "SyncBatch" /\ pc[r] = "new"
  /\ pc' = [pc EXCEPT ![r] = IF closed = "yes" THEN "err" ELSE "checked"]
  /\ UNCHANGED <<ch, closed, committer, file, synced, closer, alive>>

\* ... and the request is sent after the unlock.
Send(r) ==
  /\ alive = "yes" /\ pc[r] = "checked" /\ closed = "no" /\ Len(ch) < ChanCap
  /\ pc' = [pc EXCEPT ![r] = "sent"]
  /\ ch' = Append(ch, r)
  /\ UNCHANGED <<closed, committer, file, synced, closer, alive>>

\* Sending on a channel that Close has closed in between panics.
Panic(r) ==
  /\ alive = "yes" /\ pc[r] = "checked" /\ closed = "yes"
  /\ alive' = "no"
  /\ UNCHANGED <<pc, ch, closed, committer, file, synced, closer>>

\* submit, SyncNone: written under w.mu, not fsynced.  A failing write may leave part
\* of the request in the file.
SubmitNone(r) ==
  /\ alive = "yes" /\ mode = "SyncNone" /\ pc[r] = "new"
  /\ \/ /\ closed = "yes"
        /\ pc' = [pc EXCEPT ![r] = "err"] /\ UNCHANGED file
     \/ /\ closed = "no"
        /\ pc' = [pc EXCEPT ![r] = "ok"] /\ file' = Append(file, r)
     \/ /\ closed = "no" /\ MayFail
        /\ pc' = [pc EXCEPT ![r] = "err"] /\ file' \in {file, Append(file, r)}
  /\ UNCHANGED <<ch, closed, committer, synced, closer, alive>>

\* The interval syncer, and Sync, which does not look at w.closed.
FileSync ==
  /\ alive = "yes" /\ closer # "done"
  /\ synced' = Len(file)
  /\ UNCHANGED <<pc, ch, closed, committer, file, closer, alive>>

----------------------------------------------------------------------------
\* committer: the first request of a group.
Recv ==
  /\ alive = "yes" /\ com = "recv" /\ ch # <<>>
  /\ com' = "drain" /\ reqs' = <<Head(ch)>> /\ ch' = Tail(ch) /\ err' = "nil"
  /\ UNCHANGED <<pc, closed, file, synced, closer, alive>>

\* Mutant: a committer that has met an error does not end.
ExitUnlessError ==
  /\ alive = "yes" /\ com = "recv" /\ ch = <<>> /\ closed = "yes" /\ err = "nil"
  /\ com' = "exit"
  /\ UNCHANGED <<pc, ch, closed, reqs, err, file, synced, closer, alive>>

\* The channel is closed and empty: the committer ends.
Exit ==
  /\ alive = "yes" /\ com = "recv" /\ ch = <<>> /\ closed = "yes"
  /\ com' = "exit"
  /\ UNCHANGED <<pc, ch, closed, reqs, err, file, synced, closer, alive>>

\* The requests that have arrived in the meantime join the group.
Drain ==
  /\ alive = "yes" /\ com = "drain"
  /\ IF ch # <<>>
     THEN reqs' = Append(reqs, Head(ch)) /\ ch' = Tail(ch) /\ UNCHANGED com
     ELSE com' = "write" /\ UNCHANGED <<reqs, ch>>
  /\ UNCHANGED <<pc, closed, err, file, synced, closer, alive>>

\* Mutant: a write that fails cuts the file back to what is on disk.
WriteRollsBack ==
  /\ alive = "yes" /\ com = "write"
  /\ \/ com' = "sync" /\ file' = file \o reqs /\ UNCHANGED err
     \/ MayFail /\ com' = "answer" /\ err' = "error" /\ file' = SubSeq(file, 1, synced)
  /\ UNCHANGED <<pc, ch, closed, reqs, synced, closer, alive>>

\* Mutant: a write that fails half-way is tried again.
WriteRetries ==
  /\ alive = "yes" /\ com = "write"
  /\ \/ com' = "sync" /\ file' = file \o reqs
     \/ UNCHANGED com /\ file' = Append(file, Head(reqs)) /\ Len(file) < 4
  /\ UNCHANGED <<pc, ch, closed, reqs, err, synced, closer, alive>>

\* One write for the group; a failing one may leave part of it in the file.
Write ==
  /\ alive = "yes" /\ com = "write"
  /\ \/ com' = "sync" /\ file' = file \o reqs /\ UNCHANGED err
     \/ /\ MayFail /\ com' = "answer" /\ err' = "error"
        /\ \E n \in 0..Len(reqs) : file' = file \o SubSeq(reqs, 1, n)
  /\ UNCHANGED <<pc, ch, closed, reqs, synced, closer, alive>>

\* Mutant: the fsync is credited with one request more than the file holds.
FsyncAhead ==
  /\ alive = "yes" /\ com = "sync"
  /\ com' = "answer" /\ synced' = Len(file) + 1
  /\ UNCHANGED <<pc, ch, closed, reqs, err, file, closer, alive>>

\* Mutant: no fsync.
SkipFsync ==
  /\ alive = "yes" /\ com = "sync"
  /\ com' = "answer" /\ UNCHANGED <<synced, err>>
  /\ UNCHANGED <<pc, ch, closed, reqs, file, closer, alive>>

\* One fsync for the group.
Fsync ==
  /\ alive = "yes" /\ com = "sync"
  /\ com' = "answer"
  /\ \/ synced' = Len(file) /\ UNCHANGED err
     \/ MayFail /\ err' = "error" /\ UNCHANGED synced
  /\ UNCHANGED <<pc, ch, closed, reqs, file, closer, alive>>

\* Mutant: the committer gives up on an error.
AnswerOkOnly ==
  /\ alive = "yes" /\ com = "answer" /\ err = "nil"
  /\ pc' = [r \in Reqs |-> IF r \in Elems(reqs) THEN "ok" ELSE pc[r]]
  /\ com' = "recv" /\ reqs' = <<>>
  /\ UNCHANGED <<ch, closed, err, file, synced, closer, alive>>

\* Every request of the group gets the group's result.
Answer ==
  /\ alive = "yes" /\ com = "answer"
  /\ pc' = [r \in Reqs |-> IF r \in Elems(reqs) THEN IF err = "error" THEN "err" ELSE "ok" ELSE pc[r]]
  /\ com' = "recv" /\ reqs' = <<>>
  /\ UNCHANGED <<ch, closed, err, file, synced, closer, alive>>

----------------------------------------------------------------------------
\* Close: the channels are closed under w.mu; then it waits for the committer.
CloseBegin ==
  /\ alive = "yes" /\ closer = "idle"
  /\ closer' = "wait" /\ closed' = "yes"
  /\ UNCHANGED <<pc, ch, committer, file, synced, alive>>

\* Mutant: Close does not wait.
CloseNoWait ==
  /\ alive = "yes" /\ closer = "wait"
  /\ closer' = "done" /\ synced' = Len(file)
  /\ UNCHANGED <<pc, ch, closed, committer, file, alive>>

\* The committer has ended: fsync and close the file.  If the fsync fails Close
\* returns its error and leaves the file open.
CloseEnd ==
  /\ alive = "yes" /\ closer = "wait" /\ com = "exit"
  /\ \/ closer' = "done" /\ synced' = Len(file)
     \/ MayFail /\ closer' = "failed" /\ UNCHANGED synced
  /\ UNCHANGED <<pc, ch, closed, committer, file, alive>>

\* The machine stops; what is not on disk may be lost.
Crash ==
  /\ alive = "yes"
  /\ alive' = "no"
  /\ \E n \in synced..Len(file) : file' = SubSeq(file, 1, n)
  /\ UNCHANGED <<pc, ch, closed, committer, synced, closer>>

\* Every request is answered, or the process is gone.
Finished ==
  /\ alive = "no" \/ (closer \in {"done", "failed"} /\ \A r \in Reqs : pc[r] \in {"ok", "err"})
  /\ UNCHANGED vars

Submit(r) == Check(r) \/ Send(r) \/ Panic(r) \/ SubmitNone(r)
Committer == Recv \/ Exit \/ Drain \/ Write \/ Fsync \/ Answer
CloseNext == CloseBegin \/ CloseEnd

Next ==
  /\ UNCHANGED mode
  /\ (\E r \in Reqs : Submit(r)) \/ FileSync \/ Committer \/ CloseNext \/ Crash \/ Finished

Spec == Init /\ [][Next]_vars

\* Goroutines that can run do; nobody has to call Close or Sync.
Fairness ==
  /\ WF_vars(Committer /\ UNCHANGED mode) /\ WF_vars(CloseEnd /\ UNCHANGED mode)
  /\ \A r \in Reqs : WF_vars(Submit(r) /\ UNCHANGED mode)
FairSpec == Spec /\ Fairness

----------------------------------------------------------------------------
\* The types, and what the committer holds at each of its points.
TypeOK ==
  /\ mode \in {"SyncBatch", "SyncNone"}
  /\ pc \in [Reqs -> {"new", "checked", "sent", "ok", "err"}]
  /\ ch \in Seq(Reqs) /\ reqs \in Seq(Reqs) /\ file \in Seq(Reqs)
  /\ synced \in 0..Len(file)
  /\ com \in {"recv", "drain", "write", "sync", "answer", "exit"}
  /\ closer \in {"idle", "wait", "done", "failed"}
  /\ closed \in {"yes", "no"} /\ err \in {"nil", "error"} /\ alive \in {"yes", "no"}

\* Group commit blocks until fsync: in mode SyncBatch a request whose submit has
\* returned without error is in the part of the file that is on disk, whatever
\* other groups, failures and a crash do.
AckedSynced ==
  mode = "SyncBatch" => \A r \in Reqs : pc[r] = "ok" => \E i \in 1..synced : file[i] = r

\* Nothing is written twice: a request is in the channel, in the committer's
\* group or in the file, at one place.
WrittenOnce == \A i, j \in 1..Len(file) : file[i] = file[j] => i = j

\* Close waits for the group in progress and for the queue: when it returns, no
\* request that was accepted is still waiting for its answer; and when it returns
\* without an error every acknowledged one is on disk, in either mode.
CloseDrains ==
  alive = "yes" /\ closer \in {"done", "failed"} =>
    \A r \in Reqs : /\ pc[r] # "sent"
                    /\ closer = "done" /\ pc[r] = "ok" => \E i \in 1..synced : file[i] = r

\* Nothing that has been written is moved or removed while the process lives.
AppendOnly ==
  [][alive' = "yes" => Len(file) <= Len(file') /\ \A i \in 1..Len(file) : file'[i] = file[i]]_vars

\* Every request that has been accepted by submit is answered while the process
\* lives, whatever Close does.
Answered == \A r \in Reqs : pc[r] = "sent" ~> (pc[r] \in {"ok", "err"} \/ alive = "no")

\* Close returns, with or without an error.
CloseReturns == closer = "wait" ~> (closer # "wait" \/ alive = "no")

\* A request that meets a closed log gets an error: no submit is left that will
\* send on the closed channel.
NoPanic == alive = "yes" /\ closed = "yes" => \A r \in Reqs : pc[r] # "checked"
=============================================================================
