------------------------------ MODULE WALProofs ------------------------------
(***************************************************************************)
(* Proofs about the write-ahead log, for every set of requests and every   *)
(* capacity of the commit channel.                                         *)
(***************************************************************************)
EXTENDS WAL, TLAPS

\* Appending a group keeps the file and adds the group behind it.
LEMMA ConcatFacts ==
  ASSUME NEW S, NEW s \in Seq(S), NEW t \in Seq(S)
  PROVE  /\ s \o t \in Seq(S)
         /\ Len(s \o t) = Len(s) + Len(t)
         /\ \A i \in 1..Len(s) : (s \o t)[i] = s[i]
         /\ \A i \in 1..Len(t) : (s \o t)[Len(s) + i] = t[i]
OBVIOUS

\* A prefix of a file.
LEMMA PrefixFacts ==
  ASSUME NEW S, NEW s \in Seq(S), NEW n \in 0..Len(s)
  PROVE  /\ SubSeq(s, 1, n) \in Seq(S)
         /\ Len(SubSeq(s, 1, n)) = n
         /\ \A i \in 1..n : SubSeq(s, 1, n)[i] = s[i]
OBVIOUS

\* Taking the first request from the channel, and adding one behind a sequence.
LEMMA TailAppendFacts ==
  ASSUME NEW S, NEW s \in Seq(S), NEW e \in S
  PROVE  /\ s # <<>> => /\ Head(s) \in S /\ Head(s) = s[1] /\ Tail(s) \in Seq(S)
                        /\ Len(s) \in Nat \ {0} /\ Len(Tail(s)) = Len(s) - 1
                        /\ \A i \in 1..Len(Tail(s)) : Tail(s)[i] = s[i + 1]
         /\ Append(s, e) \in Seq(S)
         /\ Len(Append(s, e)) = Len(s) + 1
         /\ \A i \in 1..Len(s) : Append(s, e)[i] = s[i]
         /\ Append(s, e)[Len(s) + 1] = e
OBVIOUS

\* Every step keeps the types.
LEMMA TypeStep == TypeOK /\ [Next]_vars => TypeOK'
<1> SUFFICES ASSUME TypeOK, [Next]_vars PROVE TypeOK'
  OBVIOUS
<1>m. mode' = mode
  BY DEF Next, vars
<1> USE <1>m DEF TypeOK, committer
<1>1. ASSUME NEW r \in Reqs, Check(r) PROVE TypeOK'
  BY <1>1 DEF Check
<1>2. ASSUME NEW r \in Reqs, Send(r) PROVE TypeOK'
  BY <1>2, TailAppendFacts DEF Send
<1>3. ASSUME NEW r \in Reqs, Panic(r) PROVE TypeOK'
  BY <1>3 DEF Panic
<1>4. ASSUME NEW r \in Reqs, SubmitNone(r) PROVE TypeOK'
  <2>1. file' \in Seq(Reqs) /\ synced' \in 0..Len(file')
    <3>1. Append(file, r) \in Seq(Reqs) /\ Len(Append(file, r)) = Len(file) + 1
      BY TailAppendFacts
    <3>2. file' = Append(file, r) \/ file' = file
      BY <1>4 DEF SubmitNone
    <3>3. synced' = synced
      BY <1>4 DEF SubmitNone
    <3>4. Len(file') >= Len(file) /\ file' \in Seq(Reqs)
      <4>1. Len(file) \in Nat
        OBVIOUS
      <4>2. CASE file' = file
        BY <4>1, <4>2
      <4>3. CASE file' = Append(file, r)
        BY <3>1, <4>1, <4>3
      <4> QED
        BY <3>2, <4>2, <4>3
    <3> QED
      BY <3>3, <3>4
  <2>2. pc' \in [Reqs -> {"new", "checked", "sent", "ok", "err"}]
    BY <1>4 DEF SubmitNone
  <2> QED
    BY <1>4, <2>1, <2>2 DEF SubmitNone
<1>5. CASE FileSync
  BY <1>5 DEF FileSync
<1>6. CASE Recv
  BY <1>6 DEF Recv
<1>7. CASE Exit
  BY <1>7 DEF Exit
<1>8. CASE Drain
  <2>1. reqs' \in Seq(Reqs) /\ ch' \in Seq(Reqs)
    <3>1. CASE ch = <<>>
      BY <1>8, <3>1 DEF Drain
    <3>2. CASE ch # <<>>
      <4>1. Head(ch) \in Reqs /\ Tail(ch) \in Seq(Reqs)
        BY <3>2
      <4>2. Append(reqs, Head(ch)) \in Seq(Reqs)
        BY <4>1, TailAppendFacts
      <4> QED
        BY <1>8, <3>2, <4>1, <4>2 DEF Drain
    <3> QED
      BY <3>1, <3>2
  <2> QED
    BY <1>8, <2>1 DEF Drain
<1>9. CASE Write
  <2>1. file' \in Seq(Reqs) /\ Len(file') >= Len(file)
    <3>1. \E g \in Seq(Reqs) : file' = file \o g
      BY <1>9, PrefixFacts DEF Write
    <3> QED
      BY <3>1, ConcatFacts
  <2>2. synced' \in 0..Len(file')
    BY <1>9, <2>1 DEF Write
  <2> QED
    BY <1>9, <2>1, <2>2 DEF Write
<1>10. CASE Fsync
  BY <1>10 DEF Fsync
<1>11. CASE Answer
  BY <1>11 DEF Answer
<1>12. CASE CloseNext
  BY <1>12 DEF CloseNext, CloseBegin, CloseEnd
<1>13. CASE Crash
  BY <1>13, PrefixFacts DEF Crash
<1>14. CASE UNCHANGED vars
  BY <1>14 DEF vars
<1> QED
  BY <1>1, <1>2, <1>3, <1>4, <1>5, <1>6, <1>7, <1>8, <1>9, <1>10, <1>11, <1>12, <1>13, <1>14
  DEF Next, Submit, Committer, Finished

\* Every program point, channel, group and file has its type in every reachable
\* state (wal.go as a whole).
THEOREM TypeCorrect == Spec => []TypeOK
<1>1. Init => TypeOK
  BY WALConstants DEF Init, TypeOK
<1> QED
  BY <1>1, TypeStep, PTL DEF Spec

----------------------------------------------------------------------------
\* The strengthening: a group that is written and not yet fsynced is in the file,
\* and a group about to be told of success is in the part that is on disk.
InFile(r, n) == \E i \in 1..n : file[i] = r
GroupWritten == alive = "yes" /\ com = "sync" => \A j \in 1..Len(reqs) : InFile(reqs[j], Len(file))
GroupSynced  == alive = "yes" /\ com = "answer" /\ err = "nil" =>
                  \A j \in 1..Len(reqs) : InFile(reqs[j], synced)
CommitInv == TypeOK /\ GroupWritten /\ GroupSynced /\ AckedSynced

\* A step keeps the part of the file that is on disk, and does not shrink it.
KeepsSynced == synced \in Nat /\ synced' \in Nat /\ synced <= synced' /\ \A i \in 1..synced : file'[i] = file[i]

\* What is on disk stays on disk: every step keeps the fsynced part of the file.
LEMMA SyncedKept == TypeOK /\ [Next]_vars => KeepsSynced
<1> SUFFICES ASSUME TypeOK, [Next]_vars PROVE KeepsSynced
  OBVIOUS
<1> USE DEF TypeOK, committer, KeepsSynced
<1>1. ASSUME NEW r \in Reqs, Submit(r) PROVE KeepsSynced
  <2>1. synced' = synced
    BY <1>1 DEF Submit, Check, Send, Panic, SubmitNone
  <2>2. file' = file \/ file' = Append(file, r)
    BY <1>1 DEF Submit, Check, Send, Panic, SubmitNone
  <2>3. \A i \in 1..Len(file) : Append(file, r)[i] = file[i]
    BY TailAppendFacts
  <2>4. synced \in Nat /\ 1..synced \subseteq 1..Len(file)
    OBVIOUS
  <2>5. \A i \in 1..synced : file'[i] = file[i]
    <3>1. CASE file' = file
      BY <3>1
    <3>2. CASE file' = Append(file, r)
      BY <2>3, <2>4, <3>2
    <3> QED
      BY <2>2, <3>1, <3>2
  <2> QED
    BY <2>1, <2>4, <2>5
<1>2. CASE Write
  <2>1. \E g \in Seq(Reqs) : file' = file \o g
    BY <1>2, PrefixFacts DEF Write
  <2>2. \A i \in 1..Len(file) : file'[i] = file[i]
    BY <2>1, ConcatFacts
  <2>3. synced' = synced
    BY <1>2 DEF Write
  <2> QED
    BY <2>2, <2>3
<1>3. CASE Crash
  <2>1. PICK n \in synced..Len(file) : file' = SubSeq(file, 1, n)
    BY <1>3 DEF Crash
  <2>2. \A i \in 1..n : file'[i] = file[i]
    BY <2>1, PrefixFacts
  <2>3. synced' = synced
    BY <1>3 DEF Crash
  <2> QED
    BY <2>1, <2>2, <2>3
<1>4. CASE FileSync \/ Fsync \/ CloseEnd
  BY <1>4 DEF FileSync, Fsync, CloseEnd
<1>5. CASE Recv \/ Exit \/ Drain \/ Answer \/ CloseBegin \/ UNCHANGED vars
  <2>1. UNCHANGED <<file, synced>>
    BY <1>5 DEF Recv, Exit, Drain, Answer, CloseBegin, vars
  <2> QED
    BY <2>1
<1> QED
  BY <1>1, <1>2, <1>3, <1>4, <1>5 DEF Next, Committer, CloseNext, Finished

\* A step of a living process keeps what is in the file, on disk or not.
KeepsFile == Len(file) <= Len(file') /\ \A i \in 1..Len(file) : file'[i] = file[i]

\* Every step of a living process keeps the file.
LEMMA FileKept == TypeOK /\ [Next]_vars /\ alive' = "yes" => KeepsFile
<1> SUFFICES ASSUME TypeOK, [Next]_vars, alive' = "yes" PROVE KeepsFile
  OBVIOUS
<1> USE DEF TypeOK, committer, KeepsFile
<1>1. ASSUME NEW r \in Reqs, Submit(r) PROVE KeepsFile
  <2>1. file' = file \/ file' = Append(file, r)
    BY <1>1 DEF Submit, Check, Send, Panic, SubmitNone
  <2>2. Len(Append(file, r)) = Len(file) + 1 /\ \A i \in 1..Len(file) : Append(file, r)[i] = file[i]
    BY TailAppendFacts
  <2>3. Len(file) \in Nat
    OBVIOUS
  <2>4. CASE file' = file
    BY <2>3, <2>4
  <2>5. CASE file' = Append(file, r)
    BY <2>2, <2>3, <2>5
  <2> QED
    BY <2>1, <2>4, <2>5
<1>2. CASE Write
  <2>1. \E g \in Seq(Reqs) : file' = file \o g
    BY <1>2, PrefixFacts DEF Write
  <2> QED
    BY <2>1, ConcatFacts
<1>3. CASE Crash
  BY <1>3 DEF Crash
<1>4. CASE FileSync \/ Recv \/ Exit \/ Drain \/ Fsync \/ Answer \/ CloseNext \/ UNCHANGED vars
  <2>1. file' = file
    BY <1>4 DEF FileSync, Recv, Exit, Drain, Fsync, Answer, CloseNext, CloseBegin, CloseEnd, vars
  <2> QED
    BY <2>1
<1> QED
  BY <1>1, <1>2, <1>3, <1>4 DEF Next, Committer, Finished

\* Whatever the committer, the submitters and Close do, nothing that has been
\* written to the log is moved or removed while the process lives (committer and
\* submit write at the end of a file opened with O_APPEND).
THEOREM AppendOnlyHolds == Spec => AppendOnly
<1>1. TypeOK /\ [Next]_vars => [alive' = "yes" => KeepsFile]_vars
  BY FileKept
<1> QED
  BY <1>1, TypeCorrect, PTL DEF Spec, AppendOnly, KeepsFile

----------------------------------------------------------------------------
\* A request that is on disk is still on disk after a step.
LEMMA StaysSynced ==
  ASSUME TypeOK, [Next]_vars, NEW r, InFile(r, synced)
  PROVE  \E i \in 1..synced' : file'[i] = r
<1>1. KeepsSynced
  BY SyncedKept
<1>2. PICK i \in 1..synced : file[i] = r
  BY DEF InFile
<1>3. i \in 1..synced' /\ file'[i] = r
  BY <1>1, <1>2 DEF KeepsSynced
<1> QED
  BY <1>3

\* A request that is in the file is still there after a step of a living process.
LEMMA StaysInFile ==
  ASSUME TypeOK, [Next]_vars, alive' = "yes", NEW r, InFile(r, Len(file))
  PROVE  \E i \in 1..Len(file') : file'[i] = r
<1>1. KeepsFile
  BY FileKept
<1>2. PICK i \in 1..Len(file) : file[i] = r
  BY DEF InFile
<1>3. Len(file) \in Nat /\ Len(file') \in Nat
  BY TypeStep DEF TypeOK
<1>4. i \in 1..Len(file') /\ file'[i] = r
  BY <1>1, <1>2, <1>3 DEF KeepsFile
<1> QED
  BY <1>4

\* Every step keeps the strengthened invariant.
LEMMA CommitStep == CommitInv /\ [Next]_vars => CommitInv'
<1> SUFFICES ASSUME CommitInv, [Next]_vars PROVE CommitInv'
  OBVIOUS
<1>t. TypeOK /\ TypeOK'
  BY TypeStep DEF CommitInv
\* The group stays written until it is fsynced; one write puts it there.
<1>1. GroupWritten'
  <2> SUFFICES ASSUME alive' = "yes", com' = "sync", NEW j \in 1..Len(reqs')
               PROVE  \E i \in 1..Len(file') : file'[i] = reqs'[j]
    BY DEF GroupWritten, InFile
  <2>1. CASE com = "sync" /\ reqs' = reqs
    <3>1. alive = "yes"
      BY <2>1 DEF Next, Submit, Check, Send, Panic, SubmitNone, FileSync, Committer, Recv, Exit,
                  Drain, Write, Fsync, Answer, CloseNext, CloseBegin, CloseEnd, Crash, Finished, vars
    <3>2. InFile(reqs[j], Len(file))
      BY <2>1, <3>1 DEF CommitInv, GroupWritten
    <3> QED
      BY <1>t, <2>1, <3>2, StaysInFile
  <2>2. CASE Write
    <3>1. file' = file \o reqs /\ reqs' = reqs
      BY <2>2 DEF Write
    <3>t. file \in Seq(Reqs) /\ reqs \in Seq(Reqs) /\ j \in 1..Len(reqs)
      BY <1>t, <3>1 DEF TypeOK
    <3>2. Len(file') = Len(file) + Len(reqs) /\ file'[Len(file) + j] = reqs[j]
      BY <3>t, <3>1, ConcatFacts
    <3>3. Len(file) \in Nat /\ Len(reqs) \in Nat
      BY <1>t DEF TypeOK
    <3>4. Len(file) + j \in 1..Len(file')
      BY <3>1, <3>2, <3>3
    <3> QED
      BY <3>1, <3>2, <3>4
  <2> QED
    BY <2>1, <2>2 DEF Next, Submit, Check, Send, Panic, SubmitNone, FileSync, Committer, committer,
          Recv, Exit, Drain, Fsync, Answer, CloseNext, CloseBegin, CloseEnd, Crash, Finished, vars
\* A successful fsync covers the group; what is fsynced stays.
<1>2. GroupSynced'
  <2> SUFFICES ASSUME alive' = "yes", com' = "answer", err' = "nil", NEW j \in 1..Len(reqs')
               PROVE  \E i \in 1..synced' : file'[i] = reqs'[j]
    BY DEF GroupSynced, InFile
  <2>1. CASE com = "answer" /\ err = "nil" /\ reqs' = reqs
    <3>1. alive = "yes"
      BY <2>1 DEF Next, Submit, Check, Send, Panic, SubmitNone, FileSync, Committer, Recv, Exit,
                  Drain, Write, Fsync, Answer, CloseNext, CloseBegin, CloseEnd, Crash, Finished, vars
    <3>2. InFile(reqs[j], synced)
      BY <2>1, <3>1 DEF CommitInv, GroupSynced
    <3> QED
      BY <1>t, <2>1, <3>2, StaysSynced
  <2>2. CASE Fsync
    <3>1. com = "sync" /\ alive = "yes" /\ reqs' = reqs /\ file' = file
      BY <2>2 DEF Fsync
    <3>2. InFile(reqs[j], Len(file))
      BY <3>1 DEF CommitInv, GroupWritten
    <3>3. synced' = Len(file) \/ (err' = "error" /\ synced' = synced)
      BY <2>2 DEF Fsync
    <3> QED
      BY <3>1, <3>2, <3>3 DEF InFile
  <2> QED
    BY <2>1, <2>2 DEF Next, Submit, Check, Send, Panic, SubmitNone, FileSync, Committer, committer,
          Recv, Exit, Drain, Write, Answer, CloseNext, CloseBegin, CloseEnd, Crash, Finished, vars
\* A request becomes acknowledged by the answer to its group only.
<1>3. AckedSynced'
  <2> SUFFICES ASSUME mode = "SyncBatch", NEW r \in Reqs, pc'[r] = "ok"
               PROVE  \E i \in 1..synced' : file'[i] = r
    BY DEF AckedSynced, Next, vars
  <2>1. CASE pc[r] = "ok"
    <3>1. InFile(r, synced)
      BY <2>1 DEF CommitInv, AckedSynced, InFile
    <3> QED
      BY <1>t, <3>1, StaysSynced
  <2>2. CASE pc[r] # "ok"
    <3>1. Answer
      BY <1>t, <2>2 DEF TypeOK, Next, Submit, Check, Send, Panic, SubmitNone, FileSync, Committer,
            Recv, Exit, Drain, Write, Fsync, CloseNext, CloseBegin, CloseEnd, Crash, Finished, vars
    <3>2. err # "error" /\ r \in Elems(reqs) /\ com = "answer" /\ alive = "yes"
      BY <2>2, <3>1 DEF Answer
    <3>3. PICK j \in 1..Len(reqs) : reqs[j] = r
      BY <3>2 DEF Elems
    <3>4. InFile(r, synced)
      BY <1>t, <3>2, <3>3 DEF CommitInv, GroupSynced, TypeOK
    <3> QED
      BY <1>t, <3>4, StaysSynced
  <2> QED
    BY <2>1, <2>2
<1> QED
  BY <1>t, <1>1, <1>2, <1>3 DEF CommitInv

\* Group commit blocks until fsync: a request that submit has acknowledged is on
\* disk, for any number of goroutines and requests, any capacity of commitCh, and
\* whatever writes and fsyncs fail, Close does, or a crash takes.
THEOREM GroupCommitDurable == Spec => []AckedSynced
<1>1. Init => CommitInv
  BY WALConstants DEF Init, CommitInv, TypeOK, GroupWritten, GroupSynced, AckedSynced
<1>2. CommitInv => AckedSynced
  BY DEF CommitInv
<1> QED
  BY <1>1, <1>2, CommitStep, PTL DEF Spec

----------------------------------------------------------------------------
\* Where a request can be.  Behind the channel, in the committer's group and in
\* the file no request stands twice; what is in the channel or in the group has
\* been sent and not been answered, is in one of the two only, and is not in the
\* file until the group is written; what is in the file was sent by its submitter.
Distinct(s) == \A i, j \in 1..Len(s) : s[i] = s[j] => i = j
Disjoint(s, t) == \A i \in 1..Len(s), j \in 1..Len(t) : s[i] # t[j]
AllSent(s) == \A i \in 1..Len(s) : pc[s[i]] = "sent"
FileSent == \A i \in 1..Len(file) : pc[file[i]] \notin {"new", "checked"}
PlaceInv ==
  /\ Distinct(ch) /\ Distinct(reqs) /\ Distinct(file)
  /\ AllSent(ch) /\ AllSent(reqs) /\ FileSent
  /\ Disjoint(ch, reqs) /\ Disjoint(ch, file)
  /\ com \in {"drain", "write"} => Disjoint(reqs, file)
  /\ com \in {"recv", "exit"} => reqs = <<>>
OnceInv == TypeOK /\ PlaceInv

\* What distinctness and disjointness become when a sequence grows or shrinks.
LEMMA DistinctFacts ==
  ASSUME NEW S, NEW s \in Seq(S), NEW t \in Seq(S)
  PROVE  /\ Distinct(s) /\ s # <<>> => Distinct(Tail(s)) /\ Disjoint(Tail(s), <<Head(s)>>)
         /\ Disjoint(s, t) /\ s # <<>> => Disjoint(Tail(s), t) /\ Disjoint(<<Head(s)>>, t)
         /\ Distinct(s) /\ Distinct(t) /\ Disjoint(s, t) => Distinct(s \o t)
<1>0. ASSUME s # <<>>
      PROVE  /\ Len(s) \in Nat \ {0} /\ Len(Tail(s)) = Len(s) - 1 /\ Head(s) = s[1]
             /\ \A i \in 1..Len(Tail(s)) : Tail(s)[i] = s[i + 1]
             /\ Len(<<Head(s)>>) = 1 /\ <<Head(s)>>[1] = Head(s)
  BY <1>0
<1>1. ASSUME Distinct(s), s # <<>> PROVE Distinct(Tail(s)) /\ Disjoint(Tail(s), <<Head(s)>>)
  BY <1>0, <1>1 DEF Distinct, Disjoint
<1>2. ASSUME Disjoint(s, t), s # <<>> PROVE Disjoint(Tail(s), t) /\ Disjoint(<<Head(s)>>, t)
  BY <1>0, <1>2 DEF Disjoint
<1>3. ASSUME Distinct(s), Distinct(t), Disjoint(s, t) PROVE Distinct(s \o t)
  <2>1. SUFFICES ASSUME NEW i \in 1..Len(s \o t), NEW j \in 1..Len(s \o t),
                        (s \o t)[i] = (s \o t)[j]
                 PROVE  i = j
    BY DEF Distinct
  <2>2. Len(s) \in Nat /\ Len(t) \in Nat /\ Len(s \o t) = Len(s) + Len(t)
    BY ConcatFacts
  <2>3. ASSUME NEW k \in 1..Len(s \o t)
        PROVE  \/ k \in 1..Len(s) /\ (s \o t)[k] = s[k]
               \/ k - Len(s) \in 1..Len(t) /\ (s \o t)[k] = t[k - Len(s)]
    <3>1. k \in 1..Len(s) \/ k - Len(s) \in 1..Len(t)
      BY <2>2
    <3>2. ASSUME k - Len(s) \in 1..Len(t) PROVE (s \o t)[k] = t[k - Len(s)]
      <4>1. (s \o t)[Len(s) + (k - Len(s))] = t[k - Len(s)]
        BY <3>2, ConcatFacts
      <4> QED
        BY <2>2, <4>1
    <3> QED
      BY <3>1, <3>2, ConcatFacts
  <2>4. CASE i \in 1..Len(s) /\ j \in 1..Len(s)
    BY <1>3, <2>1, <2>4, ConcatFacts DEF Distinct
  <2>5. CASE i - Len(s) \in 1..Len(t) /\ (s \o t)[i] = t[i - Len(s)]
             /\ j - Len(s) \in 1..Len(t) /\ (s \o t)[j] = t[j - Len(s)]
    <3>1. i - Len(s) = j - Len(s)
      BY <1>3, <2>1, <2>5 DEF Distinct
    <3> QED
      BY <2>2, <3>1
  <2> QED
    BY <1>3, <2>1, <2>3, <2>4, <2>5 DEF Disjoint
<1> QED
  BY <1>1, <1>2, <1>3

\* A prefix of a sequence is no more than the sequence.
LEMMA PrefixDistinct ==
  ASSUME NEW S, NEW s \in Seq(S), NEW n \in 0..Len(s), NEW t \in Seq(S)
  PROVE  /\ Distinct(s) => Distinct(SubSeq(s, 1, n))
         /\ Disjoint(s, t) => Disjoint(SubSeq(s, 1, n), t)
         /\ Disjoint(t, s) => Disjoint(t, SubSeq(s, 1, n))
BY PrefixFacts DEF Distinct, Disjoint

\* A request that is new to both is added behind one of two sequences.
LEMMA AppendDistinct ==
  ASSUME NEW S, NEW s \in Seq(S), NEW t \in Seq(S), NEW e \in S,
         \A i \in 1..Len(s) : s[i] # e, \A i \in 1..Len(t) : t[i] # e
  PROVE  /\ Distinct(s) => Distinct(Append(s, e))
         /\ Disjoint(s, t) => Disjoint(Append(s, e), t)
         /\ Disjoint(t, s) => Disjoint(t, Append(s, e))
<1> DEFINE a == Append(s, e)
<1>1. \A i \in 1..Len(a) : (i \in 1..Len(s) /\ a[i] = s[i]) \/ (i = Len(s) + 1 /\ a[i] = e)
  BY TailAppendFacts
<1> HIDE DEF a
<1>2. Distinct(s) => Distinct(a)
  BY <1>1 DEF Distinct
<1>3. (Disjoint(s, t) => Disjoint(a, t)) /\ (Disjoint(t, s) => Disjoint(t, a))
  BY <1>1 DEF Disjoint
<1> QED
  BY <1>2, <1>3 DEF a

\* Every step keeps the places of the requests.
LEMMA PlaceStep == OnceInv /\ [Next]_vars => OnceInv'
<1> SUFFICES ASSUME OnceInv, [Next]_vars PROVE PlaceInv'
  BY TypeStep DEF OnceInv
<1>t. TypeOK /\ TypeOK'
  BY TypeStep DEF OnceInv
<1>s. /\ ch \in Seq(Reqs) /\ reqs \in Seq(Reqs) /\ file \in Seq(Reqs)
      /\ Len(ch) \in Nat /\ Len(reqs) \in Nat /\ Len(file) \in Nat
      /\ pc \in [Reqs -> {"new", "checked", "sent", "ok", "err"}]
      /\ \A i \in 1..Len(ch) : ch[i] \in Reqs
      /\ \A i \in 1..Len(reqs) : reqs[i] \in Reqs
      /\ \A i \in 1..Len(file) : file[i] \in Reqs
  BY <1>t DEF TypeOK
<1>p. PlaceInv
  BY DEF OnceInv
<1>1. ASSUME NEW r \in Reqs, Check(r) PROVE PlaceInv'
  <2>1. UNCHANGED <<ch, reqs, file, com>>
    BY <1>1 DEF Check, committer
  <2>2. \A q \in Reqs : pc[q] \notin {"new"} => pc'[q] = pc[q]
    BY <1>1, <1>s DEF Check
  <2>3. AllSent(ch)' /\ AllSent(reqs)'
    BY <1>s, <1>p, <2>1, <2>2 DEF PlaceInv, AllSent
  <2>4. FileSent'
    <3>1. ASSUME NEW i \in 1..Len(file) PROVE pc'[file[i]] \notin {"new", "checked"}
      <4>1. file[i] \in Reqs /\ pc[file[i]] \notin {"new", "checked"}
        BY <1>s, <1>p DEF PlaceInv, FileSent
      <4> QED
        BY <2>2, <4>1
    <3> QED
      BY <2>1, <3>1 DEF FileSent
  <2> QED
    BY <1>p, <2>1, <2>3, <2>4 DEF PlaceInv, Distinct, Disjoint
\* The request is in none of the three: its submitter has only looked so far.
<1>2. ASSUME NEW r \in Reqs, Send(r) PROVE PlaceInv'
  <2>1. UNCHANGED <<reqs, file, com>> /\ ch' = Append(ch, r) /\ pc[r] = "checked"
    BY <1>2 DEF Send, committer
  <2>2. pc'[r] = "sent" /\ \A q \in Reqs : q # r => pc'[q] = pc[q]
    BY <1>2, <1>s DEF Send
  <2>3. /\ Len(ch') = Len(ch) + 1 /\ ch'[Len(ch) + 1] = r
        /\ \A i \in 1..Len(ch) : ch'[i] = ch[i]
    BY <1>s, <2>1, TailAppendFacts
  <2>4. /\ \A i \in 1..Len(ch) : ch[i] # r
        /\ \A i \in 1..Len(reqs) : reqs[i] # r
        /\ \A i \in 1..Len(file) : file[i] # r
    BY <1>p, <2>1 DEF PlaceInv, AllSent, FileSent
  <2>5. AllSent(ch)'
    <3>1. ASSUME NEW i \in 1..Len(ch) PROVE pc'[ch'[i]] = "sent"
      <4>1. ch[i] \in Reqs /\ pc[ch[i]] = "sent" /\ ch[i] # r /\ ch'[i] = ch[i]
        BY <1>s, <1>p, <2>3, <2>4 DEF PlaceInv, AllSent
      <4> QED
        BY <2>2, <4>1
    <3>2. \A i \in 1..Len(ch') : i \in 1..Len(ch) \/ i = Len(ch) + 1
      BY <1>s, <2>3
    <3>3. \A i \in 1..Len(ch') : pc'[ch'[i]] = "sent"
      BY <2>2, <2>3, <3>1, <3>2
    <3> QED
      BY <3>3 DEF AllSent
  <2>6. Distinct(ch') /\ Disjoint(ch', reqs) /\ Disjoint(ch', file)
    BY <1>s, <1>p, <2>1, <2>4, AppendDistinct DEF PlaceInv
  <2>7. AllSent(reqs)' /\ FileSent'
    BY <1>s, <1>p, <2>1, <2>2 DEF PlaceInv, AllSent, FileSent
  <2> QED
    BY <1>p, <2>1, <2>5, <2>6, <2>7 DEF PlaceInv, Distinct, Disjoint
<1>3. ASSUME NEW r \in Reqs, SubmitNone(r) PROVE PlaceInv'
  <2>1. UNCHANGED <<ch, reqs, com>> /\ pc[r] = "new"
    BY <1>3 DEF SubmitNone, committer
  <2>2. /\ pc'[r] \in {"ok", "err"} /\ \A q \in Reqs : q # r => pc'[q] = pc[q]
        /\ file' = file \/ file' = Append(file, r)
    BY <1>3, <1>s DEF SubmitNone
  <2>3. /\ \A i \in 1..Len(ch) : ch[i] # r
        /\ \A i \in 1..Len(reqs) : reqs[i] # r
        /\ \A i \in 1..Len(file) : file[i] # r
    BY <1>p, <2>1 DEF PlaceInv, AllSent, FileSent
  <2>4. AllSent(ch)' /\ AllSent(reqs)'
    BY <1>s, <1>p, <2>1, <2>2, <2>3 DEF PlaceInv, AllSent
  <2>5. Distinct(file') /\ FileSent' /\ Disjoint(ch, file') /\ (com \in {"drain", "write"} => Disjoint(reqs, file'))
    <3>1. CASE file' = file
      BY <1>s, <1>p, <2>2, <2>3, <3>1 DEF PlaceInv, Distinct, FileSent
    <3>2. CASE file' = Append(file, r)
      <4>1. /\ Len(file') = Len(file) + 1 /\ file'[Len(file) + 1] = r
            /\ \A i \in 1..Len(file) : file'[i] = file[i]
        BY <1>s, <3>2, TailAppendFacts
      <4>2. FileSent'
        BY <1>s, <1>p, <2>2, <2>3, <4>1 DEF PlaceInv, FileSent
      <4>3. /\ Distinct(file') /\ Disjoint(ch, file')
            /\ com \in {"drain", "write"} => Disjoint(reqs, file')
        BY <1>s, <1>p, <2>3, <3>2, AppendDistinct DEF PlaceInv
      <4> QED
        BY <4>2, <4>3
    <3> QED
      BY <2>2, <3>1, <3>2
  <2> QED
    BY <1>p, <2>1, <2>4, <2>5 DEF PlaceInv, Distinct, Disjoint
\* From the channel into the group: the first of a new group ...
<1>4. CASE Recv
  <2>1. /\ UNCHANGED <<pc, file>> /\ com' = "drain" /\ ch # <<>>
        /\ reqs' = <<Head(ch)>> /\ ch' = Tail(ch)
    BY <1>4 DEF Recv
  <2>2. /\ Len(ch) \in Nat \ {0} /\ Head(ch) = ch[1] /\ Len(Tail(ch)) = Len(ch) - 1
        /\ \A i \in 1..Len(Tail(ch)) : Tail(ch)[i] = ch[i + 1]
        /\ Len(<<Head(ch)>>) = 1 /\ <<Head(ch)>>[1] = Head(ch)
    BY <1>s, <2>1
  <2>3. Distinct(ch') /\ Disjoint(ch', reqs') /\ Disjoint(ch', file) /\ Disjoint(reqs', file)
    BY <1>s, <1>p, <2>1, DistinctFacts DEF PlaceInv
  <2>4. AllSent(ch)' /\ AllSent(reqs)' /\ Distinct(reqs')
    BY <1>p, <2>1, <2>2 DEF PlaceInv, AllSent, Distinct
  <2> QED
    BY <1>p, <2>1, <2>3, <2>4 DEF PlaceInv, Distinct, Disjoint, FileSent
\* ... and those that join it.
<1>5. CASE Drain /\ ch # <<>>
  <2>1. /\ UNCHANGED <<pc, file>> /\ com' = "drain" /\ com = "drain"
        /\ reqs' = Append(reqs, Head(ch)) /\ ch' = Tail(ch)
    BY <1>5 DEF Drain
  <2>2. /\ Len(ch) \in Nat \ {0} /\ Head(ch) = ch[1] /\ Len(Tail(ch)) = Len(ch) - 1 /\ Head(ch) \in Reqs
        /\ \A i \in 1..Len(Tail(ch)) : Tail(ch)[i] = ch[i + 1]
    BY <1>s, <1>5
  <2>3. /\ Len(reqs') = Len(reqs) + 1 /\ reqs'[Len(reqs) + 1] = ch[1]
        /\ \A i \in 1..Len(reqs) : reqs'[i] = reqs[i]
    BY <1>s, <2>1, <2>2, TailAppendFacts
  <2>4. Distinct(ch') /\ Disjoint(ch', file) /\ AllSent(ch)'
    BY <1>s, <1>p, <2>1, <2>2 DEF PlaceInv, Distinct, Disjoint, AllSent
  <2>5. Distinct(reqs') /\ AllSent(reqs)'
    BY <1>s, <1>p, <2>1, <2>2, <2>3 DEF PlaceInv, Distinct, Disjoint, AllSent
  <2>6. Disjoint(ch', reqs') /\ Disjoint(reqs', file)
    BY <1>s, <1>p, <2>1, <2>2, <2>3 DEF PlaceInv, Distinct, Disjoint
  <2> QED
    BY <1>p, <2>1, <2>4, <2>5, <2>6 DEF PlaceInv, Distinct, Disjoint, FileSent
<1>6. CASE Drain /\ ch = <<>>
  <2>1. UNCHANGED <<pc, file, ch, reqs>> /\ com' = "write" /\ com = "drain"
    BY <1>6 DEF Drain
  <2> QED
    BY <1>p, <2>1 DEF PlaceInv, Distinct, Disjoint, AllSent, FileSent
\* The group, or the part a failing write leaves, goes behind the file.
<1>7. CASE Write
  <2>1. UNCHANGED <<pc, ch, reqs>> /\ com = "write" /\ com' \in {"sync", "answer"}
    BY <1>7 DEF Write
  <2>2. PICK n \in 0..Len(reqs) : file' = file \o SubSeq(reqs, 1, n)
    <3>1. SubSeq(reqs, 1, Len(reqs)) = reqs /\ Len(reqs) \in 0..Len(reqs)
      BY <1>s
    <3> QED
      BY <1>7, <3>1 DEF Write
  <2> DEFINE g == SubSeq(reqs, 1, n)
  <2>3. g \in Seq(Reqs) /\ Len(g) = n /\ \A i \in 1..n : g[i] = reqs[i]
    BY <1>s, PrefixFacts
  <2>4. Distinct(g) /\ Disjoint(file, g) /\ Disjoint(ch, g)
    <3>1. Disjoint(file, reqs) /\ Disjoint(ch, reqs) /\ Distinct(reqs)
      BY <1>p, <2>1 DEF PlaceInv, Disjoint
    <3> QED
      BY <1>s, <3>1, PrefixDistinct
  <2> HIDE DEF g
  <2>5. /\ Len(file') = Len(file) + Len(g)
        /\ \A i \in 1..Len(file) : file'[i] = file[i]
        /\ \A i \in 1..Len(g) : file'[Len(file) + i] = g[i]
    BY <1>s, <2>2, <2>3, ConcatFacts DEF g
  <2>6. Distinct(file')
    BY <1>s, <1>p, <2>2, <2>3, <2>4, DistinctFacts DEF PlaceInv, g
  <2>7. ASSUME NEW k \in 1..Len(file')
        PROVE  (\E i \in 1..Len(file) : file'[k] = file[i]) \/ (\E i \in 1..Len(g) : file'[k] = g[i])
    <3>1. Len(g) \in Nat /\ Len(file) \in Nat
      BY <1>s, <2>3
    <3>2. CASE k \in 1..Len(file)
      BY <2>5, <3>2
    <3>3. CASE k \notin 1..Len(file)
      <4>1. k - Len(file) \in 1..Len(g) /\ k = Len(file) + (k - Len(file))
        BY <2>5, <3>1, <3>3
      <4>2. file'[Len(file) + (k - Len(file))] = g[k - Len(file)]
        BY <2>5, <4>1
      <4> QED
        BY <4>1, <4>2
    <3> QED
      BY <3>2, <3>3
  <2>8. Disjoint(ch, file')
    BY <1>p, <2>4, <2>7 DEF PlaceInv, Disjoint
  <2>9. FileSent'
    <3>1. \A i \in 1..Len(g) : pc[g[i]] = "sent"
      BY <1>s, <1>p, <2>3 DEF PlaceInv, AllSent
    <3>2. \A k \in 1..Len(file') : pc[file'[k]] \notin {"new", "checked"}
      BY <1>p, <2>7, <3>1 DEF PlaceInv, FileSent
    <3> QED
      BY <2>1, <3>2 DEF FileSent
  <2>10. AllSent(ch)' /\ AllSent(reqs)'
    BY <1>p, <2>1 DEF PlaceInv, AllSent
  <2> QED
    BY <1>p, <2>1, <2>6, <2>8, <2>9, <2>10 DEF PlaceInv, Distinct, Disjoint
<1>8. CASE Answer
  <2>1. UNCHANGED <<ch, file>> /\ com' = "recv" /\ reqs' = <<>>
    BY <1>8 DEF Answer
  <2>2. \A q \in Reqs : pc'[q] = pc[q] \/ (q \in Elems(reqs) /\ pc'[q] \in {"ok", "err"})
    BY <1>8 DEF Answer
  <2>3. AllSent(ch)'
    BY <1>s, <1>p, <2>1, <2>2 DEF PlaceInv, AllSent, Disjoint, Elems
  <2>4. FileSent'
    BY <1>s, <1>p, <2>1, <2>2 DEF PlaceInv, FileSent
  <2>5. Len(reqs') = 0
    BY <2>1
  <2> QED
    BY <1>p, <2>1, <2>3, <2>4, <2>5 DEF PlaceInv, Distinct, Disjoint, AllSent
<1>9. CASE Fsync
  <2>1. UNCHANGED <<pc, file, ch, reqs>> /\ com' = "answer"
    BY <1>9 DEF Fsync
  <2> QED
    BY <1>p, <2>1 DEF PlaceInv, Distinct, Disjoint, AllSent, FileSent
<1>10. CASE Exit
  <2>1. UNCHANGED <<pc, file, ch, reqs>> /\ com' = "exit" /\ com = "recv"
    BY <1>10 DEF Exit
  <2> QED
    BY <1>p, <2>1 DEF PlaceInv, Distinct, Disjoint, AllSent, FileSent
\* A crash leaves a prefix of the file.
<1>11. CASE Crash
  <2>1. PICK n \in 0..Len(file) : file' = SubSeq(file, 1, n)
    BY <1>11, <1>t DEF Crash, TypeOK
  <2>2. UNCHANGED <<pc, ch, reqs, com>>
    BY <1>11 DEF Crash, committer
  <2>3. Len(file') = n /\ \A i \in 1..n : file'[i] = file[i]
    BY <1>s, <2>1, PrefixFacts
  <2>4. FileSent' /\ AllSent(ch)' /\ AllSent(reqs)'
    BY <1>s, <1>p, <2>2, <2>3 DEF PlaceInv, AllSent, FileSent
  <2>5. /\ Distinct(file') /\ Disjoint(ch, file')
        /\ com \in {"drain", "write"} => Disjoint(reqs, file')
    BY <1>s, <1>p, <2>1, PrefixDistinct DEF PlaceInv
  <2> QED
    BY <1>p, <2>2, <2>4, <2>5 DEF PlaceInv, Distinct, Disjoint
<1>12. CASE UNCHANGED <<pc, file, ch, reqs, com>>
  BY <1>p, <1>12 DEF PlaceInv, Distinct, Disjoint, AllSent, FileSent
<1>13. ASSUME NEW r \in Reqs, Panic(r) PROVE UNCHANGED <<pc, file, ch, reqs, com>>
  BY <1>13 DEF Panic, committer
<1>14. CASE FileSync \/ CloseNext \/ UNCHANGED vars
  <2>1. UNCHANGED <<pc, file, ch, reqs, com>>
    BY <1>14 DEF FileSync, CloseNext, CloseBegin, CloseEnd, committer, vars
  <2> QED
    BY <1>12, <2>1
<1> QED
  BY <1>1, <1>2, <1>3, <1>4, <1>5, <1>6, <1>7, <1>8, <1>9, <1>10, <1>11, <1>12, <1>13, <1>14
  DEF Next, Submit, Committer, Finished

\* No request is written to the log twice, whatever groups, failing writes and
\* crashes there are (submit sends a request once, committer writes a group once).
THEOREM WrittenOnceHolds == Spec => []WrittenOnce
<1>1. Init => OnceInv
  BY WALConstants DEF Init, OnceInv, TypeOK, PlaceInv, Distinct, Disjoint, AllSent, FileSent
<1>2. OnceInv => WrittenOnce
  BY DEF OnceInv, PlaceInv, Distinct, WrittenOnce
<1> QED
  BY <1>1, <1>2, PlaceStep, PTL DEF Spec

----------------------------------------------------------------------------
\* The strengthening for Close: who can still be waiting for an answer, and what
\* the end of the committer and of Close mean in each mode.
Waiting == \A r \in Reqs : pc[r] = "sent" => r \in Elems(ch) \/ r \in Elems(reqs)
Ended == com = "exit" /\ mode = "SyncBatch" => closed = "yes" /\ ch = <<>>
NoneMode ==
  mode = "SyncNone" => /\ com = "exit" /\ ch = <<>>
                       /\ \A r \in Reqs : pc[r] \in {"new", "ok", "err"}
                       /\ alive = "yes" => \A r \in Reqs : pc[r] = "ok" => InFile(r, Len(file))
Closing ==
  /\ closer # "idle" => closed = "yes"
  /\ closer \in {"done", "failed"} => com = "exit"
  /\ closer = "done" /\ alive = "yes" => synced = Len(file)
CloseInv == OnceInv /\ CommitInv /\ Waiting /\ Ended /\ NoneMode /\ Closing

\* Every step keeps the strengthened invariant of Close.
LEMMA CloseStep == CloseInv /\ [Next]_vars => CloseInv'
<1> SUFFICES ASSUME CloseInv, [Next]_vars PROVE CloseInv'
  OBVIOUS
<1>t. TypeOK /\ TypeOK' /\ PlaceInv
  BY TypeStep DEF CloseInv, CommitInv, OnceInv
<1>i. Waiting /\ Ended /\ NoneMode /\ Closing
  BY DEF CloseInv
<1>o. OnceInv' /\ CommitInv'
  BY PlaceStep, CommitStep DEF CloseInv
<1>s. /\ ch \in Seq(Reqs) /\ reqs \in Seq(Reqs) /\ file \in Seq(Reqs)
      /\ Len(ch) \in Nat /\ Len(reqs) \in Nat /\ Len(file) \in Nat
      /\ pc \in [Reqs -> {"new", "checked", "sent", "ok", "err"}]
  BY <1>t DEF TypeOK
<1>m. mode' = mode
  BY DEF Next, vars
\* A sent request leaves the channel into the group only, and the group when it
\* is answered.
<1>1. Waiting'
  <2> SUFFICES ASSUME NEW q \in Reqs, pc'[q] = "sent"
               PROVE  q \in Elems(ch') \/ q \in Elems(reqs')
    BY DEF Waiting, Elems
  <2>1. ASSUME NEW r \in Reqs, Send(r) PROVE q \in Elems(ch') \/ q \in Elems(reqs')
    <3>1. /\ ch' = Append(ch, r) /\ reqs' = reqs /\ \A x \in Reqs : x # r => pc'[x] = pc[x]
      BY <2>1, <1>s DEF Send, committer
    <3>2. /\ Len(ch') = Len(ch) + 1 /\ ch'[Len(ch) + 1] = r
          /\ \A i \in 1..Len(ch) : ch'[i] = ch[i]
      BY <1>s, <3>1, TailAppendFacts
    <3>3. CASE q = r
      BY <1>s, <3>2, <3>3 DEF Elems
    <3>4. CASE q # r
      <4>1. q \in Elems(ch) \/ q \in Elems(reqs)
        BY <1>i, <3>1, <3>4 DEF Waiting
      <4> QED
        BY <1>s, <3>1, <3>2, <4>1 DEF Elems
    <3> QED
      BY <3>3, <3>4
  <2>2. CASE Recv \/ (Drain /\ ch # <<>>)
    <3>1. ch # <<>> /\ ch' = Tail(ch) /\ pc' = pc
      BY <2>2 DEF Recv, Drain
    <3>2. /\ Len(ch) \in Nat \ {0} /\ Head(ch) = ch[1] /\ Len(Tail(ch)) = Len(ch) - 1 /\ Head(ch) \in Reqs
          /\ \A i \in 1..Len(Tail(ch)) : Tail(ch)[i] = ch[i + 1]
      BY <1>s, <3>1
    <3>3. \A x \in Elems(ch) : x = Head(ch) \/ x \in Elems(ch')
      <4>1. ASSUME NEW i \in 1..Len(ch), i # 1 PROVE ch[i] \in Elems(ch')
        <5>1. i - 1 \in 1..Len(Tail(ch)) /\ Tail(ch)[i - 1] = ch[i]
          BY <3>2, <4>1
        <5> QED
          BY <3>1, <5>1 DEF Elems
      <4> QED
        BY <3>2, <4>1 DEF Elems
    <3>4. Head(ch) \in Elems(reqs') /\ \A x \in Elems(reqs) : x \in Elems(reqs')
      <4>1. CASE Recv
        <5>1. reqs' = <<Head(ch)>> /\ reqs = <<>>
          BY <1>t, <4>1 DEF Recv, PlaceInv
        <5> QED
          BY <5>1 DEF Elems
      <4>2. CASE Drain
        <5>1. reqs' = Append(reqs, Head(ch))
          BY <3>1, <4>2 DEF Drain
        <5>2. /\ Len(reqs') = Len(reqs) + 1 /\ reqs'[Len(reqs) + 1] = Head(ch)
              /\ \A i \in 1..Len(reqs) : reqs'[i] = reqs[i]
          BY <1>s, <3>2, <5>1, TailAppendFacts
        <5> QED
          BY <1>s, <5>2 DEF Elems
      <4> QED
        BY <2>2, <4>1, <4>2
    <3>5. q \in Elems(ch) \/ q \in Elems(reqs)
      BY <1>i, <3>1 DEF Waiting
    <3> QED
      BY <3>3, <3>4, <3>5
  <2>3. CASE Answer
    <3>1. q \notin Elems(reqs) /\ pc[q] = "sent" /\ ch' = ch
      BY <2>3 DEF Answer
    <3> QED
      BY <1>i, <3>1 DEF Waiting
  <2>4. CASE pc[q] = "sent" /\ ch' = ch /\ reqs' = reqs
    BY <1>i, <2>4 DEF Waiting
  <2> QED
    BY <1>s, <2>1, <2>2, <2>3, <2>4
    DEF Next, Submit, Check, Panic, SubmitNone, FileSync, Committer, committer, Exit, Drain, Write,
        Fsync, CloseNext, CloseBegin, CloseEnd, Crash, Finished, vars
\* The committer ends on a closed, empty channel, to which nothing is sent any more.
<1>2. Ended'
  <2> SUFFICES ASSUME com' = "exit", mode = "SyncBatch" PROVE closed' = "yes" /\ ch' = <<>>
    BY <1>m DEF Ended
  <2>1. CASE com = "exit"
    BY <1>i, <2>1 DEF Ended, Next, Submit, Check, Send, Panic, SubmitNone, FileSync, Committer,
          Recv, Exit, Drain, Write, Fsync, Answer, CloseNext, CloseBegin, CloseEnd, Crash, Finished,
          vars
  <2>2. CASE com # "exit"
    BY <2>2 DEF Next, Submit, Check, Send, Panic, SubmitNone, FileSync, Committer, committer,
          Recv, Exit, Drain, Write, Fsync, Answer, CloseNext, CloseBegin, CloseEnd, Crash, Finished,
          vars
  <2> QED
    BY <2>1, <2>2
\* Without a committer only SubmitNone answers, and it writes first.
<1>3. NoneMode'
  <2> SUFFICES ASSUME mode = "SyncNone"
               PROVE  /\ com' = "exit" /\ ch' = <<>>
                      /\ \A r \in Reqs : pc'[r] \in {"new", "ok", "err"}
                      /\ alive' = "yes" => \A r \in Reqs : pc'[r] = "ok" =>
                                             \E i \in 1..Len(file') : file'[i] = r
    BY <1>m DEF NoneMode, InFile
  <2>1. /\ com = "exit" /\ ch = <<>> /\ \A r \in Reqs : pc[r] \in {"new", "ok", "err"}
        /\ alive = "yes" => \A r \in Reqs : pc[r] = "ok" => InFile(r, Len(file))
    BY <1>i DEF NoneMode
  <2>2. com' = "exit" /\ ch' = <<>> /\ (alive' = "yes" => alive = "yes")
    BY <2>1 DEF Next, Submit, Check, Send, Panic, SubmitNone, FileSync, Committer, committer,
          Recv, Exit, Drain, Write, Fsync, Answer, CloseNext, CloseBegin, CloseEnd, Crash, Finished,
          vars
  <2>3. pc' = pc \/ \E r \in Reqs : SubmitNone(r)
    BY <2>1 DEF Next, Submit, Check, Send, Panic, FileSync, Committer, committer,
          Recv, Exit, Drain, Write, Fsync, Answer, CloseNext, CloseBegin, CloseEnd, Crash, Finished,
          vars
  <2>4. \A r \in Reqs : pc'[r] \in {"new", "ok", "err"}
    BY <1>s, <2>1, <2>3 DEF SubmitNone
  <2>5. ASSUME alive' = "yes", NEW r \in Reqs, pc'[r] = "ok" PROVE \E i \in 1..Len(file') : file'[i] = r
    <3>1. CASE pc[r] = "ok"
      BY <1>t, <2>1, <2>2, <2>5, <3>1, StaysInFile
    <3>2. CASE pc[r] # "ok"
      <4>1. file' = Append(file, r)
        BY <1>s, <2>3, <2>5, <3>2 DEF SubmitNone
      <4>2. Len(file') = Len(file) + 1 /\ file'[Len(file) + 1] = r
        BY <1>s, <4>1, TailAppendFacts
      <4> QED
        BY <1>s, <4>2
    <3> QED
      BY <3>1, <3>2
  <2> QED
    BY <2>2, <2>4, <2>5
\* Behind a Close that has returned nothing writes: submit sees w.closed, and the
\* committer has ended.
<1>4. Closing'
  <2>1. (closer' # "idle" => closed' = "yes") /\ (closer' \in {"done", "failed"} => com' = "exit")
    BY <1>i DEF Closing, Next, Submit, Check, Send, Panic, SubmitNone, FileSync, Committer, committer,
          Recv, Exit, Drain, Write, Fsync, Answer, CloseNext, CloseBegin, CloseEnd, Crash, Finished,
          vars
  <2>2. ASSUME closer' = "done", alive' = "yes" PROVE synced' = Len(file')
    <3>1. CASE closer = "done"
      <4>1. alive = "yes"
        BY <2>2 DEF Next, Submit, Check, Send, Panic, SubmitNone, FileSync, Committer, Recv, Exit,
              Drain, Write, Fsync, Answer, CloseNext, CloseBegin, CloseEnd, Crash, Finished, vars
      <4>2. com = "exit" /\ closed = "yes" /\ synced = Len(file)
        BY <1>i, <3>1, <4>1 DEF Closing
      <4>3. UNCHANGED <<file, synced>>
        BY <2>2, <3>1, <4>2 DEF Next, Submit, Check, Send, Panic, SubmitNone, FileSync, Committer,
              Recv, Exit, Drain, Write, Fsync, Answer, CloseNext, CloseBegin, CloseEnd, Crash,
              Finished, vars
      <4> QED
        BY <4>2, <4>3
    <3>2. CASE closer # "done"
      BY <2>2, <3>2 DEF Next, Submit, Check, Send, Panic, SubmitNone, FileSync, Committer, Recv, Exit,
            Drain, Write, Fsync, Answer, CloseNext, CloseBegin, CloseEnd, Crash, Finished, vars
    <3> QED
      BY <3>1, <3>2
  <2> QED
    BY <2>1, <2>2 DEF Closing
<1> QED
  BY <1>o, <1>1, <1>2, <1>3, <1>4 DEF CloseInv

\* Close drains: when it returns no accepted request is still waiting, and when it
\* returns without an error every acknowledged one is on disk, in either mode
\* (Close of wal.go closes commitCh, waits for the committer, then fsyncs).
THEOREM CloseDrainsAll == Spec => []CloseDrains
<1>1. Init => CloseInv
  <2> SUFFICES ASSUME Init PROVE CloseInv
    OBVIOUS
  <2>1. OnceInv
    BY WALConstants DEF Init, OnceInv, TypeOK, PlaceInv, Distinct, Disjoint, AllSent, FileSent
  <2>2. CommitInv
    BY <2>1 DEF Init, OnceInv, CommitInv, GroupWritten, GroupSynced, AckedSynced
  <2>3. Waiting /\ Ended /\ NoneMode /\ Closing
    BY DEF Init, Waiting, Ended, NoneMode, Closing
  <2> QED
    BY <2>1, <2>2, <2>3 DEF CloseInv
<1>2. CloseInv => CloseDrains
  <2> SUFFICES ASSUME CloseInv, alive = "yes", closer \in {"done", "failed"}, NEW r \in Reqs
               PROVE  /\ pc[r] # "sent"
                      /\ closer = "done" /\ pc[r] = "ok" => \E i \in 1..synced : file[i] = r
    BY DEF CloseDrains
  <2>t. TypeOK /\ PlaceInv /\ AckedSynced
    BY DEF CloseInv, CommitInv, OnceInv
  <2>1. com = "exit" /\ reqs = <<>> /\ (closer = "done" => synced = Len(file))
    BY <2>t DEF CloseInv, Closing, PlaceInv
  <2>2. ch = <<>>
    BY <2>t, <2>1 DEF CloseInv, Ended, NoneMode, TypeOK
  <2>3. pc[r] # "sent"
    BY <2>1, <2>2 DEF CloseInv, Waiting, Elems
  <2>4. ASSUME closer = "done", pc[r] = "ok" PROVE \E i \in 1..synced : file[i] = r
    BY <2>t, <2>1, <2>4 DEF CloseInv, AckedSynced, NoneMode, InFile, TypeOK
  <2> QED
    BY <2>3, <2>4
<1> QED
  BY <1>1, <1>2, CloseStep, PTL DEF Spec
=============================================================================
