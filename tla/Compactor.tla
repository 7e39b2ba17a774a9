------------------------------ MODULE Compactor ------------------------------
(***************************************************************************)
(* internal/engine/compactor.go: choosing a compaction, merging its input  *)
(* tables into new tables of the next level, and installing the result.    *)
(* At most one goroutine owns isCompacting and runs a compaction (job); a  *)
(* goroutine that has finished one schedules the next (resched).           *)
(***************************************************************************)
EXTENDS EngineState

TotalSize(tables) == FoldSeq(LAMBDA t, n : t.size + n, 0, tables)
levelSize(l)      == TotalSize(levels[l])
levelCapacity(l)  == MaxBytesBase * LevelMultiplier ^ (l - 1)

\* bytes.Compare(key, compactPointer) > 0.  The pointer is the concatenation of
\* the keys appended to it; keys have one length, so its first key decides, and
\* a key equal to it is smaller than a longer pointer and not greater than it.
AfterPointer(key, pointer) == pointer = <<>> \/ key > pointer[1]

\* pickCompactionInputs: all of level 0; of another level the tables from the
\* first one after the compact pointer on, until enough bytes are picked.
pickCompactionInputs(l) ==
  LET tables  == levels[l]
      after   == {i \in 0..Len(tables) - 1 : AfterPointer(tables[i + 1].min.key, compactPointer[l])}
      idx     == SortSearch(Len(tables), after)
      target  == Max({levelSize(l) - levelCapacity(l), 0})
      enough  == {j \in (idx + 1)..Len(tables) : TotalSize(SubSeq(tables, idx + 1, j)) >= target}
  IN IF l = 0 THEN tables
     ELSE SubSeq(tables, idx + 1, IF enough = {} THEN Len(tables) ELSE Min(enough))

\* The level scheduleCompaction compacts, if any: level 0 by its number of
\* tables, else the first level over its capacity; never the last level.
CompactionLevel ==
  LET over == {l \in 1..(Bottom - 1) : levelSize(l) > levelCapacity(l)}
  IN IF Len(levels[0]) >= MaxL0Files THEN {0}
     ELSE IF over = {} THEN {} ELSE {Min(over)}

\* The part of scheduleCompaction after its compare-and-swap has succeeded, when
\* there is a level to compact.
StartCompaction(l) ==
  /\ isCompacting' = TRUE
  /\ job' = [NoJob EXCEPT !.pc = "begin", !.level = l,
                          !.inputs = pickCompactionInputs(l), !.out = nextFileNum]
  /\ nextFileNum' = nextFileNum + 1

\* compactLevel up to the unlock: the next level's tables that overlap the
\* inputs are fixed, and the compact pointer of the level is extended.
CompactBegin ==
  LET range == KeyRangeOf(job.inputs)
      overlapping == IF job.inputs = <<>> THEN <<>>
                     ELSE FindOverlapping(levels[job.level + 1], range[1], range[2])
  IN /\ job.pc = "begin" /\ mu = "free"
     /\ job' = [job EXCEPT !.pc = "merge", !.all = job.inputs \o overlapping]
     /\ compactPointer' =
          IF job.level > 0 /\ job.inputs # <<>>
          THEN [compactPointer EXCEPT ![job.level] = Append(@, Last(job.inputs).max.key)]
          ELSE compactPointer
     /\ UNCHANGED <<ctlVars, mu, seqNum, memVars, walVars, vsVars, nextFileNum, files, flushQ,
                    fl, isCompacting, resched, cl, snaps, rv, histVars, faults>>

\* SnapshotList.oldest.
oldest ==
  LET live == UNION {snaps[s] : s \in Snaps}
  IN IF live = {} THEN MaxUint64 ELSE Min({s.seq : s \in live})

\* The records of the input tables that merge order meets first for their user
\* key.  Which of two with the same sequence number is met first the heap decides.
Heads(recs) == {r \in recs : \A q \in recs : q.key = r.key => q.seq <= r.seq}
OnePerKey(recs) == {S \in SUBSET recs : \A r \in recs : \E q \in S :
                      q.key = r.key /\ \A p \in S : p.key = r.key => p = q}

\* The records writeCompactionOutput keeps of those: a tombstone is dropped when
\* the output is the last level and no snapshot is as old as it.
Survivors(heads, bottom, oldestSnap) ==
  {r \in heads : ~(r.del /\ bottom /\ r.seq < oldestSnap)}

\* The output tables: the survivors in key order, a new table after every
\* MaxSSTableSize of them.
Outputs(S) ==
  LET rank(r) == Cardinality({q \in S : q.key <= r.key})
  IN [i \in 1..((Cardinality(S) + MaxSSTableSize - 1) \div MaxSSTableSize) |->
        {r \in S : rank(r) \in ((i - 1) * MaxSSTableSize + 1)..(i * MaxSSTableSize)}]

\* The rest of compactLevel before the second lock.  A table that cannot be
\* opened ends the goroutine with isCompacting still set; a failing write, of any
\* of the outputs, ends it with isCompacting cleared.  The first output has the number drawn when the
\* compaction was scheduled; closing an output draws the number of the next.  A
\* writer opened and never filled has its file removed.
CompactMerge ==
  \E fault \in Faults({"open", "write"}) :
    LET next == job.level + 1
        recs == UNION {FileRecords(t) : t \in ToSet(job.all)}
        missing == \E t \in ToSet(job.all) : ~Readable(<<t.level, t.num>>)
        rest == <<ctlVars, mu, seqNum, memVars, walVars, vsVars, flushQ, fl, resched,
                  compactPointer, cl, snaps, rv, histVars>>
    IN /\ job.pc = "merge"
       /\ Count(fault)
       /\ UNCHANGED rest
       /\ \/ /\ missing \/ fault = "open"
             /\ job' = NoJob
             /\ UNCHANGED <<isCompacting, files, nextFileNum>>
          \/ /\ ~missing /\ fault # "open"
             /\ \E heads \in OnePerKey(Heads(recs)) :
                  LET S    == Survivors(heads, next = Bottom, oldest)
                      outs == Outputs(S)
                      n    == Len(outs)
                      num(i) == IF i = 1 THEN job.out ELSE nextFileNum + i - 2
                      full == n * MaxSSTableSize = Cardinality(S)
                      scratch == IF full THEN {<<next, num(n + 1)>>} ELSE {}
                      written(k) == [p \in {<<next, num(i)>> : i \in 1..k} |->
                                       outs[CHOOSE i \in 1..k : num(i) = p[2]]]
                  IN \/ /\ fault = "none"
                        /\ files' = Unlink(Overlay(files, written(n)), scratch)
                        /\ job' = [job EXCEPT !.pc = "install", !.next = nextFileNum + n,
                                     !.outs = [i \in 1..n |-> TableMeta(next, num(i), outs[i])]]
                        /\ nextFileNum' = nextFileNum + n + 1
                        /\ UNCHANGED isCompacting
                     \/ /\ fault = "write"
                        /\ \E k \in 0..(IF full THEN n ELSE n - 1) :
                             /\ files' = Create(Overlay(files, written(k)), <<next, num(k + 1)>>, {})
                             /\ nextFileNum' = nextFileNum + k
                        /\ job' = NoJob /\ isCompacting' = FALSE

\* Mutant: the inputs stay listed.
EditKeepsInputs == [NoEdit EXCEPT !.adds = job.outs, !.next = {job.next}]

\* The version edit of a compaction: every input is deleted, every output added.
CompactionEdit ==
  [NoEdit EXCEPT !.adds = job.outs, !.dels = Paths(job.all), !.next = {job.next}]

\* compactLevel under the second lock: log and apply the edit ...
CompactInstall ==
  \E fault \in Faults({"manifest"}) :
    /\ job.pc = "install" /\ mu = "free"
    /\ Count(fault)
    /\ LogAndApply(CompactionEdit, fault)
    /\ IF fault = "manifest"
       THEN job' = NoJob /\ isCompacting' = FALSE /\ UNCHANGED mu
       ELSE job' = [job EXCEPT !.pc = "remove"] /\ mu' = "compactor" /\ UNCHANGED isCompacting
    /\ UNCHANGED <<ctlVars, seqNum, memVars, walVars, nextFileNum, files, flushQ, fl, resched,
                   compactPointer, cl, snaps, rv, histVars>>

\* Mutant: the output tables are removed too.
RemoveAll ==
  /\ job.pc = "remove"
  /\ files' = Unlink(files, Paths(job.all) \cup Paths(job.outs))
  /\ mu' = "free" /\ job' = [NoJob EXCEPT !.pc = "done"]
  /\ UNCHANGED <<ctlVars, seqNum, memVars, walVars, vsVars, nextFileNum, flushQ, fl, isCompacting,
                 resched, compactPointer, cl, snaps, rv, histVars, faults>>

\* ... then remove the input files and unlock.
CompactRemove ==
  /\ job.pc = "remove"
  /\ files' = Unlink(files, Paths(job.all))
  /\ mu' = "free" /\ job' = [NoJob EXCEPT !.pc = "done"]
  /\ UNCHANGED <<ctlVars, seqNum, memVars, walVars, vsVars, nextFileNum, flushQ, fl, isCompacting,
                 resched, compactPointer, cl, snaps, rv, histVars, faults>>

\* Mutant: isCompacting is not given back.
DoneKeepsFlag ==
  /\ job.pc = "done"
  /\ job' = NoJob /\ resched' = resched + 1
  /\ UNCHANGED <<ctlVars, mu, seqNum, memVars, walVars, vsVars, nextFileNum, files, flushQ, fl,
                 isCompacting, compactPointer, cl, snaps, rv, histVars, faults>>

\* The end of compactLevel, without the lock: isCompacting is given back.
CompactDone ==
  /\ job.pc = "done"
  /\ job' = NoJob /\ isCompacting' = FALSE /\ resched' = resched + 1
  /\ UNCHANGED <<ctlVars, mu, seqNum, memVars, walVars, vsVars, nextFileNum, files, flushQ, fl,
                 compactPointer, cl, snaps, rv, histVars, faults>>

\* scheduleCompaction called by a goroutine that has finished a compaction, up to
\* where it starts the next one or finds nothing to do.
Reschedule ==
  /\ resched > 0
  /\ resched' = resched - 1
  /\ \/ /\ isCompacting
        /\ UNCHANGED <<isCompacting, job, nextFileNum>>
     \/ /\ ~isCompacting /\ nextFileNum < MaxFileNum
        /\ \E l \in CompactionLevel : StartCompaction(l)
     \/ /\ ~isCompacting /\ CompactionLevel = {}
        /\ isCompacting' = TRUE /\ job' = [NoJob EXCEPT !.pc = "clear"]
        /\ UNCHANGED nextFileNum
  /\ UNCHANGED <<ctlVars, mu, seqNum, memVars, walVars, vsVars, files, flushQ, fl,
                 compactPointer, cl, snaps, rv, histVars, faults>>

\* The last statement of scheduleCompaction: nothing to do, isCompacting is cleared.
RescheduleClear ==
  /\ job.pc = "clear"
  /\ job' = NoJob /\ isCompacting' = FALSE
  /\ UNCHANGED <<ctlVars, mu, seqNum, memVars, walVars, vsVars, nextFileNum, files, flushQ, fl,
                 resched, compactPointer, cl, snaps, rv, histVars, faults>>

CompactorNext == CompactBegin \/ CompactMerge \/ CompactInstall \/ CompactRemove
                   \/ CompactDone \/ Reschedule \/ RescheduleClear
=============================================================================
