-------------------------------- MODULE Reads --------------------------------
(***************************************************************************)
(* internal/engine/read.go and snapshot.go: point reads, at the latest     *)
(* state and through a snapshot.  get holds the read lock from its first   *)
(* to its last statement, so that it is one function of the state.         *)
(***************************************************************************)
EXTENDS WritePath

\* checkTable: what a table has for the lookup key.  A table that cannot be
\* opened is logged and skipped.
checkTable(t, lookup) == Search(FileRecords(t), lookup)

\* Mutant: the later candidate always replaces the best one.
BetterLater(best, cand) == IF cand # {} THEN cand ELSE best

\* The later candidate replaces the best one only with a larger sequence number.
\* Both are sets of at most one record.
Better(best, cand) ==
  IF cand # {} /\ (best = {} \/ \A r \in cand, b \in best : r.seq > b.seq) THEN cand ELSE best

\* The level-0 part of get: the tables from the youngest to the oldest, of which those
\* are looked at whose key range holds the key; best[i] is what the first i have given.
bestAtL0(lookup) ==
  LET n == Len(levels[0])
      best[i \in 0..n] ==
        IF i = 0 THEN {}
        ELSE LET t == levels[0][n + 1 - i]
             IN IF t.min.key <= lookup.key /\ lookup.key <= t.max.key
                THEN Better(best[i - 1], checkTable(t, lookup)) ELSE best[i - 1]
  IN best[n]

\* The one table get looks at on a level above 0: the first, by binary search over
\* the level's tables, whose largest internal key is not before the lookup key.
tableAt(l, lookup) ==
  LET n    == Len(levels[l])
      hits == {i \in 0..n - 1 : Compare(levels[l][i + 1].max, lookup) >= 0}
      idx  == SortSearch(n, hits)
  IN IF idx >= n THEN {} ELSE {levels[l][idx + 1]}

hitAt(l, lookup) == UNION {checkTable(t, lookup) : t \in tableAt(l, lookup)}

\* The deeper levels are searched until one has had a table to look at and
\* something has been found, there or before.
bestInTables(lookup) ==
  LET best == bestAtL0(lookup)
      stop == {l \in 1..Bottom : /\ tableAt(l, lookup) # {}
                                 /\ best # {} \/ hitAt(l, lookup) # {}}
  IN IF stop = {} THEN best ELSE Better(best, hitAt(Min(stop), lookup))

\* get: the active memtable, then immt, then the tables; the first of the three
\* that has the key decides.
get(k, s) ==
  LET lookup == Lookup(k, s)
      inMt   == Search(mt, lookup)
      inImmt == UNION {Search(m, lookup) : m \in immt}
  IN UserView(IF inMt # {} THEN inMt ELSE IF inImmt # {} THEN inImmt ELSE bestInTables(lookup))

Get(k) == get(k, MaxUint64)

----------------------------------------------------------------------------
\* The version of a key that a read at sequence number s should see, as a set of at
\* most one record: the newest one the engine holds that is not newer than s.
VisibleAt(k, s) ==
  LET versions == {r \in Stored : r.key = k /\ r.seq <= s}
  IN {r \in versions : \A q \in versions : q.seq <= r.seq}

\* NewSnapshot: the current sequence number, registered in the snapshot list.
\* (One step: between the two only a compaction's oldest could tell the difference,
\* and the tombstones it drops then hide nothing.)  view and quiet are history: the
\* versions the snapshot's reads should give from that moment on, and whether no call
\* was in progress.
NewSnapshot(s) ==
  /\ "snapshot" \in Ops /\ phase = "up" /\ snaps[s] = {}
  /\ snaps' = [snaps EXCEPT ![s] =
       {[seq |-> seqNum, quiet |-> \A c \in Clients : cl[c] = Idle,
         view |-> [k \in Keys |-> VisibleAt(k, seqNum)]]}]
  /\ UNCHANGED <<ctlVars, mu, seqNum, memVars, walVars, vsVars, nextFileNum, files, flushQ, fl,
                 compVars, cl, rv, histVars, faults>>

\* Snapshot.Release.
Release(s) ==
  /\ phase = "up" /\ snaps[s] # {}
  /\ snaps' = [snaps EXCEPT ![s] = {}]
  /\ UNCHANGED <<ctlVars, mu, seqNum, memVars, walVars, vsVars, nextFileNum, files, flushQ, fl,
                 compVars, cl, rv, histVars, faults>>

SnapshotNext == \E s \in Snaps : NewSnapshot(s) \/ Release(s)
=============================================================================
