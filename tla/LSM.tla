--------------------------------- MODULE LSM ---------------------------------
(***************************************************************************)
(* The log-structured merge tree behind internal/engine, without its       *)
(* processes, files and numbers: where the records are, and how a write, a *)
(* rotation, a flush and a compaction move them.  A memtable and a table   *)
(* are sets of records; levels are sets of tables.                         *)
(*                                                                         *)
(* Writes of one key arrive in the order of their sequence numbers.  The   *)
(* engine ensures that for the writes of one client.                       *)
(***************************************************************************)
EXTENDS Integers

CONSTANTS Records, Bottom

ASSUME LSMConstants ==
  /\ Bottom \in Nat
  /\ \A r \in Records : r.key \in Int /\ r.seq \in Int /\ r.del \in BOOLEAN

VARIABLES mem, imm, lev, inserted
vars == <<mem, imm, lev, inserted>>

Levels == 0..Bottom
UserKeys == {r.key : r \in Records}

\* The records of the tables of all levels, and of the whole tree.
Tables == UNION {lev[l] : l \in Levels}
Stored == mem \cup (UNION imm) \cup (UNION Tables)

Init ==
  /\ mem = {} /\ imm = {}
  /\ lev = [l \in Levels |-> {}]
  /\ inserted = {}

\* Mutant: two writes become visible at once.
InsertTwo(r) ==
  \E p \in Records :
    /\ p.key # r.key
    /\ \A q \in inserted : (q.key = r.key => q.seq < r.seq) /\ (q.key = p.key => q.seq < p.seq)
    /\ inserted' = inserted \cup {r, p} /\ mem' = mem \cup {r, p}
    /\ UNCHANGED <<imm, lev>>

\* A write reaches the memtable, which may be full with it and is then frozen.
Insert(r) ==
  /\ \A q \in inserted : q.key = r.key => q.seq < r.seq
  /\ inserted' = inserted \cup {r}
  /\ \/ mem' = mem \cup {r} /\ imm' = imm
     \/ mem' = {} /\ imm' = imm \cup {mem \cup {r}}
  /\ UNCHANGED lev

\* Mutant: an empty memtable is frozen too.
FreezeEmpty ==
  /\ mem' = {} /\ imm' = imm \cup {mem}
  /\ UNCHANGED <<lev, inserted>>

\* Sync and Close freeze a memtable that is not full.
Freeze ==
  /\ mem # {}
  /\ mem' = {} /\ imm' = imm \cup {mem}
  /\ UNCHANGED <<lev, inserted>>

\* A frozen memtable becomes a table of level 0.
Flush(m) ==
  /\ m \in imm
  /\ imm' = imm \ {m}
  /\ lev' = [lev EXCEPT ![0] = @ \cup {m}]
  /\ UNCHANGED <<mem, inserted>>

----------------------------------------------------------------------------
Before(s, t)   == \A r \in s, q \in t : r.key < q.key
Disjoint(s, t) == Before(s, t) \/ Before(t, s)

\* Mutant: only the tables that share a key with the inputs.
OverlappingByKey(l, I) == {t \in lev[l] : \E r \in t, q \in UNION I : r.key = q.key}

\* The tables of a level whose key range meets that of the tables in I.
Overlapping(l, I) == {t \in lev[l] : ~Disjoint(t, UNION I)}

\* The newest versions among some records.
Heads(recs) == {r \in recs : \A q \in recs : q.key = r.key => q.seq <= r.seq}

\* The records that a compaction of level l with inputs I does not touch.
Rest(l, I) ==
  mem \cup (UNION imm)
    \cup (UNION UNION {lev[m] \ (IF m = l THEN I ELSE IF m = l + 1 THEN Overlapping(l + 1, I) ELSE {}) : m \in Levels})

\* Mutant: a tombstone is dropped whatever else is stored.
CanDropAlways(r, rest) == r.del

\* A tombstone may be dropped if all that is stored of its key elsewhere is newer.
CanDrop(r, rest) == r.del /\ \A q \in rest : q.key = r.key => q.seq > r.seq

\* A compaction: input tables of one level and the overlapping ones of the next
\* are replaced by tables of the newest versions; some tombstones are dropped.
Compact(l, I) ==
  LET O   == Overlapping(l + 1, I)
      all == (UNION I) \cup (UNION O)
  IN /\ I # {}
     /\ \E kept \in SUBSET Heads(all) : \E outs \in SUBSET ((SUBSET kept) \ {{}}) :
          /\ \A r \in Heads(all) \ kept : CanDrop(r, Rest(l, I))
          /\ UNION outs = kept
          /\ \A s, t \in outs : s # t => Disjoint(s, t)
          /\ lev' = [lev EXCEPT ![l] = @ \ I, ![l + 1] = (@ \ O) \cup outs]
     /\ UNCHANGED <<mem, imm, inserted>>

Next ==
  \/ \E r \in Records : Insert(r)
  \/ Freeze
  \/ \E m \in imm : Flush(m)
  \/ \E l \in 0..(Bottom - 1) : \E I \in SUBSET lev[l] : Compact(l, I)

Spec == Init /\ [][Next]_vars

----------------------------------------------------------------------------
\* Memtables and tables are sets of records; no table is empty.
TypeOK ==
  /\ mem \in SUBSET Records /\ inserted \in SUBSET Records
  /\ imm \in SUBSET ((SUBSET Records) \ {{}})
  /\ lev \in [Levels -> SUBSET ((SUBSET Records) \ {{}})]

\* Two tables of a level above 0 never overlap, so that a key has one table per
\* level to be looked up in (internal/engine/read.go).
LevelsDisjoint ==
  \A l \in Levels \ {0} : \A s, t \in lev[l] : s # t => Disjoint(s, t)

Newest(S) == {r \in S : \A q \in S : q.key = r.key => q.seq <= r.seq}

\* No write is lost and none comes back: what the tree holds was written, and it
\* holds the newest version of every key, unless that is a tombstone and nothing
\* of the key is left (write.go, flusher.go and compactor.go together).
ContentsCorrect ==
  /\ Stored \subseteq inserted
  /\ \A r \in Newest(inserted) :
       r \in Stored \/ (r.del /\ \A q \in Stored : q.key # r.key)

\* The dictionary the tree stands for.
View(S) == [k \in UserKeys |-> {r \in Newest(S) : r.key = k /\ ~r.del}]

KV == INSTANCE KVStore WITH Keys <- UserKeys, Values <- Records, dict <- View(Stored)

\* Rotation, flush and compaction are invisible: the tree implements a dictionary
\* that only writes change.
ImplementsKV == KV!Spec
=============================================================================
