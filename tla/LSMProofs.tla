------------------------------ MODULE LSMProofs ------------------------------
(***************************************************************************)
(* Proofs about the abstract tree, for every set of records and every      *)
(* number of levels: tables of a level above 0 never overlap, compaction   *)
(* neither loses nor resurrects a write, and the tree implements a         *)
(* dictionary.                                                             *)
(***************************************************************************)
EXTENDS LSM, TLAPS

\* Every kind of step keeps memtables and tables sets of records.
LEMMA TypeStep == TypeOK /\ [Next]_vars => TypeOK'
<1> SUFFICES ASSUME TypeOK, [Next]_vars PROVE TypeOK'
  OBVIOUS
<1> USE DEF TypeOK
<1>1. ASSUME NEW r \in Records, Insert(r) PROVE TypeOK'
  BY <1>1 DEF Insert
<1>2. CASE Freeze
  BY <1>2 DEF Freeze
<1>3. ASSUME NEW m \in imm, Flush(m) PROVE TypeOK'
  <2>1. lev' \in [Levels -> SUBSET ((SUBSET Records) \ {{}})]
    BY <1>3 DEF Flush
  <2> QED
    BY <1>3, <2>1 DEF Flush
<1>4. ASSUME NEW l \in 0..(Bottom - 1), NEW I \in SUBSET lev[l], Compact(l, I) PROVE TypeOK'
  <2>1. l \in Levels /\ l + 1 \in Levels
    BY LSMConstants DEF Levels
  <2>2. PICK kept \in SUBSET Heads((UNION I) \cup (UNION Overlapping(l + 1, I))) :
          \E outs \in SUBSET ((SUBSET kept) \ {{}}) :
            lev' = [lev EXCEPT ![l] = @ \ I, ![l + 1] = (@ \ Overlapping(l + 1, I)) \cup outs]
    BY <1>4 DEF Compact
  <2>3. kept \subseteq Records
    BY <2>1 DEF Heads, Overlapping
  <2>4. lev' \in [Levels -> SUBSET ((SUBSET Records) \ {{}})]
    BY <2>1, <2>2, <2>3
  <2> QED
    BY <1>4, <2>4 DEF Compact
<1>5. CASE UNCHANGED vars
  BY <1>5 DEF vars
<1> QED
  BY <1>1, <1>2, <1>3, <1>4, <1>5 DEF Next

\* Memtables and tables are sets of records, and no table is empty: a memtable
\* that rotate freezes holds a record, and writeCompactionOutput keeps no table
\* without one.
THEOREM TypeCorrect == Spec => []TypeOK
<1>1. Init => TypeOK
  BY DEF Init, TypeOK
<1> QED
  BY <1>1, TypeStep, PTL DEF Spec

----------------------------------------------------------------------------
\* The geometry of a compaction.  A table of the next level that is left alone
\* lies on one side of the inputs, and by disjointness on the same side of every
\* table that is merged with them; so it is disjoint from every output.
LEMMA BystanderDisjoint ==
  ASSUME NEW l \in Int, NEW I, NEW T \in lev[l], T # {}, T \subseteq Records,
         \A s \in lev[l] : s \subseteq Records, UNION I \subseteq Records,
         \A s, t \in lev[l] : s # t => Disjoint(s, t),
         T \notin Overlapping(l, I),
         NEW out, out \subseteq (UNION I) \cup (UNION Overlapping(l, I))
  PROVE  Disjoint(T, out)
<1> DEFINE U == UNION I
           O == Overlapping(l, I)
<1>k. \A r \in Records : r.key \in Int
  BY LSMConstants
<1>1. Disjoint(T, U)
  BY DEF Overlapping
<1>2. \A o \in O : o \in lev[l] /\ o # T /\ ~Before(o, U) /\ ~Before(U, o)
  BY DEF Overlapping, Disjoint
<1>3. CASE Before(T, U)
  <2>1. ASSUME NEW o \in O PROVE Before(T, o)
    <3>1. Before(T, o) \/ Before(o, T)
      BY <1>2 DEF Disjoint
    <3>2. ASSUME Before(o, T) PROVE Before(o, U)
      <4>1. PICK q \in T : TRUE
        OBVIOUS
      <4>2. ASSUME NEW r \in o, NEW u \in U PROVE r.key < u.key
        <5>1. r.key < q.key /\ q.key < u.key
          BY <1>3, <3>2, <4>1 DEF Before
        <5>2. r \in Records /\ q \in Records /\ u \in Records
          BY <1>2
        <5> QED
          BY <1>k, <5>1, <5>2
      <4> QED
        BY <4>2 DEF Before
    <3> QED
      BY <1>2, <3>1, <3>2
  <2>2. Before(T, out)
    BY <1>3, <2>1 DEF Before
  <2> QED
    BY <2>2 DEF Disjoint
<1>4. CASE Before(U, T)
  <2>1. ASSUME NEW o \in O PROVE Before(o, T)
    <3>1. Before(T, o) \/ Before(o, T)
      BY <1>2 DEF Disjoint
    <3>2. ASSUME Before(T, o) PROVE Before(U, o)
      <4>1. PICK q \in T : TRUE
        OBVIOUS
      <4>2. ASSUME NEW r \in o, NEW u \in U PROVE u.key < r.key
        <5>1. u.key < q.key /\ q.key < r.key
          BY <1>4, <3>2, <4>1 DEF Before
        <5>2. r \in Records /\ q \in Records /\ u \in Records
          BY <1>2
        <5> QED
          BY <1>k, <5>1, <5>2
      <4> QED
        BY <4>2 DEF Before
    <3> QED
      BY <1>2, <3>1, <3>2
  <2>2. Before(out, T)
    BY <1>4, <2>1 DEF Before
  <2> QED
    BY <2>2 DEF Disjoint
<1> QED
  BY <1>1, <1>3, <1>4 DEF Disjoint

\* Every step keeps the levels above 0 disjoint.
LEMMA DisjointStep == TypeOK /\ LevelsDisjoint /\ [Next]_vars => LevelsDisjoint'
<1> SUFFICES ASSUME TypeOK, LevelsDisjoint, [Next]_vars,
                    NEW m \in Levels \ {0}, NEW s \in lev'[m], NEW t \in lev'[m], s # t
             PROVE  Disjoint(s, t)
  BY DEF LevelsDisjoint, Disjoint, Before
<1>1. CASE lev'[m] \subseteq lev[m]
  BY <1>1 DEF LevelsDisjoint
<1>2. ASSUME NEW r \in Records, Insert(r) PROVE lev'[m] \subseteq lev[m]
  BY <1>2 DEF Insert
<1>3. ASSUME NEW x \in imm, Flush(x) PROVE lev'[m] \subseteq lev[m]
  BY <1>3 DEF Flush, TypeOK
<1>4. ASSUME NEW l \in 0..(Bottom - 1), NEW I \in SUBSET lev[l], Compact(l, I) PROVE Disjoint(s, t)
  <2> DEFINE O == Overlapping(l + 1, I)
             all == (UNION I) \cup (UNION O)
  <2>1. l \in Levels /\ l + 1 \in Levels /\ l \in Int /\ l + 1 # l /\ l + 1 \in Int
    BY LSMConstants DEF Levels
  <2>2. PICK kept \in SUBSET Heads(all) : \E outs \in SUBSET ((SUBSET kept) \ {{}}) :
          /\ \A a, b \in outs : a # b => Disjoint(a, b)
          /\ lev' = [lev EXCEPT ![l] = @ \ I, ![l + 1] = (@ \ O) \cup outs]
    BY <1>4 DEF Compact
  <2>3. PICK outs \in SUBSET ((SUBSET kept) \ {{}}) :
          /\ \A a, b \in outs : a # b => Disjoint(a, b)
          /\ lev' = [lev EXCEPT ![l] = @ \ I, ![l + 1] = (@ \ O) \cup outs]
    BY <2>2
  <2>4. CASE m # l + 1
    <3>1. lev'[m] \subseteq lev[m]
      BY <2>1, <2>3, <2>4 DEF TypeOK
    <3> QED
      BY <1>1, <3>1
  <2>5. CASE m = l + 1
    <3>1. lev'[m] = (lev[m] \ O) \cup outs
      BY <2>1, <2>3, <2>5 DEF TypeOK
    <3>2. \A a, b \in lev[m] : a # b => Disjoint(a, b)
      BY DEF LevelsDisjoint
    <3>3. \A a \in outs : a \subseteq all
      BY DEF Heads
    <3>4. ASSUME NEW a \in lev[m] \ O, NEW b \in outs PROVE Disjoint(a, b)
      <4>1. a # {} /\ a \subseteq Records /\ \A x \in lev[m] : x \subseteq Records
        BY DEF TypeOK
      <4>2. UNION I \subseteq Records
        BY <2>1 DEF TypeOK
      <4> QED
        BY <2>1, <2>5, <3>2, <3>3, <4>1, <4>2, BystanderDisjoint
    <3>5. \A a, b : Disjoint(a, b) => Disjoint(b, a)
      BY DEF Disjoint
    <3> QED
      BY <2>3, <3>1, <3>2, <3>4, <3>5
  <2> QED
    BY <2>4, <2>5
<1>5. CASE Freeze \/ UNCHANGED vars
  BY <1>1, <1>5 DEF Freeze, vars
<1> QED
  BY <1>1, <1>2, <1>3, <1>4, <1>5 DEF Next

\* One table per level to look a key up in: what binary search in get relies on
\* holds after any sequence of flushes and compactions, whichever tables a
\* compaction picks and however it splits its output.
THEOREM LevelsDisjointHolds == Spec => []LevelsDisjoint
<1>1. Init => TypeOK /\ LevelsDisjoint
  BY DEF Init, TypeOK, LevelsDisjoint
<1> QED
  BY <1>1, TypeStep, DisjointStep, PTL DEF Spec

----------------------------------------------------------------------------
\* What it takes for ContentsCorrect to be inductive: a sequence number names one
\* version of a key, and every key that was written has a newest version.
Unique    == \A r, q \in inserted : r.key = q.key /\ r.seq = q.seq => r = q
HasNewest == \A q \in inserted : \E r \in Newest(inserted) : r.key = q.key
TreeInv   == TypeOK /\ Unique /\ HasNewest /\ ContentsCorrect

\* Where a stored record is.
LEMMA StoredFacts ==
  /\ \A r : r \in Stored <=> \/ r \in mem
                             \/ \E m \in imm : r \in m
                             \/ \E l \in Levels : \E t \in lev[l] : r \in t
  /\ \A r : r \in Stored' <=> \/ r \in mem'
                              \/ \E m \in imm' : r \in m
                              \/ \E l \in Levels : \E t \in lev'[l] : r \in t
BY DEF Stored, Tables

\* The effect of each kind of step on the stored records.
LEMMA InsertStored ==
  ASSUME TypeOK, NEW r \in Records, Insert(r)
  PROVE  Stored' = Stored \cup {r}
<1>1. \A q : q \in Stored' <=> q \in Stored \/ q = r
  BY StoredFacts DEF Insert
<1> QED
  BY <1>1

\* Freezing and flushing move records and change none.
LEMMA MoveStored ==
  ASSUME TypeOK, Freeze \/ (\E m \in imm : Flush(m)) \/ UNCHANGED vars
  PROVE  Stored' = Stored /\ inserted' = inserted
<1>1. CASE Freeze
  <2>1. \A q : q \in Stored' <=> q \in Stored
    BY <1>1, StoredFacts DEF Freeze
  <2> QED
    BY <1>1, <2>1 DEF Freeze
<1>2. ASSUME NEW m \in imm, Flush(m) PROVE Stored' = Stored /\ inserted' = inserted
  <2>1. 0 \in Levels
    BY LSMConstants DEF Levels
  <2>2. /\ lev'[0] = lev[0] \cup {m}
        /\ \A l \in Levels : l # 0 => lev'[l] = lev[l]
    BY <1>2, <2>1 DEF Flush, TypeOK
  <2>3. \A q : (\E l \in Levels : \E t \in lev'[l] : q \in t)
                 <=> q \in m \/ (\E l \in Levels : \E t \in lev[l] : q \in t)
    BY <2>1, <2>2
  <2>4. mem' = mem /\ imm' = imm \ {m}
    BY <1>2 DEF Flush
  <2>5. \A q : q \in Stored' <=> q \in Stored
    BY <2>3, <2>4, StoredFacts
  <2> QED
    BY <1>2, <2>5 DEF Flush
<1>3. CASE UNCHANGED vars
  BY <1>3 DEF vars, Stored, Tables
<1> QED
  BY <1>1, <1>2, <1>3

\* A compaction removes from the tree what it reads and adds what it keeps.
LEMMA CompactStored ==
  ASSUME TypeOK, NEW l \in 0..(Bottom - 1), NEW I \in SUBSET lev[l], Compact(l, I)
  PROVE  LET all == (UNION I) \cup (UNION Overlapping(l + 1, I))
         IN /\ Stored = Rest(l, I) \cup all
            /\ \E kept \in SUBSET Heads(all) :
                 /\ \A r \in Heads(all) \ kept : CanDrop(r, Rest(l, I))
                 /\ Stored' = Rest(l, I) \cup kept
<1> DEFINE O == Overlapping(l + 1, I)
           all == (UNION I) \cup (UNION O)
           gone(m) == IF m = l THEN I ELSE IF m = l + 1 THEN O ELSE {}
<1>1. l \in Levels /\ l + 1 \in Levels /\ l + 1 # l
  BY LSMConstants DEF Levels
<1>2. I \subseteq lev[l] /\ O \subseteq lev[l + 1]
  BY DEF Overlapping
<1>3. \A r : r \in Rest(l, I) <=> \/ r \in mem
                                  \/ \E m \in imm : r \in m
                                  \/ \E m \in Levels : \E t \in lev[m] : t \notin gone(m) /\ r \in t
  BY DEF Rest
<1>4. \A r : r \in all <=> \E m \in Levels : \E t \in gone(m) : r \in t
  BY <1>1
<1>5. \A m \in Levels : gone(m) \subseteq lev[m]
  BY <1>1, <1>2
<1>6. Stored = Rest(l, I) \cup all
  <2> HIDE DEF gone, all
  <2>1. \A r : r \in Stored <=> r \in Rest(l, I) \/ r \in all
    BY <1>3, <1>4, <1>5, StoredFacts
  <2> QED
    BY <2>1
<1>7. PICK kept \in SUBSET Heads(all) : \E outs \in SUBSET ((SUBSET kept) \ {{}}) :
        /\ \A r \in Heads(all) \ kept : CanDrop(r, Rest(l, I))
        /\ UNION outs = kept
        /\ lev' = [lev EXCEPT ![l] = @ \ I, ![l + 1] = (@ \ O) \cup outs]
  BY DEF Compact
<1>8. PICK outs \in SUBSET ((SUBSET kept) \ {{}}) :
        /\ \A r \in Heads(all) \ kept : CanDrop(r, Rest(l, I))
        /\ UNION outs = kept
        /\ lev' = [lev EXCEPT ![l] = @ \ I, ![l + 1] = (@ \ O) \cup outs]
  BY <1>7
<1>9. \A m \in Levels : lev'[m] = (lev[m] \ gone(m)) \cup (IF m = l + 1 THEN outs ELSE {})
  BY <1>1, <1>8 DEF TypeOK
<1>10. mem' = mem /\ imm' = imm
  BY DEF Compact
<1>11. Stored' = Rest(l, I) \cup kept
  <2>1. \A r : r \in kept <=> \E t \in outs : r \in t
    BY <1>8
  <2> HIDE DEF gone, all, O
  <2>2. \A r : (\E m \in Levels : \E t \in lev'[m] : r \in t)
                 <=> r \in kept \/ \E m \in Levels : \E t \in lev[m] : t \notin gone(m) /\ r \in t
    BY <1>1, <1>9, <2>1
  <2>3. \A r : r \in Stored' <=> r \in Rest(l, I) \/ r \in kept
    BY <1>3, <1>10, <2>2, StoredFacts
  <2> QED
    BY <2>3
<1> QED
  BY <1>6, <1>8, <1>11

\* A write keeps the invariant: it is the newest version of its key.
LEMMA InsertInv ==
  ASSUME TreeInv, NEW r \in Records, Insert(r)
  PROVE  (Unique /\ HasNewest /\ ContentsCorrect)'
<1>k. \A q \in Records : q.key \in Int /\ q.seq \in Int
  BY LSMConstants
<1>1. /\ \A q \in inserted : q.key = r.key => q.seq < r.seq
      /\ inserted' = inserted \cup {r} /\ inserted \subseteq Records
  BY DEF Insert, TreeInv, TypeOK
<1>2. Stored' = Stored \cup {r}
  BY InsertStored DEF TreeInv
<1>3. Unique'
  BY <1>1, <1>k DEF TreeInv, Unique
<1>4. r \in Newest(inserted')
  BY <1>1, <1>k DEF Newest
<1>5. \A q \in inserted : q.key # r.key =>
        (q \in Newest(inserted') <=> q \in Newest(inserted))
  BY <1>1 DEF Newest
<1>6. \A q \in Newest(inserted') : q = r \/ (q.key # r.key /\ q \in Newest(inserted))
  BY <1>1, <1>5, <1>k DEF Newest
<1>7. HasNewest'
  <2> SUFFICES ASSUME NEW q \in inserted' PROVE \E n \in Newest(inserted') : n.key = q.key
    BY DEF HasNewest, Newest
  <2>1. CASE q.key = r.key
    BY <1>4, <2>1
  <2>2. CASE q.key # r.key
    <3>1. PICK n \in Newest(inserted) : n.key = q.key
      BY <1>1, <2>2 DEF TreeInv, HasNewest
    <3>2. n \in inserted
      BY DEF Newest
    <3> QED
      BY <1>5, <2>2, <3>1, <3>2
  <2> QED
    BY <2>1, <2>2
<1>8. ContentsCorrect'
  <2>1. Stored' \subseteq inserted'
    BY <1>1, <1>2 DEF TreeInv, ContentsCorrect
  <2>2. ASSUME NEW q \in Newest(inserted'), q \notin Stored'
        PROVE  q.del /\ \A x \in Stored' : x.key # q.key
    <3>1. q.key # r.key /\ q \in Newest(inserted)
      BY <1>2, <1>6, <2>2
    <3> QED
      BY <1>2, <2>2, <3>1 DEF TreeInv, ContentsCorrect
  <2> QED
    BY <2>1, <2>2 DEF ContentsCorrect, Newest
<1> QED
  BY <1>3, <1>7, <1>8

\* A compaction keeps it: of the newest version it keeps the record, or drops a
\* tombstone of which nothing older is left anywhere.
LEMMA CompactInv ==
  ASSUME TreeInv, NEW l \in 0..(Bottom - 1), NEW I \in SUBSET lev[l], Compact(l, I)
  PROVE  ContentsCorrect'
<1> DEFINE all == (UNION I) \cup (UNION Overlapping(l + 1, I))
<1>k. \A q \in Records : q.key \in Int /\ q.seq \in Int
  BY LSMConstants
<1>1. TypeOK
  BY DEF TreeInv
<1>2. Stored = Rest(l, I) \cup all
  BY <1>1, CompactStored
<1>3. PICK kept \in SUBSET Heads(all) :
        /\ \A r \in Heads(all) \ kept : CanDrop(r, Rest(l, I))
        /\ Stored' = Rest(l, I) \cup kept
  BY <1>1, CompactStored
<1> HIDE DEF all
<1>4. kept \subseteq all
  BY DEF Heads
<1>5. Stored' \subseteq Stored /\ inserted' = inserted /\ Stored \subseteq inserted /\ inserted \subseteq Records
  BY <1>2, <1>3, <1>4 DEF Compact, TreeInv, ContentsCorrect, TypeOK
<1>6. ASSUME NEW r \in Newest(inserted), r \notin Stored'
      PROVE  r.del /\ \A q \in Stored' : q.key # r.key
  <2>1. CASE r \notin Stored
    BY <1>5, <2>1 DEF TreeInv, ContentsCorrect
  <2>2. CASE r \in Stored
    <3>1. r \in all /\ r \notin kept
      BY <1>2, <1>3, <1>6, <2>2
    <3>2. r \in Heads(all)
      BY <1>2, <1>5, <3>1 DEF Heads, Newest
    <3>3. r.del /\ \A q \in Rest(l, I) : q.key = r.key => q.seq > r.seq
      BY <1>3, <3>1, <3>2 DEF CanDrop
    <3>4. r \in inserted /\ \A q \in inserted : q.key = r.key => q.seq <= r.seq
      BY DEF Newest
    <3>5. ASSUME NEW q \in Rest(l, I), q.key = r.key PROVE FALSE
      <4>1. q.seq > r.seq /\ q.seq <= r.seq
        BY <1>2, <1>5, <3>3, <3>4, <3>5
      <4>2. q.seq \in Int /\ r.seq \in Int
        BY <1>2, <1>5, <1>k, <3>4
      <4> QED
        BY <4>1, <4>2
    <3>6. ASSUME NEW q \in kept, q.key = r.key PROVE FALSE
      <4>1. q \in inserted
        BY <1>2, <1>4, <1>5
      <4>2. q.seq <= r.seq /\ r.seq <= q.seq
        BY <3>1, <3>4, <3>6, <4>1 DEF Heads
      <4>3. q.seq \in Int /\ r.seq \in Int
        BY <1>5, <1>k, <3>4, <4>1
      <4>4. q = r
        BY <3>4, <3>6, <4>1, <4>2, <4>3 DEF TreeInv, Unique
      <4> QED
        BY <3>1, <4>4
    <3> QED
      BY <1>3, <3>3, <3>5, <3>6
  <2> QED
    BY <2>1, <2>2
<1> QED
  BY <1>5, <1>6 DEF ContentsCorrect, Newest

\* Every step keeps the invariant.
LEMMA TreeStep == TreeInv /\ [Next]_vars => TreeInv'
<1> SUFFICES ASSUME TreeInv, [Next]_vars PROVE TreeInv'
  OBVIOUS
<1>1. TypeOK /\ TypeOK'
  BY TypeStep DEF TreeInv
<1>2. ASSUME NEW r \in Records, Insert(r) PROVE (Unique /\ HasNewest /\ ContentsCorrect)'
  BY <1>2, InsertInv
<1>3. CASE Freeze \/ (\E m \in imm : Flush(m)) \/ UNCHANGED vars
  <2>1. Stored' = Stored /\ inserted' = inserted
    BY <1>1, <1>3, MoveStored
  <2> QED
    BY <1>1, <2>1 DEF TreeInv, Unique, HasNewest, ContentsCorrect, Newest
<1>4. ASSUME NEW l \in 0..(Bottom - 1), NEW I \in SUBSET lev[l], Compact(l, I)
      PROVE  (Unique /\ HasNewest /\ ContentsCorrect)'
  <2>1. ContentsCorrect'
    BY <1>4, CompactInv
  <2>2. inserted' = inserted
    BY <1>4 DEF Compact
  <2> QED
    BY <2>1, <2>2 DEF TreeInv, Unique, HasNewest, Newest
<1> QED
  BY <1>1, <1>2, <1>3, <1>4 DEF Next, TreeInv

\* No write is lost and no deleted value comes back, whichever memtables are
\* flushed in whichever order, whichever tables are compacted, and whichever of
\* the tombstones that may be dropped are dropped.
THEOREM ContentsCorrectHolds == Spec => []ContentsCorrect
<1>1. Init => TreeInv
  BY DEF Init, TreeInv, TypeOK, Unique, HasNewest, ContentsCorrect, Newest, Stored, Tables
<1>2. TreeInv => ContentsCorrect
  BY DEF TreeInv
<1> QED
  BY <1>1, <1>2, TreeStep, PTL DEF Spec

----------------------------------------------------------------------------
\* What a reader sees in the tree is what the writes made of the dictionary.
LEMMA ViewOfInserted == TreeInv => View(Stored) = View(inserted)
<1> SUFFICES ASSUME TreeInv PROVE View(Stored) = View(inserted)
  OBVIOUS
<1>k. \A q \in Records : q.key \in Int /\ q.seq \in Int
  BY LSMConstants
<1>1. Stored \subseteq inserted /\ inserted \subseteq Records
  BY DEF TreeInv, ContentsCorrect, TypeOK
<1>2. ASSUME NEW r \in Newest(inserted), ~r.del PROVE r \in Newest(Stored)
  <2>1. r \in Stored
    BY <1>2 DEF TreeInv, ContentsCorrect
  <2> QED
    BY <1>1, <2>1 DEF Newest
<1>3. ASSUME NEW r \in Newest(Stored) PROVE r \in Newest(inserted)
  <2>1. r \in Stored /\ r \in inserted
    BY <1>1 DEF Newest
  <2>2. PICK n \in Newest(inserted) : n.key = r.key
    BY <2>1 DEF TreeInv, HasNewest
  <2>3. n \in Stored /\ n \in inserted
    BY <2>1, <2>2 DEF TreeInv, ContentsCorrect, Newest
  <2>4. n.seq <= r.seq /\ r.seq <= n.seq
    BY <2>1, <2>2, <2>3 DEF Newest
  <2>5. n = r
    BY <1>1, <1>k, <2>1, <2>2, <2>3, <2>4 DEF TreeInv, Unique
  <2> QED
    BY <2>5
<1>4. \A k \in UserKeys : {r \in Newest(Stored) : r.key = k /\ ~r.del}
                        = {r \in Newest(inserted) : r.key = k /\ ~r.del}
  BY <1>2, <1>3
<1> QED
  BY <1>4 DEF View

\* A write changes the entry of its key in the dictionary, and no other.
LEMMA InsertView ==
  ASSUME TreeInv, NEW r \in Records, Insert(r)
  PROVE  View(inserted') = [View(inserted) EXCEPT ![r.key] = IF r.del THEN {} ELSE {r}]
<1>k. \A q \in Records : q.key \in Int /\ q.seq \in Int
  BY LSMConstants
<1>1. /\ \A q \in inserted : q.key = r.key => q.seq < r.seq
      /\ inserted' = inserted \cup {r} /\ inserted \subseteq Records
  BY DEF Insert, TreeInv, TypeOK
<1>2. \A q : q \in Newest(inserted') /\ q.key = r.key <=> q = r
  BY <1>1, <1>k DEF Newest
<1>3. \A q : q.key # r.key => (q \in Newest(inserted') <=> q \in Newest(inserted))
  BY <1>1 DEF Newest
<1>4. ASSUME NEW k \in UserKeys, k # r.key
      PROVE  View(inserted')[k] = View(inserted)[k]
  BY <1>3, <1>4 DEF View
<1>5. View(inserted')[r.key] = IF r.del THEN {} ELSE {r}
  <2>1. r.key \in UserKeys
    BY DEF UserKeys
  <2>2. CASE r.del
    <3>1. {q \in Newest(inserted') : q.key = r.key /\ ~q.del} = {}
      BY <1>2, <2>2
    <3> QED
      BY <2>1, <2>2, <3>1 DEF View
  <2>3. CASE ~r.del
    <3>1. {q \in Newest(inserted') : q.key = r.key /\ ~q.del} = {r}
      BY <1>2, <2>3
    <3> QED
      BY <2>1, <2>3, <3>1 DEF View
  <2> QED
    BY <2>2, <2>3
<1> QED
  BY <1>4, <1>5 DEF View

\* The tree implements a key-value store: a Put or a Delete changes the entry of
\* its key when it reaches the memtable; freezing, flushing and compacting are
\* invisible to every reader, for any number of levels and records.
THEOREM TreeImplementsKV == Spec => ImplementsKV
<1>1. Init => KV!Init
  BY DEF Init, KV!Init, View, Newest, Stored, Tables
<1>2. TreeInv /\ TreeInv' /\ [Next]_vars => [KV!Next]_(View(Stored))
  <2> SUFFICES ASSUME TreeInv, TreeInv', [Next]_vars
               PROVE  KV!Next \/ View(Stored)' = View(Stored)
    OBVIOUS
  <2>1. View(Stored) = View(inserted)
    BY ViewOfInserted
  <2>2. View(Stored)' = View(inserted')
    <3>1. (View(Stored) = View(inserted))'
      BY ViewOfInserted, PTL
    <3> QED
      BY <3>1
  <2>3. ASSUME NEW r \in Records, Insert(r) PROVE KV!Next
    <3>1. View(Stored)' = [View(Stored) EXCEPT ![r.key] = IF r.del THEN {} ELSE {r}]
      BY <2>1, <2>2, <2>3, InsertView
    <3>2. r.key \in UserKeys
      BY DEF UserKeys
    <3>3. CASE r.del
      BY <3>1, <3>2, <3>3 DEF KV!Next, KV!Delete
    <3>4. CASE ~r.del
      BY <3>1, <3>2, <3>4 DEF KV!Next, KV!Put
    <3> QED
      BY <3>3, <3>4
  <2>4. CASE inserted' = inserted
    BY <2>1, <2>2, <2>4
  <2>5. (\E r \in Records : Insert(r)) \/ inserted' = inserted
    BY DEF Next, Freeze, Flush, Compact, vars
  <2> QED
    BY <2>3, <2>4, <2>5
<1>3. Init => TreeInv
  BY DEF Init, TreeInv, TypeOK, Unique, HasNewest, ContentsCorrect, Newest, Stored, Tables
<1> QED
  BY <1>1, <1>2, <1>3, TreeStep, PTL DEF Spec, ImplementsKV, KV!Spec
=============================================================================
