------------------------- MODULE InternalKeyProofs -------------------------
(***************************************************************************)
(* Facts about numbers and about sets of records that the proofs share:    *)
(* induction, least elements, and the first and the last record of a set   *)
(* in internal-key order.                                                  *)
(*                                                                         *)
(* The inductions go through the least element of a set of naturals: the   *)
(* induction theorems of the library take an operator as a parameter.      *)
(***************************************************************************)
EXTENDS InternalKey, FiniteSetsExt, FiniteSetTheorems, TLAPS

\* Every non-empty set of naturals has a least element: the intervals 1..n are
\* finite sets, and strict inclusion is well-founded on these.
LEMMA LeastNat ==
  ASSUME NEW T \in SUBSET Nat, T # {}
  PROVE  \E x \in T : \A y \in T : x <= y
<1> DEFINE R == StrictSubsetOrdering(Nat)
           U == {1..n : n \in T}
<1>1. U \subseteq FiniteSubsetsOf(Nat) /\ U # {}
  <2>1. ASSUME NEW n \in T PROVE IsFiniteSet(1..n) /\ 1..n \subseteq Nat
    BY FS_Interval
  <2> QED
    BY <2>1 DEF FiniteSubsetsOf
<1>2. IsWellFoundedOn(R, FiniteSubsetsOf(Nat))
  BY FS_StrictSubsetOrderingWellFounded
<1>3. PICK u \in U : \A v \in U : <<v, u>> \notin R
  BY <1>1, <1>2, WFMin
<1>4. PICK x \in T : u = 1..x
  OBVIOUS
<1>5. ASSUME NEW y \in T, y < x PROVE FALSE
  <2>1. 1..y \subseteq 1..x /\ x \in 1..x /\ x \notin 1..y
    BY <1>5
  <2>2. <<1..y, 1..x>> \in R
    BY <2>1 DEF StrictSubsetOrdering
  <2> QED
    BY <1>3, <1>4, <2>2
<1> QED
  BY <1>5

\* Induction up to n, for the set of the numbers that have the property.
LEMMA UpTo ==
  ASSUME NEW n \in Nat, NEW P, 0 \in P, \A i \in 0..n : i \in P /\ i < n => i + 1 \in P
  PROVE  \A i \in 0..n : i \in P
<1> DEFINE T == {i \in 0..n : i \notin P}
<1>1. SUFFICES ASSUME T # {} PROVE FALSE
  OBVIOUS
<1>2. PICK x \in T : \A y \in T : x <= y
  <2>1. T \in SUBSET Nat
    OBVIOUS
  <2> QED
    BY <1>1, <2>1, LeastNat
<1>3. x \in 0..n /\ x \notin P /\ x # 0
  OBVIOUS
<1>4. x - 1 \in 0..n /\ x - 1 < n
  BY <1>3
<1>5. x - 1 \in P
  BY <1>2, <1>4
<1>6. (x - 1) + 1 \in P
  BY <1>4, <1>5
<1> QED
  BY <1>3, <1>6

\* Min of a set of naturals is in the set and bounds it.
LEMMA MinIn ==
  ASSUME NEW T \in SUBSET Nat, T # {}
  PROVE  Min(T) \in T /\ \A y \in T : Min(T) <= y
<1>1. \E x \in T : \A y \in T : x <= y
  BY LeastNat
<1> QED
  BY <1>1 DEF Min

\* Max of two naturals is one of them, and bounds them.
LEMMA MaxOfTwo ==
  ASSUME NEW a \in Nat, NEW b \in Nat
  PROVE  Max({a, b}) \in {a, b} /\ Max({a, b}) >= a /\ Max({a, b}) >= b
<1>1. \E x \in {a, b} : \A y \in {a, b} : x >= y
  OBVIOUS
<1> QED
  BY <1>1 DEF Max

\* A finite set that a relation orders strictly has an element nothing is before.
LEMMA LeastOf ==
  ASSUME NEW S, IsFiniteSet(S), S # {}, NEW R,
         \A a \in S : <<a, a>> \notin R,
         \A a, b, c \in S : <<a, b>> \in R /\ <<b, c>> \in R => <<a, c>> \in R
  PROVE  \E x \in S : \A y \in S : <<y, x>> \notin R
<1> DEFINE D(a) == {b \in S : <<b, a>> \in R}
           Q == StrictSubsetOrdering(S)
           U == {D(a) : a \in S}
<1>1. U \subseteq FiniteSubsetsOf(S) /\ U # {}
  <2>1. ASSUME NEW a \in S PROVE IsFiniteSet(D(a)) /\ D(a) \subseteq S
    BY FS_Subset
  <2> HIDE DEF D
  <2> QED
    BY <2>1 DEF FiniteSubsetsOf
<1>2. IsWellFoundedOn(Q, FiniteSubsetsOf(S))
  BY FS_StrictSubsetOrderingWellFounded
<1>3. PICK u \in U : \A v \in U : <<v, u>> \notin Q
  BY <1>1, <1>2, WFMin
<1>4. PICK x \in S : u = D(x)
  OBVIOUS
<1>5. ASSUME NEW y \in S, <<y, x>> \in R PROVE FALSE
  <2>1. D(y) \subseteq D(x) /\ y \in D(x) /\ y \notin D(y)
    BY <1>5
  <2>2. <<D(y), D(x)>> \in Q
    BY <2>1 DEF StrictSubsetOrdering
  <2> QED
    BY <1>3, <1>4, <2>2
<1> QED
  BY <1>5

\* What a set of records is for FirstOf and LastOf: no two of the same value.
Numbered(S) ==
  /\ \A r \in S : r.key \in Int /\ r.seq \in Int /\ r.val \in Int
  /\ \A r, q \in S : r.val = q.val => r = q

\* The order of records in a memtable and in a table, as FirstOf has it.
Ahead(r, q) == Compare(r, q) < 0 \/ (Compare(r, q) = 0 /\ r.val > q.val)

\* It is a strict total order.
LEMMA AheadOrders ==
  ASSUME NEW S, Numbered(S)
  PROVE  /\ \A a \in S : ~Ahead(a, a)
         /\ \A a, b, c \in S : Ahead(a, b) /\ Ahead(b, c) => Ahead(a, c)
         /\ \A a, b \in S : a # b => Ahead(a, b) \/ Ahead(b, a)
         /\ \A a, b \in S : Ahead(a, b) <=> Compare(b, a) > 0 \/ (Compare(b, a) = 0 /\ b.val < a.val)
<1>1. \A a \in S : ~Ahead(a, a)
  BY DEF Ahead, Compare, Numbered
<1>2. \A a, b, c \in S : Ahead(a, b) /\ Ahead(b, c) => Ahead(a, c)
  <2> SUFFICES ASSUME NEW a \in S, NEW b \in S, NEW c \in S, Ahead(a, b), Ahead(b, c)
               PROVE  Ahead(a, c)
    OBVIOUS
  <2>1. \A r \in {a, b, c} : r.key \in Int /\ r.seq \in Int /\ r.val \in Int
    BY DEF Numbered
  <2> QED
    BY <2>1 DEF Ahead, Compare
<1>3. \A a, b \in S : a # b => Ahead(a, b) \/ Ahead(b, a)
  BY DEF Ahead, Compare, Numbered
<1>4. \A a, b \in S : Ahead(a, b) <=> Compare(b, a) > 0 \/ (Compare(b, a) = 0 /\ b.val < a.val)
  <2> SUFFICES ASSUME NEW a \in S, NEW b \in S
               PROVE  Ahead(a, b) <=> Compare(b, a) > 0 \/ (Compare(b, a) = 0 /\ b.val < a.val)
    OBVIOUS
  <2>1. \A r \in {a, b} : r.key \in Int /\ r.seq \in Int /\ r.val \in Int
    BY DEF Numbered
  <2> QED
    BY <2>1 DEF Ahead, Compare
<1> QED
  BY <1>1, <1>2, <1>3, <1>4

\* A non-empty finite set of records has one that is ahead of the others ...
LEMMA FirstIsAhead ==
  ASSUME NEW S, IsFiniteSet(S), S # {}, Numbered(S)
  PROVE  FirstOf(S) \in S /\ \A q \in S \ {FirstOf(S)} : Ahead(FirstOf(S), q)
<1> DEFINE R == {p \in S \X S : Ahead(p[1], p[2])}
<1>1. \A a \in S : <<a, a>> \notin R
  BY AheadOrders
<1>2. \A a, b, c \in S : <<a, b>> \in R /\ <<b, c>> \in R => <<a, c>> \in R
  BY AheadOrders
<1> HIDE DEF R
<1>3. PICK x \in S : \A y \in S : <<y, x>> \notin R
  BY <1>1, <1>2, LeastOf
<1>4. \A q \in S \ {x} : Ahead(x, q)
  BY <1>3, AheadOrders DEF R
<1> QED
  BY <1>4 DEF FirstOf, Ahead

\* ... and one that the others are ahead of.
LEMMA LastIsBehind ==
  ASSUME NEW S, IsFiniteSet(S), S # {}, Numbered(S)
  PROVE  LastOf(S) \in S /\ \A q \in S \ {LastOf(S)} : Ahead(q, LastOf(S))
<1> DEFINE R == {p \in S \X S : Ahead(p[2], p[1])}
<1>1. \A a \in S : <<a, a>> \notin R
  BY AheadOrders
<1>2. \A a, b, c \in S : <<a, b>> \in R /\ <<b, c>> \in R => <<a, c>> \in R
  BY AheadOrders
<1> HIDE DEF R
<1>3. PICK x \in S : \A y \in S : <<y, x>> \notin R
  BY <1>1, <1>2, LeastOf
<1>4. \A q \in S \ {x} : Ahead(q, x)
  BY <1>3, AheadOrders DEF R
<1>5. \A q \in S \ {x} : Compare(x, q) > 0 \/ (Compare(x, q) = 0 /\ x.val < q.val)
  BY <1>4, AheadOrders
<1>6. LastOf(S) \in S /\ \A q \in S \ {LastOf(S)} : Compare(LastOf(S), q) > 0 \/ (Compare(LastOf(S), q) = 0 /\ LastOf(S).val < q.val)
  BY <1>5 DEF LastOf
<1> QED
  BY <1>6, AheadOrders

\* The records of a non-empty finite set have a first and a last one in
\* internal-key order.
LEMMA FirstAndLast ==
  ASSUME NEW S, IsFiniteSet(S), S # {}, Numbered(S)
  PROVE  FirstOf(S) \in S /\ LastOf(S) \in S
BY FirstIsAhead, LastIsBehind
=============================================================================
