-------------------------- MODULE EngineTypeProofs --------------------------
(***************************************************************************)
(* What the variables of the storage engine hold, proved for any number of *)
(* clients, keys, levels, restarts and failing file operations: their      *)
(* types, that every record anywhere was issued, that lock and flag belong *)
(* to who is at work, and that a stopped process keeps nothing in memory.  *)
(*                                                                         *)
(* First what the operators of Meta compute, for every sequence: which     *)
(* tables a filter keeps and in which order, where the binary search of    *)
(* sort.Search can end, and that applying a version edit in memory and     *)
(* reading it back from the manifest have the same result.                 *)
(***************************************************************************)
EXTENDS Engine, InternalKeyProofs

\* f is the function Filter(s, K) is computed with, up to n.
Kept(f, s, K, n) ==
  f = [i \in 0..n |-> IF i = 0 THEN <<>>
                      ELSE IF s[i] \in K THEN Append(f[i - 1], s[i]) ELSE f[i - 1]]

\* The recursion of Filter defines a function.
LEMMA KeptExists == ASSUME NEW s, NEW K, NEW n \in Nat PROVE \E f : Kept(f, s, K, n)
<1> DEFINE P == {i \in Nat : \E f : Kept(f, s, K, i)}
<1>1. 0 \in P
  <2>1. Kept([i \in 0..0 |-> <<>>], s, K, 0)
    BY DEF Kept
  <2> QED
    BY <2>1
<1>2. ASSUME NEW i \in 0..n, i \in P, i < n PROVE i + 1 \in P
  <2>1. PICK f : Kept(f, s, K, i)
    BY <1>2
  <2> DEFINE last == IF s[i + 1] \in K THEN Append(f[i], s[i + 1]) ELSE f[i]
             g == [j \in 0..(i + 1) |-> IF j = i + 1 THEN last ELSE f[j]]
  <2>2. ASSUME NEW j \in 0..(i + 1)
        PROVE  g[j] = IF j = 0 THEN <<>>
                      ELSE IF s[j] \in K THEN Append(g[j - 1], s[j]) ELSE g[j - 1]
    <3>1. CASE j = i + 1
      BY <3>1
    <3>2. CASE j # i + 1
      <4>1. j \in 0..i /\ (j # 0 => j - 1 \in 0..i)
        BY <3>2
      <4>2. f[j] = IF j = 0 THEN <<>>
                   ELSE IF s[j] \in K THEN Append(f[j - 1], s[j]) ELSE f[j - 1]
        BY <2>1, <4>1 DEF Kept
      <4>3. g[j] = f[j] /\ (j # 0 => g[j - 1] = f[j - 1])
        BY <4>1
      <4> QED
        BY <4>2, <4>3
    <3> QED
      BY <3>1, <3>2
  <2>3. Kept(g, s, K, i + 1)
    BY <2>2 DEF Kept
  <2> QED
    BY <2>3
<1> HIDE DEF P
<1>3. n \in P
  BY <1>1, <1>2, UpTo
<1> QED
  BY <1>3 DEF P

\* Filter(s, K) is the last value of that function.
LEMMA FilterKept ==
  ASSUME NEW S, NEW s \in Seq(S), NEW K
  PROVE  \E f : Kept(f, s, K, Len(s)) /\ Filter(s, K) = f[Len(s)]
<1> DEFINE f == CHOOSE g : Kept(g, s, K, Len(s))
<1>1. Kept(f, s, K, Len(s))
  BY KeptExists
<1>2. Filter(s, K) = f[Len(s)]
  BY DEF Filter, Kept
<1> QED
  BY <1>1, <1>2

\* The recursion starts with nothing kept ...
LEMMA KeptFirst == ASSUME NEW s, NEW K, NEW n \in Nat, NEW f, Kept(f, s, K, n) PROVE f[0] = <<>>
BY DEF Kept

\* ... and looks at one element a step.
LEMMA KeptNext ==
  ASSUME NEW s, NEW K, NEW n \in Nat, NEW f, Kept(f, s, K, n), NEW i \in 0..n, i < n
  PROVE  f[i + 1] = IF s[i + 1] \in K THEN Append(f[i], s[i + 1]) ELSE f[i]
<1>1. i + 1 \in 0..n /\ i + 1 # 0 /\ (i + 1) - 1 = i
  OBVIOUS
<1> QED
  BY <1>1 DEF Kept

\* A filter of a sequence is a sequence of those of its elements that pass the test.
LEMMA FilterElements ==
  ASSUME NEW S, NEW s \in Seq(S), NEW K
  PROVE  /\ Filter(s, K) \in Seq(S)
         /\ ToSet(Filter(s, K)) = ToSet(s) \cap K
<1>1. PICK f : Kept(f, s, K, Len(s)) /\ Filter(s, K) = f[Len(s)]
  BY FilterKept
<1> DEFINE n == Len(s)
           From(t, i) == \A k \in 1..Len(t) : \E j \in 1..i : t[k] = s[j] /\ s[j] \in K
           Has(t, i) == \A j \in 1..i : s[j] \in K => \E k \in 1..Len(t) : t[k] = s[j]
           Good(t, i) == t \in Seq(S) /\ From(t, i) /\ Has(t, i)
           P == {i \in 0..n : Good(f[i], i)}
<1>2. n \in Nat /\ \A i \in 0..n : i < n => s[i + 1] \in S
  OBVIOUS
<1>3. 0 \in P
  <2>1. f[0] = <<>>
    BY <1>1, <1>2, KeptFirst
  <2>2. Good(<<>>, 0)
    OBVIOUS
  <2> HIDE DEF Good
  <2>3. Good(f[0], 0)
    BY <2>1, <2>2, Zenon
  <2> QED
    BY <1>2, <2>3
<1>4. ASSUME NEW i \in 0..n, i \in P, i < n PROVE i + 1 \in P
  <2>1. f[i + 1] = IF s[i + 1] \in K THEN Append(f[i], s[i + 1]) ELSE f[i]
    <3>1. Kept(f, s, K, n) /\ n \in Nat /\ i \in 0..n /\ i < n
      BY <1>1, <1>2, <1>4
    <3> HIDE DEF n, P
    <3> QED
      BY <3>1, KeptNext
  <2>2. /\ i \in Nat /\ i + 1 \in 0..n /\ i + 1 \in 1..(i + 1) /\ 1..i \subseteq 1..(i + 1)
        /\ \A j \in 1..(i + 1) : j \in 1..i \/ j = i + 1
    BY <1>4
  <2> DEFINE t == f[i]
             e == s[i + 1]
  <2>3. t \in Seq(S) /\ From(t, i) /\ Has(t, i) /\ e \in S
    BY <1>2, <1>4
  <2> HIDE DEF t, e
  <2>4. CASE e \in K
    <3>1. /\ Append(t, e) \in Seq(S) /\ Len(Append(t, e)) = Len(t) + 1 /\ Len(t) \in Nat
          /\ \A k \in 1..Len(t) : Append(t, e)[k] = t[k]
          /\ Append(t, e)[Len(t) + 1] = e
      BY <2>3
    <3>2. From(Append(t, e), i + 1)
      <4> SUFFICES ASSUME NEW k \in 1..Len(Append(t, e))
                   PROVE  \E j \in 1..(i + 1) : Append(t, e)[k] = s[j] /\ s[j] \in K
        OBVIOUS
      <4>1. CASE k = Len(t) + 1
        BY <2>2, <2>4, <3>1, <4>1 DEF e
      <4>2. CASE k # Len(t) + 1
        <5>1. k \in 1..Len(t) /\ Append(t, e)[k] = t[k]
          BY <3>1, <4>2
        <5>2. PICK j \in 1..i : t[k] = s[j] /\ s[j] \in K
          BY <2>3, <5>1
        <5> QED
          BY <2>2, <5>1, <5>2
      <4> QED
        BY <4>1, <4>2
    <3>3. Has(Append(t, e), i + 1)
      BY <2>2, <2>3, <3>1 DEF e
    <3>4. f[i + 1] = Append(t, e)
      BY <2>1, <2>4 DEF t, e
    <3> QED
      BY <2>2, <3>1, <3>2, <3>3, <3>4
  <2>5. CASE e \notin K
    <3>1. f[i + 1] = t
      BY <2>1, <2>5 DEF t, e
    <3>2. From(t, i + 1) /\ Has(t, i + 1)
      BY <2>2, <2>3, <2>5 DEF e
    <3> QED
      BY <2>2, <2>3, <3>1, <3>2
  <2> QED
    BY <2>4, <2>5
<1> HIDE DEF P
<1>5. \A i \in 0..n : i \in P
  BY <1>2, <1>3, <1>4, UpTo
<1>6. ASSUME NEW t, Good(t, n) PROVE t \in Seq(S) /\ ToSet(t) = ToSet(s) \cap K
  <2>1. DOMAIN t = 1..Len(t) /\ DOMAIN s = 1..n
    BY <1>6
  <2>2. ASSUME NEW x \in ToSet(t) PROVE x \in ToSet(s) \cap K
    <3>1. PICK k \in 1..Len(t) : x = t[k]
      BY <2>1 DEF ToSet
    <3>2. PICK j \in 1..n : t[k] = s[j] /\ s[j] \in K
      BY <1>6
    <3> QED
      BY <2>1, <3>1, <3>2 DEF ToSet
  <2>3. ASSUME NEW x \in ToSet(s), x \in K PROVE x \in ToSet(t)
    <3>1. PICK j \in 1..n : x = s[j]
      BY <2>1 DEF ToSet
    <3>2. PICK k \in 1..Len(t) : t[k] = s[j]
      BY <1>6, <2>3, <3>1
    <3> QED
      BY <2>1, <3>1, <3>2 DEF ToSet
  <2> QED
    BY <1>6, <2>2, <2>3
<1> HIDE DEF Good
<1>7. Good(f[n], n)
  BY <1>2, <1>5 DEF P
<1>8. Good(Filter(s, K), n)
  BY <1>1, <1>7, Zenon
<1> QED
  BY <1>6, <1>8

\* Two filters that agree on a sequence, or on a common beginning, have the same
\* result there.
LEMMA KeptSame ==
  ASSUME NEW s, NEW t, NEW K, NEW L, NEW m \in Nat, NEW n \in Nat, m <= n,
         NEW f, NEW g, Kept(f, s, K, m), Kept(g, t, L, n),
         \A i \in 1..m : s[i] = t[i] /\ (s[i] \in K <=> t[i] \in L)
  PROVE  \A i \in 0..m : f[i] = g[i]
<1> DEFINE P == {i \in 0..m : f[i] = g[i]}
<1>1. 0 \in P
  BY KeptFirst
<1>2. ASSUME NEW i \in 0..m, i \in P, i < m PROVE i + 1 \in P
  <2>1. i + 1 \in 1..m /\ i \in 0..n /\ i < n
    BY <1>2
  <2>2. f[i + 1] = IF s[i + 1] \in K THEN Append(f[i], s[i + 1]) ELSE f[i]
    BY <1>2, KeptNext
  <2>3. g[i + 1] = IF t[i + 1] \in L THEN Append(g[i], t[i + 1]) ELSE g[i]
    BY <2>1, KeptNext
  <2> QED
    BY <1>2, <2>1, <2>2, <2>3
<1> HIDE DEF P
<1>3. \A i \in 0..m : i \in P
  BY <1>1, <1>2, UpTo
<1> QED
  BY <1>3 DEF P

\* Only what a filter says of the elements of the sequence matters.
LEMMA FilterSame ==
  ASSUME NEW S, NEW s \in Seq(S), NEW K, NEW L, \A i \in 1..Len(s) : s[i] \in K <=> s[i] \in L
  PROVE  Filter(s, K) = Filter(s, L)
<1>1. PICK f : Kept(f, s, K, Len(s)) /\ Filter(s, K) = f[Len(s)]
  BY FilterKept
<1>2. PICK g : Kept(g, s, L, Len(s)) /\ Filter(s, L) = g[Len(s)]
  BY FilterKept
<1>3. Len(s) \in Nat /\ Len(s) <= Len(s) /\ Len(s) \in 0..Len(s)
  OBVIOUS
<1>4. \A i \in 1..Len(s) : s[i] = s[i] /\ (s[i] \in K <=> s[i] \in L)
  OBVIOUS
<1>5. \A i \in 0..Len(s) : f[i] = g[i]
  BY <1>1, <1>2, <1>3, <1>4, KeptSame
<1> QED
  BY <1>1, <1>2, <1>3, <1>5

\* A filter that every element passes changes nothing.
LEMMA FilterAll ==
  ASSUME NEW S, NEW s \in Seq(S), NEW K, \A i \in 1..Len(s) : s[i] \in K
  PROVE  Filter(s, K) = s
<1>1. PICK f : Kept(f, s, K, Len(s)) /\ Filter(s, K) = f[Len(s)]
  BY FilterKept
<1> DEFINE n == Len(s)
           P == {i \in 0..n : f[i] = SubSeq(s, 1, i)}
<1>2. n \in Nat
  OBVIOUS
<1>3. 0 \in P
  <2>1. SubSeq(s, 1, 0) = <<>>
    OBVIOUS
  <2>2. f[0] = <<>>
    BY <1>1, <1>2, KeptFirst
  <2>3. f[0] = SubSeq(s, 1, 0)
    BY <2>1, <2>2, Zenon
  <2> QED
    BY <1>2, <2>3
<1>4. ASSUME NEW i \in 0..n, i \in P, i < n PROVE i + 1 \in P
  <2>1. f[i + 1] = IF s[i + 1] \in K THEN Append(f[i], s[i + 1]) ELSE f[i]
    BY <1>1, <1>2, <1>4, KeptNext
  <2>2. i + 1 \in 1..n /\ i + 1 \in 0..n
    BY <1>4
  <2>3. SubSeq(s, 1, i + 1) = Append(SubSeq(s, 1, i), s[i + 1])
    BY <1>4, <2>2
  <2> QED
    BY <1>4, <2>1, <2>2, <2>3
<1> HIDE DEF P
<1>5. \A i \in 0..n : i \in P
  BY <1>2, <1>3, <1>4, UpTo
<1>6. SubSeq(s, 1, n) = s
  OBVIOUS
<1>7. f[n] = SubSeq(s, 1, n)
  BY <1>2, <1>5 DEF P
<1> QED
  BY <1>1, <1>6, <1>7, Zenon

\* Sequences of one length with the same elements are equal.
LEMMA SeqEqual ==
  ASSUME NEW S, NEW s \in Seq(S), NEW t \in Seq(S), Len(s) = Len(t),
         \A i \in 1..Len(s) : s[i] = t[i]
  PROVE  s = t
  OBVIOUS

\* Sequences and concatenation under names, which the provers leave alone.
IsSeq(s, S) == s \in Seq(S)
Concat(x, y) == x \o y

\* Appending to a concatenation appends to its second part.
LEMMA AppendConcat ==
  ASSUME NEW S, NEW a \in Seq(S), NEW b \in Seq(S), NEW c \in S
  PROVE  Append(Concat(a, b), c) = Concat(a, Append(b, c))
<1>1. Append(a \o b, c) \in Seq(S) /\ a \o Append(b, c) \in Seq(S)
  OBVIOUS
<1>2. Len(Append(a \o b, c)) = Len(a \o Append(b, c))
  OBVIOUS
<1>3. \A i \in 1..Len(Append(a \o b, c)) : Append(a \o b, c)[i] = (a \o Append(b, c))[i]
  OBVIOUS
<1> QED
  BY <1>1, <1>2, <1>3, SeqEqual DEF Concat

\* A filter takes the parts of a sequence one after the other.
LEMMA FilterConcatenated ==
  ASSUME NEW S, NEW s, NEW t, NEW K, IsSeq(s, S), IsSeq(t, S)
  PROVE  Filter(Concat(s, t), K) = Concat(Filter(s, K), Filter(t, K))
<1> DEFINE m == Len(s)
           n == Len(t)
           w == Concat(s, t)
<1>0. /\ m \in Nat /\ n \in Nat /\ w \in Seq(S) /\ Len(w) = m + n
      /\ \A i \in 1..m : s[i] = w[i]
      /\ \A i \in 1..n : t[i] = w[m + i] /\ t[i] \in S
  BY DEF IsSeq, Concat
<1>1. PICK f : Kept(f, s, K, m) /\ Filter(s, K) = f[m]
  BY FilterKept DEF IsSeq
<1>2. PICK g : Kept(g, t, K, n) /\ Filter(t, K) = g[n]
  BY FilterKept DEF IsSeq
<1>3. Filter(s, K) \in Seq(S)
  BY FilterElements DEF IsSeq
<1> HIDE DEF m, n, w
<1>4. PICK h : Kept(h, w, K, Len(w)) /\ Filter(w, K) = h[Len(w)]
  BY <1>0, FilterKept
<1>5. Kept(h, w, K, m + n) /\ Filter(w, K) = h[m + n]
  BY <1>0, <1>4, Zenon
<1>6. f[m] \in Seq(S)
  BY <1>1, <1>3, Zenon
<1>7. h[m + n] = Concat(f[m], g[n])
  <2>0. /\ Kept(f, s, K, m) /\ Kept(g, t, K, n) /\ Kept(h, w, K, m + n) /\ f[m] \in Seq(S)
        /\ m \in Nat /\ n \in Nat
        /\ \A i \in 1..m : s[i] = w[i]
        /\ \A i \in 1..n : t[i] = w[m + i] /\ t[i] \in S
    BY <1>0, <1>1, <1>2, <1>5, <1>6
  <2> USE <2>0
  <2> DEFINE F == f[m]
             Good(x, y) == y \in Seq(S) /\ x = Concat(F, y)
             P == {i \in 0..n : Good(h[m + i], g[i])}
  <2>1. h[m] = F
    <3>1. /\ m <= m + n /\ m + n \in Nat /\ m \in 0..m
          /\ \A i \in 1..m : s[i] = w[i] /\ (s[i] \in K <=> w[i] \in K)
      OBVIOUS
    <3>2. \A i \in 0..m : f[i] = h[i]
      BY <3>1, KeptSame
    <3> QED
      BY <3>1, <3>2
  <2>2. F \in Seq(S)
    OBVIOUS
  <2> HIDE DEF F
  <2>3. 0 \in P
    <3>1. g[0] = <<>>
      BY KeptFirst
    <3>2. Good(F, <<>>)
      BY <2>2 DEF Concat
    <3>3. h[m + 0] = F
      BY <2>1
    <3> HIDE DEF Good
    <3>4. Good(h[m + 0], g[0])
      BY <3>1, <3>2, <3>3, Zenon
    <3> QED
      BY <3>4
  <2>4. ASSUME NEW i \in 0..n, i \in P, i < n PROVE i + 1 \in P
    <3>1. g[i + 1] = IF t[i + 1] \in K THEN Append(g[i], t[i + 1]) ELSE g[i]
      BY <2>4, KeptNext
    <3>2. /\ m + n \in Nat /\ m + i \in 0..(m + n) /\ m + i < m + n /\ (m + i) + 1 = m + (i + 1)
          /\ i + 1 \in 1..n /\ i + 1 \in 0..n
      BY <2>4
    <3> DEFINE j == m + i
    <3>3. h[j + 1] = IF w[j + 1] \in K THEN Append(h[j], w[j + 1]) ELSE h[j]
      <4>1. j \in 0..(m + n) /\ j < m + n
        BY <3>2
      <4> HIDE DEF j
      <4> QED
        BY <3>2, <4>1, KeptNext
    <3> DEFINE e == t[i + 1]
               x == h[j]
               y == g[i]
    <3>4. w[j + 1] = e /\ e \in S /\ h[m + (i + 1)] = h[j + 1]
      BY <3>2
    <3>5. Good(x, y)
      BY <2>4
    <3> HIDE DEF x, y, e
    <3>6. Good(Append(x, e), Append(y, e))
      <4>1. y \in Seq(S) /\ x = Concat(F, y)
        BY <3>5
      <4>2. Append(y, e) \in Seq(S)
        BY <3>4, <4>1
      <4>3. Append(Concat(F, y), e) = Concat(F, Append(y, e))
        BY <2>2, <3>4, <4>1, AppendConcat
      <4> QED
        BY <4>1, <4>2, <4>3, Zenon
    <3> HIDE DEF Good
    <3>7. CASE e \in K
      <4>1. g[i + 1] = Append(y, e) /\ h[j + 1] = Append(x, e)
        BY <3>1, <3>3, <3>4, <3>7, Zenon DEF x, y, e
      <4>2. Good(h[m + (i + 1)], g[i + 1])
        BY <3>4, <3>6, <4>1, Zenon
      <4> QED
        BY <3>2, <4>2
    <3>8. CASE e \notin K
      <4>1. g[i + 1] = y /\ h[j + 1] = x
        BY <3>1, <3>3, <3>4, <3>8, Zenon DEF x, y, e
      <4>2. Good(h[m + (i + 1)], g[i + 1])
        BY <3>4, <3>5, <4>1, Zenon
      <4> QED
        BY <3>2, <4>2
    <3> QED
      BY <3>7, <3>8
  <2> HIDE DEF P
  <2>5. \A i \in 0..n : i \in P
    BY <2>3, <2>4, UpTo
  <2>6. Good(h[m + n], g[n])
    <3> HIDE DEF Good
    <3> QED
      BY <2>5 DEF P
  <2> QED
    BY <2>6, Zenon DEF F
<1> QED
  BY <1>1, <1>2, <1>5, <1>7, Zenon DEF w

\* The same, with the concatenation operator itself.
LEMMA FilterConcat ==
  ASSUME NEW S, NEW s \in Seq(S), NEW t \in Seq(S), NEW K
  PROVE  Filter(s \o t, K) = Filter(s, K) \o Filter(t, K)
<1>1. IsSeq(s, S) /\ IsSeq(t, S)
  BY DEF IsSeq
<1>2. Filter(Concat(s, t), K) = Concat(Filter(s, K), Filter(t, K))
  BY <1>1, FilterConcatenated
<1> QED
  BY <1>2, Zenon DEF Concat

----------------------------------------------------------------------------
\* The elements of a sequence, by index.
LEMMA InToSet ==
  ASSUME NEW S, NEW s \in Seq(S)
  PROVE  /\ ToSet(s) \subseteq S
         /\ \A i \in 1..Len(s) : s[i] \in ToSet(s)
         /\ \A x \in ToSet(s) : \E i \in 1..Len(s) : s[i] = x
BY DEF ToSet

\* The elements of a concatenation.
LEMMA ConcatElements ==
  ASSUME NEW S, NEW s \in Seq(S), NEW t \in Seq(S)
  PROVE  s \o t \in Seq(S) /\ ToSet(s \o t) = ToSet(s) \cup ToSet(t)
<1>1. s \o t \in Seq(S)
  OBVIOUS
<1>2. ASSUME NEW x \in ToSet(s \o t) PROVE x \in ToSet(s) \cup ToSet(t)
  <2>1. PICK i \in 1..Len(s \o t) : (s \o t)[i] = x
    BY <1>1, InToSet
  <2>2. CASE i <= Len(s)
    <3>1. i \in 1..Len(s) /\ s[i] = x
      BY <2>1, <2>2
    <3> QED
      BY <3>1, InToSet
  <2>3. CASE i > Len(s)
    <3>1. i - Len(s) \in 1..Len(t) /\ t[i - Len(s)] = x
      BY <2>1, <2>3
    <3> QED
      BY <3>1, InToSet
  <2> QED
    BY <2>2, <2>3
<1>3. ASSUME NEW x \in ToSet(s) PROVE x \in ToSet(s \o t)
  <2>1. PICK i \in 1..Len(s) : s[i] = x
    BY InToSet
  <2>2. i \in 1..Len(s \o t) /\ (s \o t)[i] = x
    BY <2>1
  <2> QED
    BY <1>1, <2>2, InToSet
<1>4. ASSUME NEW x \in ToSet(t) PROVE x \in ToSet(s \o t)
  <2>1. PICK i \in 1..Len(t) : t[i] = x
    BY InToSet
  <2>2. Len(s) + i \in 1..Len(s \o t) /\ (s \o t)[Len(s) + i] = x
    BY <2>1
  <2> QED
    BY <1>1, <2>2, InToSet
<1> QED
  BY <1>1, <1>2, <1>3, <1>4

\* A filter that nothing passes.
LEMMA FilterNone ==
  ASSUME NEW S, NEW s \in Seq(S), NEW K, \A i \in 1..Len(s) : s[i] \notin K
  PROVE  Filter(s, K) = <<>>
<1>1. Filter(s, K) \in Seq(S) /\ ToSet(Filter(s, K)) = ToSet(s) \cap K
  BY FilterElements
<1>2. ToSet(Filter(s, K)) = {}
  BY <1>1, InToSet
<1> HIDE DEF Filter
<1>3. Len(Filter(s, K)) = 0
  BY <1>1, <1>2, InToSet
<1> QED
  BY <1>1, <1>3

\* The tables Without leaves.
LEMMA WithoutElements ==
  ASSUME NEW S, NEW s \in Seq(S), NEW dels
  PROVE  /\ Without(s, dels) \in Seq(S)
         /\ ToSet(Without(s, dels)) = {t \in ToSet(s) : <<t.level, t.num>> \notin dels}
BY FilterElements DEF Without

\* The tables an edit adds to a level.
LEMMA AddsElements ==
  ASSUME NEW S, NEW edit, edit.adds \in Seq(S), NEW l
  PROVE  /\ AddsAt(edit, l) \in Seq(S)
         /\ ToSet(AddsAt(edit, l)) = {t \in ToSet(edit.adds) : t.level = l}
<1> DEFINE a == edit.adds
<1> HIDE DEF a
<1>1. a \in Seq(S)
  BY DEF a
<1>2. Filter(a, {t \in ToSet(a) : t.level = l}) \in Seq(S)
      /\ ToSet(Filter(a, {t \in ToSet(a) : t.level = l})) = ToSet(a) \cap {t \in ToSet(a) : t.level = l}
  BY <1>1, FilterElements
<1> QED
  BY <1>2 DEF AddsAt, a

\* Reading an edit back, which appends the added tables and then deletes, gives what
\* applying it gave, which deletes first: for a level and an edit that does not add
\* a table it deletes.
LEMMA DeleteThenAdd ==
  ASSUME NEW S, NEW s \in Seq(S), NEW a \in Seq(S), NEW dels,
         \A t \in ToSet(a) : <<t.level, t.num>> \notin dels
  PROVE  Without(s \o a, dels) = Without(s, dels) \o a
<1> DEFINE K == {t \in S : <<t.level, t.num>> \notin dels}
           KS(x) == {t \in ToSet(x) : <<t.level, t.num>> \notin dels}
<1>1. ASSUME NEW x \in Seq(S) PROVE Filter(x, KS(x)) = Filter(x, K)
  <2>1. \A i \in 1..Len(x) : x[i] \in S /\ x[i] \in ToSet(x)
    BY InToSet
  <2>2. \A i \in 1..Len(x) : x[i] \in KS(x) <=> x[i] \in K
    BY <2>1
  <2> HIDE DEF KS, K
  <2> QED
    BY <2>2, FilterSame
<1>2. Filter(a, K) = a
  <2>1. \A i \in 1..Len(a) : a[i] \in S /\ a[i] \in ToSet(a)
    BY InToSet
  <2>2. \A i \in 1..Len(a) : a[i] \in K
    BY <2>1
  <2> HIDE DEF K
  <2> QED
    BY <2>2, FilterAll
<1> HIDE DEF K
<1>3. s \o a \in Seq(S)
  OBVIOUS
<1>4. Without(s \o a, dels) = Filter(s \o a, K)
  BY <1>1, <1>3 DEF Without
<1>5. Without(s, dels) = Filter(s, K)
  BY <1>1 DEF Without
<1>6. Filter(s \o a, K) = Filter(s, K) \o Filter(a, K)
  BY FilterConcat
<1> QED
  BY <1>2, <1>4, <1>5, <1>6, Zenon

----------------------------------------------------------------------------
\* No two tables of a sequence have the same number.
Apart(s) == \A i, j \in 1..Len(s) : s[i].num = s[j].num => i = j

\* One more table with a number of its own.
LEMMA AppendApart ==
  ASSUME NEW S, NEW s \in Seq(S), NEW e \in S, Apart(s), \A i \in 1..Len(s) : s[i].num # e.num
  PROVE  Apart(Append(s, e))
<1>1. SUFFICES ASSUME NEW i \in 1..(Len(s) + 1), NEW j \in 1..(Len(s) + 1),
                      Append(s, e)[i].num = Append(s, e)[j].num
               PROVE  i = j
  BY DEF Apart
<1>2. \A k \in 1..Len(s) : Append(s, e)[k] = s[k]
  OBVIOUS
<1>3. Append(s, e)[Len(s) + 1] = e
  OBVIOUS
<1>4. \A k \in 1..(Len(s) + 1) : k \in 1..Len(s) \/ k = Len(s) + 1
  OBVIOUS
<1> QED
  BY <1>1, <1>2, <1>3, <1>4 DEF Apart

\* Two sequences with different numbers.
LEMMA ConcatApart ==
  ASSUME NEW S, NEW s \in Seq(S), NEW t \in Seq(S), Apart(s), Apart(t),
         \A i \in 1..Len(s), j \in 1..Len(t) : s[i].num # t[j].num
  PROVE  Apart(s \o t)
<1>1. SUFFICES ASSUME NEW i \in 1..(Len(s) + Len(t)), NEW j \in 1..(Len(s) + Len(t)),
                      (s \o t)[i].num = (s \o t)[j].num
               PROVE  i = j
  BY DEF Apart
<1>2. \A k \in 1..Len(s) : (s \o t)[k] = s[k]
  OBVIOUS
<1>3. \A k \in 1..(Len(s) + Len(t)) : k > Len(s) => k - Len(s) \in 1..Len(t) /\ (s \o t)[k] = t[k - Len(s)]
  OBVIOUS
<1>4. CASE i <= Len(s) /\ j <= Len(s)
  BY <1>1, <1>2, <1>4 DEF Apart
<1>5. CASE i > Len(s) /\ j > Len(s)
  <2>1. i - Len(s) = j - Len(s)
    BY <1>1, <1>3, <1>5 DEF Apart
  <2> QED
    BY <2>1
<1>6. CASE i <= Len(s) /\ j > Len(s)
  BY <1>1, <1>2, <1>3, <1>6
<1>7. CASE i > Len(s) /\ j <= Len(s)
  <2>1. i - Len(s) \in 1..Len(t) /\ (s \o t)[i] = t[i - Len(s)] /\ (s \o t)[j] = s[j] /\ j \in 1..Len(s)
    BY <1>2, <1>3, <1>7
  <2> QED
    BY <1>1, <2>1
<1> QED
  BY <1>4, <1>5, <1>6, <1>7

\* A filter keeps the numbers apart.
LEMMA FilterApart ==
  ASSUME NEW S, NEW s \in Seq(S), NEW K, Apart(s)
  PROVE  Apart(Filter(s, K))
<1>1. PICK f : Kept(f, s, K, Len(s)) /\ Filter(s, K) = f[Len(s)]
  BY FilterKept
<1> DEFINE n == Len(s)
           Good(x, i) == x \in Seq(S) /\ Apart(x) /\ \A j \in 1..Len(x) : \E k \in 1..i : x[j] = s[k]
           P == {i \in 0..n : Good(f[i], i)}
<1>2. n \in Nat
  OBVIOUS
<1>3. 0 \in P
  <2>1. f[0] = <<>>
    BY <1>1, <1>2, KeptFirst
  <2>2. Good(<<>>, 0)
    BY DEF Apart
  <2> HIDE DEF Good
  <2>3. Good(f[0], 0)
    BY <2>1, <2>2, Zenon
  <2> QED
    BY <1>2, <2>3
<1>4. ASSUME NEW i \in 0..n, i \in P, i < n PROVE i + 1 \in P
  <2>1. f[i + 1] = IF s[i + 1] \in K THEN Append(f[i], s[i + 1]) ELSE f[i]
    <3>1. Kept(f, s, K, n) /\ n \in Nat /\ i \in 0..n /\ i < n
      BY <1>1, <1>2, <1>4
    <3> HIDE DEF n, P
    <3> QED
      BY <3>1, KeptNext
  <2>2. i + 1 \in 1..n /\ i + 1 \in 0..n /\ i \in Nat /\ 1..i \subseteq 1..(i + 1) /\ 1..i \subseteq 1..n
    BY <1>4
  <2> DEFINE x == f[i]
             e == s[i + 1]
  <2>3. Good(x, i)
    BY <1>4
  <2>4. e \in S
    BY <2>2
  <2> HIDE DEF x
  <2>5. Good(x, i + 1)
    BY <2>2, <2>3
  <2>6. Good(Append(x, e), i + 1)
    <3>1. x \in Seq(S) /\ Apart(x) /\ \A j \in 1..Len(x) : \E k \in 1..i : x[j] = s[k]
      BY <2>3
    <3>2. \A j \in 1..Len(x) : x[j].num # e.num
      <4> SUFFICES ASSUME NEW j \in 1..Len(x) PROVE x[j].num # e.num
        OBVIOUS
      <4>1. PICK k \in 1..i : x[j] = s[k]
        BY <3>1
      <4>2. k \in 1..Len(s) /\ i + 1 \in 1..Len(s) /\ k # i + 1
        BY <2>2
      <4> QED
        BY <4>1, <4>2 DEF Apart
    <3>3. Apart(Append(x, e))
      <4> HIDE DEF e
      <4> QED
        BY <2>4, <3>1, <3>2, AppendApart
    <3>4. \A j \in 1..Len(Append(x, e)) : \E k \in 1..(i + 1) : Append(x, e)[j] = s[k]
      <4> SUFFICES ASSUME NEW j \in 1..(Len(x) + 1) PROVE \E k \in 1..(i + 1) : Append(x, e)[j] = s[k]
        BY <2>4, <3>1
      <4>1. CASE j \in 1..Len(x)
        BY <2>2, <2>4, <3>1, <4>1
      <4>2. CASE j = Len(x) + 1
        <5>1. Append(x, e)[j] = e
          BY <2>4, <3>1, <4>2
        <5> QED
          BY <2>2, <5>1
      <4> QED
        BY <3>1, <4>1, <4>2
    <3> QED
      BY <2>4, <3>1, <3>3, <3>4
  <2> HIDE DEF Good
  <2>7. CASE e \in K
    <3>1. f[i + 1] = Append(x, e)
      BY <2>1, <2>7, Zenon DEF x
    <3> QED
      BY <2>2, <2>6, <3>1
  <2>8. CASE e \notin K
    <3>1. f[i + 1] = x
      BY <2>1, <2>8, Zenon DEF x
    <3> QED
      BY <2>2, <2>5, <3>1
  <2> QED
    BY <2>7, <2>8
<1> HIDE DEF P
<1>5. \A i \in 0..n : i \in P
  BY <1>2, <1>3, <1>4, UpTo
<1>6. Apart(f[n])
  BY <1>2, <1>5 DEF P
<1> QED
  BY <1>1, <1>6, Zenon

----------------------------------------------------------------------------
\* The recursion of SortSearch at one interval, with f for the recursive calls.
Bisect(f, hits, i, j) ==
  LET h == (i + j) \div 2
  IN IF i >= j THEN i
     ELSE IF h \in hits THEN f[<<i, h>>] ELSE f[<<h + 1, j>>]
\* f is a function SortSearch is computed with, on the intervals up to length d.
Bisects(f, n, hits, d) ==
  \A i, j \in 0..n : j - i <= d => f[<<i, j>>] = Bisect(f, hits, i, j)

\* f and g are the same on the intervals up to length d.
Agree(f, g, n, d) == \A a, b \in 0..n : b - a <= d => f[<<a, b>>] = g[<<a, b>>]

\* The middle of an interval.
LEMMA Middle ==
  ASSUME NEW i \in Nat, NEW j \in Nat, i < j
  PROVE  (i + j) \div 2 \in Nat /\ i <= (i + j) \div 2 /\ (i + j) \div 2 < j
OBVIOUS

\* What one step of the recursion looks at.
LEMMA BisectStep ==
  ASSUME NEW n \in Nat, NEW hits, NEW d \in Nat, NEW i \in 0..n, NEW j \in 0..n, j - i <= d + 1,
         NEW f, NEW g, Agree(f, g, n, d)
  PROVE  Bisect(f, hits, i, j) = Bisect(g, hits, i, j)
<1>1. CASE i >= j
  BY <1>1 DEF Bisect
<1>2. CASE i < j
  <2> DEFINE h == (i + j) \div 2
  <2>1. h \in Nat /\ i <= h /\ h < j
    BY <1>2, Middle
  <2> HIDE DEF h
  <2>2. h \in 0..n /\ h + 1 \in 0..n /\ h - i <= d /\ j - (h + 1) <= d
    BY <2>1
  <2>3. f[<<i, h>>] = g[<<i, h>>] /\ f[<<h + 1, j>>] = g[<<h + 1, j>>]
    BY <2>2 DEF Agree
  <2>4. ~(i >= j)
    BY <1>2
  <2> QED
    BY <2>3, <2>4, Zenon DEF Bisect, h
<1> QED
  BY <1>1, <1>2

\* The search ends within the interval it starts with.
LEMMA BisectIn ==
  ASSUME NEW n \in Nat, NEW hits, NEW d \in Nat, NEW i \in 0..n, NEW j \in 0..n, j - i <= d + 1,
         NEW f, \A a, b \in 0..n : b - a <= d => f[<<a, b>>] \in 0..n
  PROVE  Bisect(f, hits, i, j) \in 0..n
<1>1. CASE i >= j
  BY <1>1 DEF Bisect
<1>2. CASE i < j
  <2> DEFINE h == (i + j) \div 2
  <2>1. h \in Nat /\ i <= h /\ h < j
    BY <1>2, Middle
  <2> HIDE DEF h
  <2>2. h \in 0..n /\ h + 1 \in 0..n /\ h - i <= d /\ j - (h + 1) <= d
    BY <2>1
  <2>3. f[<<i, h>>] \in 0..n /\ f[<<h + 1, j>>] \in 0..n
    BY <2>2
  <2>4. ~(i >= j)
    BY <1>2
  <2> QED
    BY <2>3, <2>4, Zenon DEF Bisect, h
<1> QED
  BY <1>1, <1>2

\* The recursion of SortSearch defines a function.
LEMMA BisectsExists ==
  ASSUME NEW n \in Nat, NEW hits
  PROVE  \E f : f = [p \in (0..n) \X (0..n) |-> Bisect(f, hits, p[1], p[2])]
<1> DEFINE D == (0..n) \X (0..n)
           P == {d \in 0..n : \E f \in [D -> 0..n] : Bisects(f, n, hits, d)}
<1>1. 0 \in P
  <2> DEFINE f == [p \in D |-> p[1]]
  <2>1. f \in [D -> 0..n]
    OBVIOUS
  <2>2. ASSUME NEW i \in 0..n, NEW j \in 0..n, j - i <= 0 PROVE f[<<i, j>>] = Bisect(f, hits, i, j)
    <3>1. i >= j /\ f[<<i, j>>] = i
      BY <2>2
    <3> HIDE DEF f
    <3> QED
      BY <3>1 DEF Bisect
  <2> HIDE DEF f
  <2>3. Bisects(f, n, hits, 0)
    BY <2>2 DEF Bisects
  <2> QED
    BY <2>1, <2>3
<1>2. ASSUME NEW d \in 0..n, d \in P, d < n PROVE d + 1 \in P
  <2>1. PICK f : f \in [D -> 0..n] /\ Bisects(f, n, hits, d)
    BY <1>2
  <2> DEFINE g == [p \in D |-> Bisect(f, hits, p[1], p[2])]
  <2>2. ASSUME NEW i \in 0..n, NEW j \in 0..n PROVE Bisect(f, hits, i, j) \in 0..n
    <3>1. j - i <= n + 1
      OBVIOUS
    <3>2. \A a, b \in 0..n : b - a <= n => f[<<a, b>>] \in 0..n
      BY <2>1
    <3> QED
      BY <3>1, <3>2, BisectIn
  <2>3. g \in [D -> 0..n]
    BY <2>2
  <2>4. \A i, j \in 0..n : g[<<i, j>>] = Bisect(f, hits, i, j)
    OBVIOUS
  <2> HIDE DEF g
  <2>5. Agree(f, g, n, d)
    BY <2>1, <2>4 DEF Bisects, Agree
  <2>6. ASSUME NEW i \in 0..n, NEW j \in 0..n, j - i <= d + 1
        PROVE  g[<<i, j>>] = Bisect(g, hits, i, j)
    <3>1. d \in Nat
      OBVIOUS
    <3>2. Bisect(f, hits, i, j) = Bisect(g, hits, i, j)
      BY <2>5, <2>6, <3>1, BisectStep
    <3> QED
      BY <2>4, <3>2
  <2>7. Bisects(g, n, hits, d + 1)
    BY <2>6 DEF Bisects
  <2> QED
    BY <1>2, <2>3, <2>7
<1> HIDE DEF P
<1>3. \A d \in 0..n : d \in P
  BY <1>1, <1>2, UpTo
<1>4. PICK f : f \in [D -> 0..n] /\ Bisects(f, n, hits, n)
  <2>1. n \in P
    BY <1>3
  <2> QED
    BY <2>1, Zenon DEF P
<1>5. \A p \in D : f[p] = Bisect(f, hits, p[1], p[2])
  <2> SUFFICES ASSUME NEW i \in 0..n, NEW j \in 0..n PROVE f[<<i, j>>] = Bisect(f, hits, i, j)
    OBVIOUS
  <2>1. j - i <= n
    OBVIOUS
  <2> QED
    BY <1>4, <2>1 DEF Bisects
<1>6. f = [p \in D |-> Bisect(f, hits, p[1], p[2])]
  BY <1>4, <1>5
<1> QED
  BY <1>6

\* sort.Search returns an index from 0 to n, whatever its predicate.
LEMMA SortSearchIn ==
  ASSUME NEW n \in Nat, NEW hits
  PROVE  SortSearch(n, hits) \in 0..n
<1> DEFINE D == (0..n) \X (0..n)
           f == CHOOSE g : g = [p \in D |-> Bisect(g, hits, p[1], p[2])]
           P == {d \in 0..n : \A i, j \in 0..n : j - i <= d => f[<<i, j>>] \in 0..n}
<1>1. f = [p \in D |-> Bisect(f, hits, p[1], p[2])]
  BY BisectsExists
<1>2. SortSearch(n, hits) = f[<<0, n>>]
  BY DEF SortSearch, Bisect
<1> HIDE DEF f
<1>3. ASSUME NEW i \in 0..n, NEW j \in 0..n PROVE f[<<i, j>>] = Bisect(f, hits, i, j)
  BY <1>1
<1>4. 0 \in P
  <2>1. ASSUME NEW i \in 0..n, NEW j \in 0..n, j - i <= 0 PROVE Bisect(f, hits, i, j) = i
    <3>1. i >= j
      BY <2>1
    <3> QED
      BY <3>1 DEF Bisect
  <2> QED
    BY <1>3, <2>1
<1>5. ASSUME NEW d \in 0..n, d \in P, d < n PROVE d + 1 \in P
  <2>1. d \in Nat /\ \A a, b \in 0..n : b - a <= d => f[<<a, b>>] \in 0..n
    BY <1>5
  <2>2. ASSUME NEW i \in 0..n, NEW j \in 0..n, j - i <= d + 1 PROVE Bisect(f, hits, i, j) \in 0..n
    BY <2>1, <2>2, BisectIn
  <2> QED
    BY <1>3, <1>5, <2>2
<1> HIDE DEF P
<1>6. \A d \in 0..n : d \in P
  BY <1>4, <1>5, UpTo
<1>7. f[<<0, n>>] \in 0..n
  <2>1. n - 0 <= n /\ 0 \in 0..n /\ n \in 0..n
    OBVIOUS
  <2> QED
    BY <1>6, <2>1 DEF P
<1> QED
  BY <1>2, <1>7

\* r separates the indices outside hits from those inside; [i, j] encloses such an index.
Splits(r, n, hits) == \A a \in 0..n : a < n => (a \in hits <=> r <= a)
Encloses(i, j, n, hits) == i <= j /\ \A a \in 0..n : a < n => (a < i => a \notin hits) /\ (j <= a => a \in hits)

\* One step of the bisection of a monotone predicate.
LEMMA BisectSplits ==
  ASSUME NEW n \in Nat, NEW hits, \A a, b \in 0..n : a <= b /\ b < n /\ a \in hits => b \in hits,
         NEW d \in Nat, NEW i \in 0..n, NEW j \in 0..n, j - i <= d + 1, Encloses(i, j, n, hits),
         NEW f, \A a, b \in 0..n : b - a <= d /\ Encloses(a, b, n, hits) => Splits(f[<<a, b>>], n, hits)
  PROVE  Splits(Bisect(f, hits, i, j), n, hits)
<1>1. CASE i >= j
  <2>1. Bisect(f, hits, i, j) = i /\ i = j
    BY <1>1 DEF Bisect, Encloses
  <2> QED
    BY <2>1 DEF Encloses, Splits
<1>2. CASE i < j
  <2> DEFINE h == (i + j) \div 2
  <2>1. h \in Nat /\ i <= h /\ h < j
    BY <1>2, Middle
  <2>2. Bisect(f, hits, i, j) = IF h \in hits THEN f[<<i, h>>] ELSE f[<<h + 1, j>>]
    <3>1. ~(i >= j)
      BY <1>2
    <3> QED
      BY <3>1, Zenon DEF Bisect
  <2> HIDE DEF h
  <2>3. h \in 0..n /\ h + 1 \in 0..n /\ h - i <= d /\ j - (h + 1) <= d /\ h < n
    BY <2>1
  <2>4. CASE h \in hits
    <3>1. \A a \in 0..n : a < n /\ h <= a => a \in hits
      BY <2>3, <2>4
    <3>2. Encloses(i, h, n, hits)
      BY <2>1, <3>1 DEF Encloses
    <3> QED
      BY <2>2, <2>3, <2>4, <3>2
  <2>5. CASE h \notin hits
    <3>1. \A a \in 0..n : a < n /\ a < h + 1 => a \notin hits
      BY <2>3, <2>5
    <3>2. Encloses(h + 1, j, n, hits)
      BY <2>1, <2>3, <3>1 DEF Encloses
    <3> QED
      BY <2>2, <2>3, <2>5, <3>2
  <2> QED
    BY <2>4, <2>5
<1> QED
  BY <1>1, <1>2

\* sort.Search finds the least index at which a monotone predicate is true.
LEMMA SortSearchLeast ==
  ASSUME NEW n \in Nat, NEW hits, \A a, b \in 0..n : a <= b /\ b < n /\ a \in hits => b \in hits
  PROVE  Splits(SortSearch(n, hits), n, hits)
<1> DEFINE D == (0..n) \X (0..n)
           f == CHOOSE g : g = [p \in D |-> Bisect(g, hits, p[1], p[2])]
           P == {d \in 0..n : \A i, j \in 0..n : j - i <= d /\ Encloses(i, j, n, hits) => Splits(f[<<i, j>>], n, hits)}
<1>1. f = [p \in D |-> Bisect(f, hits, p[1], p[2])]
  BY BisectsExists
<1>2. SortSearch(n, hits) = f[<<0, n>>]
  BY DEF SortSearch, Bisect
<1> HIDE DEF f
<1>3. ASSUME NEW i \in 0..n, NEW j \in 0..n PROVE f[<<i, j>>] = Bisect(f, hits, i, j)
  BY <1>1
<1>4. 0 \in P
  <2>1. ASSUME NEW i \in 0..n, NEW j \in 0..n, j - i <= 0, Encloses(i, j, n, hits) PROVE Splits(f[<<i, j>>], n, hits)
    <3>1. i = j
      BY <2>1 DEF Encloses
    <3>2. Bisect(f, hits, i, j) = i
      BY <3>1 DEF Bisect
    <3>3. Splits(i, n, hits)
      BY <2>1, <3>1 DEF Encloses, Splits
    <3> QED
      BY <1>3, <3>2, <3>3
  <2> QED
    BY <2>1
<1>5. ASSUME NEW d \in 0..n, d \in P, d < n PROVE d + 1 \in P
  <2>1. d \in Nat /\ \A a, b \in 0..n : b - a <= d /\ Encloses(a, b, n, hits) => Splits(f[<<a, b>>], n, hits)
    BY <1>5
  <2>2. ASSUME NEW i \in 0..n, NEW j \in 0..n, j - i <= d + 1, Encloses(i, j, n, hits)
        PROVE  Splits(Bisect(f, hits, i, j), n, hits)
    BY <2>1, <2>2, BisectSplits
  <2> QED
    BY <1>3, <1>5, <2>2
<1> HIDE DEF P
<1>6. \A d \in 0..n : d \in P
  BY <1>4, <1>5, UpTo
<1>7. n \in P /\ n - 0 <= n
  BY <1>6
<1>8. Encloses(0, n, n, hits)
  BY DEF Encloses
<1> QED
  BY <1>2, <1>7, <1>8 DEF P

----------------------------------------------------------------------------
\* The types of the variables.

Tables     == [level : Levels, num : Nat, size : Nat, min : IKeys, max : IKeys]
TreeOf     == [Levels -> Seq(Tables)]
Manifests  == [made : BOOLEAN, torn : BOOLEAN, levels : TreeOf, next : Nat, lastSeq : Nat, log : Nat]
LogNums    == Nat \cup {NoWal}
Tasks(I)   == [mt : (SUBSET I) \ {{}}, num : Nat, wal : LogNums]
Flushers(I) == [pc : {"idle", "write", "install", "cleanup"}, task : Tasks(I) \cup {NoTask}, next : Nat]
Jobs       == [pc : {"none", "begin", "merge", "install", "remove", "done", "clear"},
               level : 0..(Bottom - 1), inputs : Seq(Tables), all : Seq(Tables), out : Nat,
               outs : Seq(Tables), next : Nat]
Calls(I)   == [op : {"none", "write", "batch", "sync", "close"},
               pc : {"idle", "stall", "log", "append", "apply", "send", "rotate", "wait"},
               recs : Seq(I), i : Nat, wal : LogNums, tasks : Seq(Tasks(I))]
Recoveries(I) == [pc : {"idle", "open", "replay", "send"}, todo : SUBSET Nat, recs : Seq(I),
                  torn : BOOLEAN, maxSeq : Nat, tasks : Seq(Tasks(I))]
Logs(I)    == {log \in [recs : Seq(I), synced : Nat, torn : SUBSET Nat] :
                 log.synced \in 0..Len(log.recs) /\ log.torn \subseteq 0..Len(log.recs)}

Counters ==
  /\ phase \in {"down", "recovering", "up", "closing", "failed"}
  /\ starts \in Nat /\ faults \in Nat /\ resched \in Nat /\ nextFileNum \in Nat

\* Engine.mu is the flusher's or the compactor's exactly where their code holds it,
\* and a compaction has the flag.
Locks ==
  /\ mu \in {"free", "flusher", "compactor"} \cup Clients
  /\ isCompacting \in BOOLEAN
  /\ fl.pc = "cleanup" <=> mu = "flusher"
  /\ job.pc = "remove" <=> mu = "compactor"
  /\ job.pc # "none" => isCompacting

FlusherTypes ==
  /\ fl \in Flushers(issued) /\ (fl.pc # "idle" => fl.task \in Tasks(issued))
  /\ flushQ \in Seq(Tasks(issued)) /\ Len(flushQ) <= FlushChanCap

TreeTypes ==
  /\ levels \in TreeOf /\ manifest \in Manifests
  /\ \A l \in Levels : \A t \in ToSet(levels[l]) : t.level = l
  /\ \A l \in Levels : \A t \in ToSet(manifest.levels[l]) : t.level = l

MemTypes ==
  /\ mt \subseteq issued
  /\ immt = {} \/ \E m \in (SUBSET issued) \ {{}} : immt = {m}

LogTypes ==
  /\ wal \in LogNums /\ closedWals \subseteq Nat
  /\ DOMAIN wals \subseteq Nat /\ wals \in [DOMAIN wals -> Logs(issued)]

FileTypes == DOMAIN files \subseteq Levels \X Nat /\ files \in [DOMAIN files -> SUBSET issued]

CallShape(call) ==
  /\ call.pc \in {"stall", "log", "append", "apply"} => call.i \in 1..Len(call.recs)
  /\ call.pc \in {"stall", "log", "append", "rotate"} => call.i = 1 /\ call.tasks = <<>>
  /\ call.pc = "send" => call.i \in 1..Len(call.tasks)
CallTypes == cl \in [Clients -> Calls(issued)] /\ \A c \in Clients : CallShape(cl[c])

RecoveryTypes ==
  /\ rv \in Recoveries(issued) /\ Len(rv.tasks) <= 1
  /\ rv.pc = "send" <=> rv.tasks # <<>>

\* The records issued are numbered: val counts them, and no sequence number is
\* larger than their count.
History ==
  /\ issued \subseteq Records /\ IsFiniteSet(issued) /\ acked \subseteq issued
  /\ Cardinality(issued) <= MaxWrites
  /\ \A r \in issued : r.seq <= Cardinality(issued) /\ r.val <= Cardinality(issued)
  /\ \A r, q \in issued : r.val = q.val => r = q
  /\ seqNum \in 0..Cardinality(issued)
  /\ manifest.lastSeq <= Cardinality(issued) /\ rv.maxSeq <= Cardinality(issued)

\* A process that is not running has nothing in memory.
Lost ==
  phase \in {"down", "failed"} =>
    /\ mu = "free" /\ mt = {} /\ levels = NoLevels /\ flushQ = <<>> /\ fl = FlIdle
    /\ isCompacting = FALSE /\ job = NoJob /\ resched = 0 /\ rv = RvIdle
    /\ cl = [c \in Clients |-> Idle]

TypeInv ==
  /\ Counters /\ Locks /\ FlusherTypes /\ job \in Jobs /\ TreeTypes /\ MemTypes /\ LogTypes
  /\ FileTypes /\ CallTypes /\ RecoveryTypes /\ History /\ Lost

----------------------------------------------------------------------------
\* The constants, one by one.
LEMMA ConstantTypes ==
  /\ Keys \subseteq Int /\ KeysOf \in [Clients -> SUBSET Keys]
  /\ "free" \notin Clients /\ "flusher" \notin Clients /\ "compactor" \notin Clients
  /\ Bottom \in Nat \ {0} /\ MemtableSize \in Nat \ {0} /\ MaxSSTableSize \in Nat \ {0}
  /\ FlushChanCap \in Nat \ {0} /\ MaxWrites \in Nat /\ MaxBatch \in Nat
  /\ CrashRecovery \in BOOLEAN
BY EngineConstants

\* The level to compact is not the last one.
LEMMA LevelPicked == ASSUME NEW l \in CompactionLevel PROVE l \in 0..(Bottom - 1)
<1> DEFINE over == {k \in 1..(Bottom - 1) : levelSize(k) > levelCapacity(k)}
<1>1. CASE Len(levels[0]) >= MaxL0Files
  BY <1>1, ConstantTypes DEF CompactionLevel
<1>2. CASE ~(Len(levels[0]) >= MaxL0Files) /\ over = {}
  BY <1>2 DEF CompactionLevel
<1>3. CASE ~(Len(levels[0]) >= MaxL0Files) /\ over # {}
  <2>1. over \in SUBSET Nat /\ over \subseteq 0..(Bottom - 1)
    BY ConstantTypes
  <2>2. l \in {Min(over)}
    BY <1>3 DEF CompactionLevel
  <2> HIDE DEF over
  <2>3. Min(over) \in over
    BY <1>3, <2>1, MinIn
  <2> QED
    BY <2>1, <2>2, <2>3
<1> QED
  BY <1>1, <1>2, <1>3

\* A part of a sequence.
LEMMA SubSeqElements ==
  ASSUME NEW S, NEW s \in Seq(S), NEW m \in 1..(Len(s) + 1), NEW n \in (m - 1)..Len(s)
  PROVE  SubSeq(s, m, n) \in Seq(S) /\ ToSet(SubSeq(s, m, n)) \subseteq ToSet(s)
<1>1. SubSeq(s, m, n) \in Seq(S) /\ Len(SubSeq(s, m, n)) = n - m + 1
  OBVIOUS
<1>2. \A i \in 1..Len(SubSeq(s, m, n)) : m + i - 1 \in 1..Len(s) /\ SubSeq(s, m, n)[i] = s[m + i - 1]
  BY <1>1
<1>3. ASSUME NEW x \in ToSet(SubSeq(s, m, n)) PROVE x \in ToSet(s)
  <2>1. PICK i \in 1..Len(SubSeq(s, m, n)) : SubSeq(s, m, n)[i] = x
    BY <1>1, InToSet
  <2>2. m + i - 1 \in 1..Len(s) /\ s[m + i - 1] = x
    BY <1>2, <2>1
  <2> QED
    BY <2>2, InToSet
<1> QED
  BY <1>1, <1>3

\* The inputs of a compaction are tables of its level, wherever the compact pointer is
\* and however large the tables are.
LEMMA PickedInputs ==
  ASSUME TreeTypes, NEW l \in 0..(Bottom - 1)
  PROVE  /\ pickCompactionInputs(l) \in Seq(Tables)
         /\ ToSet(pickCompactionInputs(l)) \subseteq TablesAt(l)
<1> DEFINE tables == levels[l]
           after  == {i \in 0..Len(tables) - 1 : AfterPointer(tables[i + 1].min.key, compactPointer[l])}
           idx    == SortSearch(Len(tables), after)
           target == Max({levelSize(l) - levelCapacity(l), 0})
           enough == {j \in (idx + 1)..Len(tables) : TotalSize(SubSeq(tables, idx + 1, j)) >= target}
           last   == IF enough = {} THEN Len(tables) ELSE Min(enough)
<1>1. tables \in Seq(Tables) /\ TablesAt(l) = ToSet(tables) /\ Len(tables) \in Nat
  BY ConstantTypes DEF TreeTypes, TreeOf, Levels, TablesAt
<1>2. pickCompactionInputs(l) = IF l = 0 THEN tables ELSE SubSeq(tables, idx + 1, last)
  BY DEF pickCompactionInputs
<1> HIDE DEF tables, after
<1>3. idx \in 0..Len(tables)
  BY <1>1, SortSearchIn
<1> HIDE DEF idx, target
<1>4. last \in idx..Len(tables)
  <2>1. enough \in SUBSET Nat /\ enough \subseteq idx..Len(tables)
    BY <1>1, <1>3
  <2> HIDE DEF enough
  <2>2. CASE enough = {}
    BY <1>1, <1>3, <2>2
  <2>3. CASE enough # {}
    BY <2>1, <2>3, MinIn
  <2> QED
    BY <2>2, <2>3
<1> HIDE DEF last
<1>5. idx + 1 \in 1..(Len(tables) + 1) /\ last \in ((idx + 1) - 1)..Len(tables)
  BY <1>1, <1>3, <1>4
<1>6. SubSeq(tables, idx + 1, last) \in Seq(Tables) /\ ToSet(SubSeq(tables, idx + 1, last)) \subseteq ToSet(tables)
  BY <1>1, <1>5, SubSeqElements
<1> QED
  BY <1>1, <1>2, <1>6

----------------------------------------------------------------------------
\* The heads a merge picks have different keys.
LEMMA HeadsApart ==
  ASSUME NEW recs, NEW S \in OnePerKey(recs), NEW p \in S, NEW q \in S, p.key = q.key
  PROVE  p = q
BY DEF OnePerKey

\* Rounding down, and multiplication is monotonic.
LEMMA DivBound ==
  ASSUME NEW a \in Nat, NEW b \in Nat \ {0}
  PROVE  a \div b \in Nat /\ (a \div b) * b <= a
OBVIOUS

\* Multiples of a table size grow with the factor.
LEMMA TimesMonotonic ==
  ASSUME NEW i \in Nat, NEW j \in Nat, NEW m \in Nat, i <= j
  PROVE  i * m <= j * m
OBVIOUS

\* Cutting finitely many records of different keys into tables of MaxSSTableSize of
\* them, the last table included, leaves no table empty.
LEMMA OutputsFilled ==
  ASSUME NEW S, IsFiniteSet(S), \A r \in S : r.key \in Int, \A r, q \in S : r.key = q.key => r = q
  PROVE  Outputs(S) \in Seq((SUBSET S) \ {{}})
<1> DEFINE below(r) == {q \in S : q.key <= r.key}
           rank == [r \in S |-> Cardinality(below(r))]
           N == Cardinality(S)
           M == MaxSSTableSize
           n == (N + M - 1) \div M
           part(i) == {r \in S : Cardinality(below(r)) \in ((i - 1) * M + 1)..(i * M)}
<1>1. N \in Nat /\ M \in Nat \ {0}
  BY FS_CardinalityType, ConstantTypes
<1>2. ASSUME NEW r \in S PROVE IsFiniteSet(below(r)) /\ Cardinality(below(r)) \in 1..N
  <2>1. below(r) \in SUBSET S /\ r \in below(r)
    OBVIOUS
  <2> HIDE DEF below
  <2>2. IsFiniteSet(below(r)) /\ Cardinality(below(r)) <= N
    BY <2>1, FS_Subset
  <2>3. Cardinality(below(r)) \in Nat /\ Cardinality(below(r)) # 0
    BY <2>1, <2>2, FS_CardinalityType, FS_EmptySet
  <2> QED
    BY <1>1, <2>2, <2>3
<1>3. ASSUME NEW r \in S, NEW q \in S, Cardinality(below(r)) = Cardinality(below(q)) PROVE r = q
  <2>1. ASSUME NEW a \in S, NEW b \in S, a.key < b.key, Cardinality(below(a)) = Cardinality(below(b)) PROVE FALSE
    <3>1. below(a) \in SUBSET below(b) /\ b \in below(b) /\ b \notin below(a)
      BY <2>1
    <3>2. IsFiniteSet(below(b))
      BY <1>2
    <3> HIDE DEF below
    <3>3. below(a) = below(b)
      BY <2>1, <3>1, <3>2, FS_Subset
    <3> QED
      BY <3>1, <3>3
  <2>2. r.key = q.key
    BY <1>3, <2>1
  <2> QED
    BY <2>2
<1>4. rank \in Injection(S, 1..N)
  <2>1. rank \in [S -> 1..N]
    BY <1>2
  <2>2. \A r, q \in S : rank[r] = rank[q] => r = q
    BY <1>3
  <2> HIDE DEF rank
  <2> QED
    BY <2>1, <2>2 DEF Injection, IsInjective
<1>5. rank \in Surjection(S, 1..N)
  <2>1. IsFiniteSet(1..N) /\ Cardinality(1..N) = N
    BY <1>1, FS_Interval
  <2> HIDE DEF rank
  <2> QED
    BY <1>4, <2>1, FS_Injection
<1>6. ASSUME NEW k \in 1..N PROVE \E r \in S : Cardinality(below(r)) = k
  <2>1. \E r \in S : rank[r] = k
    BY <1>5 DEF Surjection
  <2> QED
    BY <2>1
<1> HIDE DEF below
<1>7. n \in Nat /\ n * M <= N + M - 1
  <2>1. N + M - 1 \in Nat
    BY <1>1
  <2> QED
    BY <1>1, <2>1, DivBound
<1> HIDE DEF n, N, M
<1>8. ASSUME NEW i \in 1..n PROVE part(i) # {}
  <2>1. i * M \in Nat /\ n * M \in Nat /\ i * M <= n * M /\ (i - 1) * M = i * M - M /\ 0 <= (i - 1) * M
    <3>1. i \in Nat /\ i - 1 \in Nat /\ i <= n /\ 0 <= i - 1
      BY <1>7
    <3>2. i * M <= n * M /\ 0 * M <= (i - 1) * M
      BY <1>1, <1>7, <3>1, TimesMonotonic
    <3> QED
      BY <1>1, <1>7, <3>1, <3>2
  <2> DEFINE k == (i - 1) * M + 1
  <2>2. k \in 1..N /\ k \in ((i - 1) * M + 1)..(i * M)
    BY <1>1, <1>7, <2>1
  <2> HIDE DEF k
  <2>3. PICK r \in S : Cardinality(below(r)) = k
    BY <1>6, <2>2
  <2>4. r \in part(i)
    BY <2>2, <2>3
  <2> QED
    BY <2>4
<1>9. Outputs(S) = [i \in 1..n |-> part(i)]
  BY DEF Outputs, below, n, N, M
<1>10. \A i \in 1..n : part(i) \in (SUBSET S) \ {{}}
  BY <1>8
<1> HIDE DEF part
<1>11. [i \in 1..n |-> part(i)] \in Seq((SUBSET S) \ {{}})
  BY <1>7, <1>10
<1> QED
  BY <1>9, <1>11

----------------------------------------------------------------------------
\* Every set of issued records is finite and has a first and a last record.
LEMMA IssuedSets ==
  ASSUME History, NEW S \in (SUBSET issued) \ {{}}
  PROVE  /\ IsFiniteSet(S) /\ Cardinality(S) \in Nat
         /\ FirstOf(S) \in issued /\ LastOf(S) \in issued
<1>1. IsFiniteSet(S)
  BY FS_Subset DEF History
<1>2. Numbered(S)
  <2>1. \A r \in issued : r.key \in Int /\ r.seq \in Int /\ r.val \in Int
    <3>1. issued \subseteq Records
      BY DEF History
    <3>2. Keys \subseteq Int /\ MaxWrites \in Nat
      BY ConstantTypes
    <3> SUFFICES ASSUME NEW r \in issued PROVE r.key \in Int /\ r.seq \in Int /\ r.val \in Int
      OBVIOUS
    <3>3. r \in Records
      BY <3>1
    <3>4. r.key \in Keys /\ r.seq \in 1..MaxWrites /\ r.val \in 1..MaxWrites
      BY <3>3 DEF Records
    <3>5. r.seq \in Int /\ r.val \in Int
      BY <3>2, <3>4
    <3>6. r.key \in Int
      BY <3>2, <3>4, Zenon
    <3> QED
      BY <3>5, <3>6
  <2>2. \A r, q \in issued : r.val = q.val => r = q
    BY DEF History
  <2> QED
    BY <2>1, <2>2 DEF Numbered
<1>3. FirstOf(S) \in S /\ LastOf(S) \in S
  BY <1>1, <1>2, FirstAndLast
<1> QED
  BY <1>1, <1>3, FS_CardinalityType

\* The metadata of a table of issued records.
LEMMA MetaTypes ==
  ASSUME History, NEW S \in (SUBSET issued) \ {{}}, NEW l \in Levels, NEW n \in Nat
  PROVE  /\ TableMeta(l, n, S) \in Tables
         /\ TableMeta(l, n, S).level = l /\ TableMeta(l, n, S).num = n
<1>1. Cardinality(S) \in Nat /\ FirstOf(S) \in Records /\ LastOf(S) \in Records
  BY IssuedSets DEF History
<1> QED
  BY <1>1 DEF TableMeta, Tables, Records, IKeys

\* An edit that records a log number only changes no level.
LEMMA LogEdit ==
  ASSUME NEW L \in TreeOf, NEW n
  PROVE  /\ apply(L, [NoEdit EXCEPT !.log = {n}]) = L
         /\ [l \in DOMAIN L |-> Without(L[l] \o AddsAt([NoEdit EXCEPT !.log = {n}], l), {})] = L
<1> DEFINE edit == [NoEdit EXCEPT !.log = {n}]
<1>1. edit.adds = <<>> /\ edit.dels = {}
  BY DEF NoEdit
<1> HIDE DEF edit
<1>2. ASSUME NEW l \in Levels PROVE AddsAt(edit, l) = <<>>
  <2>1. <<>> \in Seq(Tables) /\ \A i \in 1..Len(<<>>) : <<>>[i] \notin {t \in ToSet(<<>>) : t.level = l}
    OBVIOUS
  <2> QED
    BY <1>1, <2>1, FilterNone DEF AddsAt
<1>3. ASSUME NEW l \in Levels PROVE Without(L[l], {}) = L[l] /\ L[l] \o <<>> = L[l]
  <2>1. L[l] \in Seq(Tables)
    BY DEF TreeOf
  <2>2. \A i \in 1..Len(L[l]) : L[l][i] \in {t \in ToSet(L[l]) : <<t.level, t.num>> \notin {}}
    BY <2>1, InToSet
  <2>3. Without(L[l], {}) = L[l]
    BY <2>1, <2>2, FilterAll DEF Without
  <2> QED
    BY <2>1, <2>3
<1>4. DOMAIN L = Levels /\ L = [l \in Levels |-> L[l]]
  BY DEF TreeOf
<1> DEFINE F(l) == Without(L[l], {}) \o AddsAt(edit, l)
           G(l) == Without(L[l] \o AddsAt(edit, l), {})
<1>5. \A l \in Levels : F(l) = L[l] /\ G(l) = L[l]
  BY <1>2, <1>3, Zenon
<1>6. apply(L, edit) = [l \in Levels |-> F(l)]
  BY <1>1, <1>4, Zenon DEF apply
<1>7. [l \in DOMAIN L |-> Without(L[l] \o AddsAt(edit, l), {})] = [l \in Levels |-> G(l)]
  BY <1>4, Zenon
<1> HIDE DEF F, G
<1>8. [l \in Levels |-> F(l)] = [l \in Levels |-> L[l]] /\ [l \in Levels |-> G(l)] = [l \in Levels |-> L[l]]
  BY <1>5
<1> QED
  BY <1>4, <1>6, <1>7, <1>8, Zenon DEF edit

----------------------------------------------------------------------------
\* What is made of some records is also made of more records.
LEMMA TypesGrow ==
  ASSUME NEW I, NEW J, I \subseteq J
  PROVE  /\ Tasks(I) \subseteq Tasks(J) /\ Seq(I) \subseteq Seq(J)
         /\ Seq(Tasks(I)) \subseteq Seq(Tasks(J))
         /\ Flushers(I) \subseteq Flushers(J) /\ Calls(I) \subseteq Calls(J)
         /\ Recoveries(I) \subseteq Recoveries(J) /\ Logs(I) \subseteq Logs(J)
<1>1. Tasks(I) \subseteq Tasks(J)
  BY DEF Tasks
<1>2. ASSUME NEW A, NEW B, A \subseteq B PROVE Seq(A) \subseteq Seq(B)
  BY <1>2
<1>3. Seq(I) \subseteq Seq(J) /\ Seq(Tasks(I)) \subseteq Seq(Tasks(J))
  BY <1>1, <1>2
<1>4. Flushers(I) \subseteq Flushers(J)
  BY <1>1 DEF Flushers
<1>5. Calls(I) \subseteq Calls(J)
  BY <1>3 DEF Calls
<1>6. Recoveries(I) \subseteq Recoveries(J)
  BY <1>3 DEF Recoveries
<1>7. Logs(I) \subseteq Logs(J)
  BY <1>3 DEF Logs
<1> QED
  BY <1>1, <1>3, <1>4, <1>5, <1>6, <1>7

\* A part of the invariant stays true in a step that leaves its variables alone and
\* forgets no record.
LEMMA FlusherFrame ==
  ASSUME FlusherTypes, issued \subseteq issued', UNCHANGED <<fl, flushQ>> PROVE FlusherTypes'
BY TypesGrow DEF FlusherTypes

\* Memtables, when more records are issued.
LEMMA MemFrame ==
  ASSUME MemTypes, issued \subseteq issued', UNCHANGED memVars PROVE MemTypes'
BY DEF MemTypes, memVars

\* Logs, when more records are issued.
LEMMA LogFrame ==
  ASSUME LogTypes, issued \subseteq issued', UNCHANGED walVars PROVE LogTypes'
BY TypesGrow DEF LogTypes, walVars

\* Table files, when more records are issued.
LEMMA FileFrame ==
  ASSUME FileTypes, issued \subseteq issued', UNCHANGED files PROVE FileTypes'
BY DEF FileTypes

\* Calls, when more records are issued.
LEMMA CallFrame ==
  ASSUME CallTypes, issued \subseteq issued', UNCHANGED cl PROVE CallTypes'
BY TypesGrow DEF CallTypes

\* Recovery, when more records are issued.
LEMMA RecoveryFrame ==
  ASSUME RecoveryTypes, issued \subseteq issued', UNCHANGED rv PROVE RecoveryTypes'
BY TypesGrow DEF RecoveryTypes

\* Phase and counters, left alone.
LEMMA CountersFrame ==
  ASSUME Counters, UNCHANGED <<phase, starts, faults, resched, nextFileNum>> PROVE Counters'
BY DEF Counters

\* Lock and flag, left alone.
LEMMA LocksFrame ==
  ASSUME Locks, UNCHANGED <<mu, isCompacting, fl, job>> PROVE Locks'
BY DEF Locks

\* Version and manifest, left alone.
LEMMA TreeFrame == ASSUME TreeTypes, UNCHANGED vsVars PROVE TreeTypes'
BY DEF TreeTypes, vsVars

\* The records issued, left alone.
LEMMA HistoryFrame ==
  ASSUME History, UNCHANGED <<issued, acked, seqNum, manifest, rv>> PROVE History'
BY DEF History

\* The memory of a process, left alone.
LEMMA LostFrame ==
  ASSUME Lost, phase' = phase \/ phase' \notin {"down", "failed"},
         UNCHANGED <<mu, mt, levels, flushQ, fl, isCompacting, job, resched, rv, cl>>
  PROVE  Lost'
BY DEF Lost

----------------------------------------------------------------------------
OptNum == {{}} \cup {{n} : n \in Nat}
Edits  == [adds : Seq(Tables), dels : SUBSET (Levels \X Nat), next : OptNum, lastSeq : OptNum, log : OptNum]

\* The tables of a level lie on it.
OnLevels(L) == \A l \in Levels : \A t \in ToSet(L[l]) : t.level = l

\* An edit with a log number, of a flush and of a compaction.
LEMMA LogEditType == ASSUME NEW n \in Nat PROVE [NoEdit EXCEPT !.log = {n}] \in Edits
<1>1. <<>> \in Seq(Tables) /\ {} \in SUBSET (Levels \X Nat) /\ {n} \in OptNum /\ {} \in OptNum
  BY DEF OptNum
<1> QED
  BY <1>1 DEF NoEdit, Edits

\* An optional number of an edit is taken, or the old one stays.
LEMMA OverrideOne ==
  ASSUME NEW opt \in OptNum, NEW old \in Nat
  PROVE  Override(opt, old) \in Nat /\ Override(opt, old) \in opt \cup {old}
BY DEF Override, OptNum

\* A level after an edit, applied in memory and read back.
Applied(s, edit, l)  == Without(s, edit.dels) \o AddsAt(edit, l)
Replayed(s, edit, l) == Without(s \o AddsAt(edit, l), edit.dels)

\* The file of a table, under a name that the provers leave alone.
PathOf(t) == <<t.level, t.num>>

\* The tables of a level after an edit is applied.
LEMMA AppliedTable ==
  ASSUME NEW edit \in Edits, NEW s \in Seq(Tables), NEW l \in Levels
  PROVE  /\ Applied(s, edit, l) \in Seq(Tables)
         /\ \A t : t \in ToSet(Applied(s, edit, l)) <=> \/ t \in ToSet(s) /\ PathOf(t) \notin edit.dels
                                                        \/ t \in ToSet(edit.adds) /\ t.level = l
<1> DEFINE a == AddsAt(edit, l)
           w == Without(s, edit.dels)
<1>1. edit.adds \in Seq(Tables)
  BY DEF Edits
<1>2. a \in Seq(Tables) /\ ToSet(a) = {t \in ToSet(edit.adds) : t.level = l}
  BY <1>1, AddsElements
<1>3. w \in Seq(Tables) /\ ToSet(w) = {t \in ToSet(s) : PathOf(t) \notin edit.dels}
  BY WithoutElements DEF PathOf
<1> HIDE DEF a, w
<1>4. w \o a \in Seq(Tables) /\ ToSet(w \o a) = ToSet(w) \cup ToSet(a)
  BY <1>2, <1>3, ConcatElements
<1>5. Applied(s, edit, l) = w \o a
  BY Zenon DEF Applied, a, w
<1>6. ToSet(Applied(s, edit, l)) = ToSet(w) \cup ToSet(a)
  BY <1>4, <1>5, Zenon
<1>7. Applied(s, edit, l) \in Seq(Tables)
  BY <1>4, <1>5, Zenon
<1> QED
  BY <1>2, <1>3, <1>6, <1>7, Zenon

\* The tables of a level after an edit is read back.
LEMMA ReplayedTable ==
  ASSUME NEW edit \in Edits, NEW s \in Seq(Tables), NEW l \in Levels
  PROVE  /\ Replayed(s, edit, l) \in Seq(Tables)
         /\ \A t : t \in ToSet(Replayed(s, edit, l)) <=> /\ PathOf(t) \notin edit.dels
                                                         /\ \/ t \in ToSet(s)
                                                            \/ t \in ToSet(edit.adds) /\ t.level = l
<1> DEFINE a == AddsAt(edit, l)
           u == s \o a
<1>1. edit.adds \in Seq(Tables)
  BY DEF Edits
<1>2. a \in Seq(Tables) /\ ToSet(a) = {t \in ToSet(edit.adds) : t.level = l}
  BY <1>1, AddsElements
<1> HIDE DEF a
<1>3. u \in Seq(Tables) /\ ToSet(u) = ToSet(s) \cup ToSet(a)
  BY <1>2, ConcatElements
<1> HIDE DEF u
<1>4. Without(u, edit.dels) \in Seq(Tables)
      /\ ToSet(Without(u, edit.dels)) = {t \in ToSet(u) : PathOf(t) \notin edit.dels}
  BY <1>3, WithoutElements DEF PathOf
<1>5. Replayed(s, edit, l) = Without(u, edit.dels)
  BY Zenon DEF Replayed, a, u
<1>6. ToSet(Replayed(s, edit, l)) = {t \in ToSet(u) : PathOf(t) \notin edit.dels}
  BY <1>4, <1>5, Zenon
<1>7. Replayed(s, edit, l) \in Seq(Tables)
  BY <1>4, <1>5, Zenon
<1> QED
  BY <1>2, <1>3, <1>6, <1>7, Zenon

\* The types of an edited version.
LEMMA ApplyTypes ==
  ASSUME NEW L \in TreeOf, OnLevels(L), NEW edit \in Edits
  PROVE  /\ apply(L, edit) \in TreeOf /\ OnLevels(apply(L, edit))
         /\ \A l \in Levels : apply(L, edit)[l] = Applied(L[l], edit, l)
<1>1. \A l \in Levels : L[l] \in Seq(Tables)
  BY DEF TreeOf
<1>2. DOMAIN L = Levels
  BY DEF TreeOf
<1>3. apply(L, edit) = [l \in Levels |-> Applied(L[l], edit, l)]
  BY <1>2, Zenon DEF apply, Applied
<1>4. \A l \in Levels : /\ Applied(L[l], edit, l) \in Seq(Tables)
                        /\ \A t \in ToSet(Applied(L[l], edit, l)) : t.level = l
  <2> SUFFICES ASSUME NEW l \in Levels
               PROVE  /\ Applied(L[l], edit, l) \in Seq(Tables)
                      /\ \A t \in ToSet(Applied(L[l], edit, l)) : t.level = l
    OBVIOUS
  <2> DEFINE s == L[l]
  <2>1. s \in Seq(Tables) /\ \A t \in ToSet(s) : t.level = l
    BY <1>1 DEF OnLevels
  <2> HIDE DEF s
  <2>2. /\ Applied(s, edit, l) \in Seq(Tables)
        /\ \A t \in ToSet(Applied(s, edit, l)) : t.level = l
    BY <2>1, AppliedTable
  <2> QED
    BY <2>2, Zenon DEF s
<1> QED
  BY <1>3, <1>4 DEF TreeOf, OnLevels

\* The types of a manifest with one more edit.
LEMMA ReplayTypes ==
  ASSUME NEW m \in Manifests, OnLevels(m.levels), NEW edit \in Edits
  PROVE  /\ replay(m, edit) \in Manifests /\ OnLevels(replay(m, edit).levels)
         /\ replay(m, edit).lastSeq \in edit.lastSeq \cup {m.lastSeq}
         /\ \A l \in Levels : replay(m, edit).levels[l] = Replayed(m.levels[l], edit, l)
<1> DEFINE L == m.levels
           R == [l \in Levels |-> Replayed(L[l], edit, l)]
<1>1. L \in TreeOf /\ m.next \in Nat /\ m.lastSeq \in Nat /\ m.log \in Nat /\ m.made \in BOOLEAN /\ m.torn \in BOOLEAN
  BY DEF Manifests
<1>2. DOMAIN L = Levels /\ \A l \in Levels : L[l] \in Seq(Tables)
  BY <1>1 DEF TreeOf
<1>3. edit.next \in OptNum /\ edit.lastSeq \in OptNum /\ edit.log \in OptNum
  BY DEF Edits
<1>4. Override(edit.next, m.next) \in Nat /\ Override(edit.log, m.log) \in Nat
      /\ Override(edit.lastSeq, m.lastSeq) \in Nat
      /\ Override(edit.lastSeq, m.lastSeq) \in edit.lastSeq \cup {m.lastSeq}
  BY <1>1, <1>3, OverrideOne
<1>5. replay(m, edit) = [made |-> m.made, torn |-> m.torn, levels |-> R, next |-> Override(edit.next, m.next),
                         lastSeq |-> Override(edit.lastSeq, m.lastSeq), log |-> Override(edit.log, m.log)]
  <2>1. m = [made |-> m.made, torn |-> m.torn, levels |-> L, next |-> m.next, lastSeq |-> m.lastSeq, log |-> m.log]
    BY DEF Manifests
  <2>2. R = [l \in DOMAIN L |-> Without(L[l] \o AddsAt(edit, l), edit.dels)]
    BY <1>2, Zenon DEF Replayed
  <2>3. replay(m, edit) = [m EXCEPT !.levels = R, !.next = Override(edit.next, m.next),
                             !.lastSeq = Override(edit.lastSeq, m.lastSeq), !.log = Override(edit.log, m.log)]
    BY <2>2, Zenon DEF replay
  <2> HIDE DEF R, L
  <2> QED
    BY <2>1, <2>3
<1>6. \A l \in Levels : Replayed(L[l], edit, l) \in Seq(Tables)
                        /\ \A t \in ToSet(Replayed(L[l], edit, l)) : t.level = l
  <2> SUFFICES ASSUME NEW l \in Levels
               PROVE  /\ Replayed(L[l], edit, l) \in Seq(Tables)
                      /\ \A t \in ToSet(Replayed(L[l], edit, l)) : t.level = l
    OBVIOUS
  <2> DEFINE s == L[l]
  <2>1. s \in Seq(Tables) /\ \A t \in ToSet(s) : t.level = l
    BY <1>2 DEF OnLevels
  <2> HIDE DEF s
  <2>2. /\ Replayed(s, edit, l) \in Seq(Tables)
        /\ \A t \in ToSet(Replayed(s, edit, l)) : t.level = l
    BY <2>1, ReplayedTable
  <2> QED
    BY <2>2, Zenon DEF s
<1>7. R \in TreeOf /\ OnLevels(R) /\ \A l \in Levels : R[l] = Replayed(L[l], edit, l)
  <2> HIDE DEF L
  <2> QED
    BY <1>6 DEF TreeOf, OnLevels
<1> HIDE DEF R
<1>8. replay(m, edit) \in Manifests /\ replay(m, edit).levels = R
      /\ replay(m, edit).lastSeq = Override(edit.lastSeq, m.lastSeq)
  BY <1>1, <1>4, <1>5, <1>7 DEF Manifests
<1> QED
  BY <1>4, <1>7, <1>8

\* What a failing write leaves of an edit: the first of its tables and, after all of
\* them, some of its deletions.
LEMMA PartTypes ==
  ASSUME NEW edit \in Edits, NEW part \in PartsOf(edit)
  PROVE  /\ part \in Edits /\ part.dels \subseteq edit.dels /\ part.lastSeq \subseteq edit.lastSeq
         /\ \E n \in 0..Len(edit.adds) : part.adds = SubSeq(edit.adds, 1, n)
         /\ part.adds = edit.adds \/ part.dels = {}
<1> DEFINE n == Len(edit.adds)
<1>1. /\ edit.adds \in Seq(Tables) /\ n \in Nat /\ edit.dels \in SUBSET (Levels \X Nat)
      /\ edit.next \in OptNum /\ edit.lastSeq \in OptNum /\ edit.log \in OptNum
  BY DEF Edits
<1>2. <<>> \in Seq(Tables) /\ {} \in SUBSET (Levels \X Nat) /\ {} \in OptNum
  BY DEF OptNum
<1>3. n \in 0..n /\ SubSeq(edit.adds, 1, n) = edit.adds
  BY <1>1
<1>4. \A k \in 0..n : SubSeq(edit.adds, 1, k) \in Seq(Tables)
  BY <1>1
<1> HIDE DEF n
<1>5. CASE \E k \in 0..n : part = [NoEdit EXCEPT !.adds = SubSeq(edit.adds, 1, k)]
  <2>1. PICK k \in 0..n : part = [NoEdit EXCEPT !.adds = SubSeq(edit.adds, 1, k)]
    BY <1>5
  <2>2. PICK s : s = SubSeq(edit.adds, 1, k)
    OBVIOUS
  <2>3. part = [adds |-> s, dels |-> {}, next |-> {}, lastSeq |-> {}, log |-> {}]
    BY <2>1, <2>2 DEF NoEdit
  <2> QED
    BY <1>2, <1>4, <2>2, <2>3 DEF Edits, n
<1>6. CASE \E D \in SUBSET edit.dels : part = [NoEdit EXCEPT !.adds = edit.adds, !.dels = D]
  <2>1. PICK D \in SUBSET edit.dels : part = [NoEdit EXCEPT !.adds = edit.adds, !.dels = D]
    BY <1>6
  <2>2. part = [adds |-> edit.adds, dels |-> D, next |-> {}, lastSeq |-> {}, log |-> {}]
    BY <2>1 DEF NoEdit
  <2>3. D \in SUBSET (Levels \X Nat) /\ D \subseteq edit.dels
    BY <1>1, <2>1
  <2> QED
    BY <1>1, <1>2, <1>3, <2>2, <2>3 DEF Edits, n
<1>7. CASE part \in {[edit EXCEPT !.lastSeq = {}, !.next = {}], [edit EXCEPT !.next = {}], edit}
  <2>1. /\ part.adds = edit.adds /\ part.dels = edit.dels /\ part.lastSeq \in {{}, edit.lastSeq}
        /\ part \in Edits
    BY <1>1, <1>2, <1>7 DEF Edits
  <2> QED
    BY <1>3, <2>1 DEF n
<1> QED
  BY <1>5, <1>6, <1>7 DEF PartsOf, n

\* The edit that the manifest has after LogAndApply: the edit, or a part of it.
LEMMA WrittenPart ==
  ASSUME NEW edit \in Edits, manifest \in Manifests, OnLevels(manifest.levels), NEW fault,
         LogAndApply(edit, fault)
  PROVE  \E part \in PartsOf(edit) :
           /\ part \in Edits /\ manifest' \in Manifests
           /\ manifest'.levels = replay(manifest, part).levels
           /\ manifest'.lastSeq = replay(manifest, part).lastSeq
           /\ fault # "manifest" => part = edit
<1>1. CASE fault = "manifest"
  <2>1. PICK part \in PartsOf(edit), cut \in BOOLEAN :
               manifest' = [replay(manifest, part) EXCEPT !.torn = @ \/ cut]
    BY <1>1 DEF LogAndApply
  <2>2. part \in Edits
    BY PartTypes
  <2>3. PICK m : m = replay(manifest, part)
    OBVIOUS
  <2>4. m \in Manifests
    BY <2>2, <2>3, ReplayTypes
  <2>5. manifest' = [m EXCEPT !.torn = @ \/ cut]
    BY <2>1, <2>3
  <2>6. m.torn \in BOOLEAN
    BY <2>4 DEF Manifests
  <2>7. (m.torn \/ cut) \in BOOLEAN
    BY <2>6
  <2>8. manifest' \in Manifests /\ manifest'.levels = m.levels /\ manifest'.lastSeq = m.lastSeq
    BY <2>4, <2>5, <2>7 DEF Manifests
  <2> QED
    BY <1>1, <2>2, <2>3, <2>8
<1>2. CASE fault # "manifest"
  <2>1. manifest' = replay(manifest, edit) /\ edit \in PartsOf(edit)
    BY <1>2 DEF LogAndApply, PartsOf
  <2>2. manifest' \in Manifests
    BY <2>1, ReplayTypes
  <2> QED
    BY <2>1, <2>2
<1> QED
  BY <1>1, <1>2

\* LogAndApply keeps the types of version and manifest.
LEMMA LogAndApplyTypes ==
  ASSUME TreeTypes, NEW edit \in Edits, NEW fault, LogAndApply(edit, fault)
  PROVE  TreeTypes' /\ manifest'.lastSeq \in edit.lastSeq \cup {manifest.lastSeq}
<1>1. levels \in TreeOf /\ OnLevels(levels) /\ manifest \in Manifests /\ OnLevels(manifest.levels)
  BY DEF TreeTypes, OnLevels
<1>2. apply(levels, edit) \in TreeOf /\ OnLevels(apply(levels, edit))
  BY <1>1, ApplyTypes
<1>3. PICK part \in PartsOf(edit) :
        /\ part \in Edits /\ manifest' \in Manifests
        /\ manifest'.levels = replay(manifest, part).levels
        /\ manifest'.lastSeq = replay(manifest, part).lastSeq
  BY <1>1, WrittenPart
<1>4. /\ OnLevels(replay(manifest, part).levels) /\ part.lastSeq \subseteq edit.lastSeq
      /\ replay(manifest, part).lastSeq \in part.lastSeq \cup {manifest.lastSeq}
  BY <1>1, <1>3, ReplayTypes, PartTypes
<1>5. levels' \in {levels, apply(levels, edit)}
  BY DEF LogAndApply
<1>6. levels' \in TreeOf /\ OnLevels(levels') /\ manifest' \in Manifests /\ OnLevels(manifest'.levels)
      /\ manifest'.lastSeq \in edit.lastSeq \cup {manifest.lastSeq}
  BY <1>1, <1>2, <1>3, <1>4, <1>5, Zenon
<1> QED
  BY <1>6 DEF TreeTypes, OnLevels

\* A log number alone changes no level, in memory or in the manifest.
LEMMA LogAndApplyLog ==
  ASSUME TreeTypes, NEW n \in Nat, NEW fault, LogAndApply([NoEdit EXCEPT !.log = {n}], fault)
  PROVE  levels' = levels /\ manifest'.levels = manifest.levels /\ manifest'.lastSeq = manifest.lastSeq
<1> DEFINE edit == [NoEdit EXCEPT !.log = {n}]
<1>1. /\ levels \in TreeOf /\ manifest.levels \in TreeOf /\ manifest \in Manifests /\ OnLevels(manifest.levels)
      /\ edit \in Edits
  BY LogEditType DEF TreeTypes, OnLevels, Manifests
<1>2. edit.adds = <<>> /\ edit.dels = {} /\ edit.lastSeq = {}
  BY DEF NoEdit
<1>3. apply(levels, edit) = levels
  BY <1>1, LogEdit
<1>4. [l \in DOMAIN manifest.levels |-> Without(manifest.levels[l] \o AddsAt(edit, l), {})] = manifest.levels
  BY <1>1, LogEdit
<1> HIDE DEF edit
<1>5. PICK part \in PartsOf(edit) :
        /\ part \in Edits
        /\ manifest'.levels = replay(manifest, part).levels
        /\ manifest'.lastSeq = replay(manifest, part).lastSeq
  BY <1>1, WrittenPart DEF edit
<1>6. part.adds = edit.adds /\ part.dels = {} /\ part.lastSeq = {}
  <2>1. /\ part.dels \subseteq edit.dels /\ part.lastSeq \subseteq edit.lastSeq
        /\ \E k \in 0..Len(edit.adds) : part.adds = SubSeq(edit.adds, 1, k)
    BY <1>1, PartTypes
  <2> QED
    BY <1>2, <2>1
<1>7. Override(part.lastSeq, manifest.lastSeq) = manifest.lastSeq
  BY <1>6 DEF Override
<1>8. \A l : AddsAt(part, l) = AddsAt(edit, l)
  BY <1>6, Zenon DEF AddsAt
<1>9. replay(manifest, part) =
        [manifest EXCEPT !.levels = manifest.levels, !.next = Override(part.next, manifest.next),
                         !.lastSeq = manifest.lastSeq, !.log = Override(part.log, manifest.log)]
  BY <1>4, <1>6, <1>7, <1>8, Zenon DEF replay
<1>10. replay(manifest, part).levels = manifest.levels /\ replay(manifest, part).lastSeq = manifest.lastSeq
  BY <1>1, <1>9 DEF Manifests
<1>11. levels' \in {levels, apply(levels, edit)}
  BY DEF LogAndApply, edit
<1> QED
  BY <1>3, <1>5, <1>10, <1>11, Zenon

\* Opening a log keeps the log directory one.
LEMMA OpenWalTypes ==
  ASSUME NEW I, NEW ws, DOMAIN ws \subseteq Nat, ws \in [DOMAIN ws -> Logs(I)], NEW n \in Nat
  PROVE  /\ DOMAIN OpenWal(ws, n) = DOMAIN ws \cup {n}
         /\ OpenWal(ws, n) \in [DOMAIN OpenWal(ws, n) -> Logs(I)]
<1>1. EmptyWal \in Logs(I)
  BY DEF EmptyWal, Logs
<1>2. CASE n \in DOMAIN ws
  BY <1>2 DEF OpenWal
<1>3. CASE n \notin DOMAIN ws
  <2>1. OpenWal(ws, n) = Create(ws, n, EmptyWal)
    BY <1>3 DEF OpenWal
  <2> QED
    BY <1>1, <2>1 DEF Create, Overlay
<1> QED
  BY <1>2, <1>3

----------------------------------------------------------------------------
\* rotate: what it leaves in memory and on disk, whether or not it fails.
LEMMA RotateTypes ==
  ASSUME TreeTypes, LogTypes, FileTypes, nextFileNum \in Nat, issued' = issued,
         NEW m \in (SUBSET issued) \ {{}}, NEW fault, rotate(m, fault)
  PROVE  /\ TreeTypes' /\ MemTypes' /\ LogTypes' /\ FileTypes'
         /\ nextFileNum' \in Nat /\ RotateTask(m) \in Tasks(issued)
         /\ levels' = levels /\ manifest'.levels = manifest.levels /\ manifest'.lastSeq = manifest.lastSeq
<1>1. TableNum \in Nat /\ CrashRecovery \in BOOLEAN
  BY ConstantTypes DEF TableNum
<1>2. MemTypes' /\ nextFileNum' \in Nat
  BY <1>1 DEF rotate, MemTypes
<1>3. RotateTask(m) \in Tasks(issued)
  BY <1>1 DEF RotateTask, Task, Tasks, LogTypes
<1>4. /\ TreeTypes' /\ levels' = levels /\ manifest'.levels = manifest.levels
      /\ manifest'.lastSeq = manifest.lastSeq
  <2>1. CASE UNCHANGED vsVars
    <3>1. levels' = levels /\ manifest' = manifest
      BY <2>1 DEF vsVars
    <3> QED
      BY <3>1 DEF TreeTypes
  <2>2. CASE LogAndApply([NoEdit EXCEPT !.log = {nextFileNum}], fault)
    <3>1. [NoEdit EXCEPT !.log = {nextFileNum}] \in Edits
      BY LogEditType
    <3> QED
      BY <2>2, <3>1, LogAndApplyTypes, LogAndApplyLog
  <2> QED
    BY <2>1, <2>2, Zenon DEF rotate
<1>5. LogTypes'
  <2>1. CASE UNCHANGED <<wal, wals>>
    BY <2>1 DEF rotate, LogTypes
  <2>2. CASE wal' = nextFileNum /\ wals' = OpenWal(wals, nextFileNum)
    <3>1. DOMAIN wals' = DOMAIN wals \cup {nextFileNum} /\ wals' \in [DOMAIN wals' -> Logs(issued)]
      BY <2>2, OpenWalTypes DEF LogTypes
    <3>2. closedWals' = closedWals
      BY DEF rotate
    <3> QED
      BY <2>2, <3>1, <3>2 DEF LogTypes, LogNums
  <2> QED
    BY <2>1, <2>2, Zenon DEF rotate
<1>6. FileTypes'
  <2>1. CASE files' = files
    BY <2>1 DEF FileTypes
  <2>2. CASE files' = Create(files, <<0, TableNum>>, {})
    <3>1. <<0, TableNum>> \in Levels \X Nat /\ {} \in SUBSET issued
      BY <1>1, ConstantTypes DEF Levels
    <3> QED
      BY <2>2, <3>1 DEF FileTypes, Create, Overlay
  <2> QED
    BY <2>1, <2>2, Zenon DEF rotate
<1> QED
  BY <1>2, <1>3, <1>4, <1>5, <1>6

\* A process that ends leaves nothing in memory.
LEMMA LoseMemoryTypes ==
  ASSUME TypeInv, LoseMemory, phase' \in {"down", "failed"}, starts' = starts, faults' \in Nat,
         issued' = issued, acked' = acked, files' = files,
         manifest' \in Manifests, OnLevels(manifest'.levels), manifest'.lastSeq = manifest.lastSeq,
         DOMAIN wals' \subseteq Nat, wals' \in [DOMAIN wals' -> Logs(issued)]
  PROVE  TypeInv'
<1> USE DEF LoseMemory
<1>1. Counters'
  BY DEF Counters, TypeInv
<1>2. Locks'
  BY DEF Locks, FlIdle, NoJob
<1>3. FlusherTypes'
  BY ConstantTypes DEF FlusherTypes, FlIdle, Flushers, NoTask, Task, LogNums, NoWal
<1>4. job' \in Jobs
  BY ConstantTypes DEF NoJob, Jobs
<1>5. TreeTypes'
  <2>1. NoLevels \in TreeOf /\ \A l \in Levels : ToSet(NoLevels[l]) = {}
    BY DEF NoLevels, TreeOf, ToSet
  <2> QED
    BY <2>1 DEF TreeTypes, OnLevels
<1>6. MemTypes'
  BY DEF MemTypes
<1>7. LogTypes'
  BY DEF LogTypes, LogNums
<1>8. FileTypes'
  BY DEF FileTypes, TypeInv
<1>9. CallTypes'
  BY DEF CallTypes, Calls, CallShape, Idle, LogNums, NoWal
<1>10. RecoveryTypes'
  BY DEF RecoveryTypes, Recoveries, RvIdle
<1>11. History'
  <2>1. Cardinality(issued) \in Nat
    BY FS_CardinalityType DEF TypeInv, History
  <2> QED
    BY <2>1 DEF TypeInv, History, RvIdle
<1>12. Lost'
  BY DEF Lost
<1> QED
  BY <1>1, <1>2, <1>3, <1>4, <1>5, <1>6, <1>7, <1>8, <1>9, <1>10, <1>11, <1>12 DEF TypeInv

----------------------------------------------------------------------------
\* The phases in which there is a process.
IsUp == phase \notin {"down", "failed"}

\* Steps that a stopped process does not take.
LEMMA UpFacts ==
  ASSUME TypeInv
  PROVE  /\ \A c \in Clients : cl[c].pc # "idle" => IsUp
         /\ fl.pc # "idle" => IsUp
         /\ job.pc # "none" => IsUp
         /\ flushQ # <<>> => IsUp
         /\ resched # 0 => IsUp
         /\ rv.pc # "idle" => IsUp
BY DEF TypeInv, Lost, IsUp, Idle, FlIdle, NoJob, RvIdle

\* The parts of the invariant that a step which only changes calls, and what is
\* acknowledged, leaves alone.
LEMMA CallStep ==
  ASSUME TypeInv, IsUp, CallTypes', acked' \subseteq issued,
         UNCHANGED <<ctlVars, mu, seqNum, memVars, walVars, vsVars, nextFileNum, files, flushQ, fl,
                     compVars, rv, issued, faults>>
  PROVE  TypeInv'
<1> USE DEF ctlVars, memVars, walVars, vsVars, compVars
<1>1. Counters' /\ Locks' /\ FlusherTypes' /\ job' \in Jobs
  BY CountersFrame, LocksFrame, FlusherFrame DEF TypeInv
<1>2. TreeTypes' /\ MemTypes' /\ LogTypes' /\ FileTypes' /\ RecoveryTypes'
  BY TreeFrame, MemFrame, LogFrame, FileFrame, RecoveryFrame DEF TypeInv
<1>3. History'
  BY DEF TypeInv, History
<1>4. Lost'
  BY DEF Lost, IsUp
<1> QED
  BY <1>1, <1>2, <1>3, <1>4 DEF TypeInv

\* One call goes on.
LEMMA BecomeTypes ==
  ASSUME CallTypes, issued' = issued, NEW c \in Clients, NEW call \in Calls(issued), CallShape(call),
         Become(c, call)
  PROVE  CallTypes'
BY DEF CallTypes, Become

\* A client that is in no call.
LEMMA IdleTypes == Idle \in Calls(issued) /\ CallShape(Idle)
BY DEF Idle, Calls, CallShape, LogNums, NoWal

\* write leaves the stall loop.
LEMMA StallTypes == ASSUME TypeInv, NEW c \in Clients, Stall(c) PROVE TypeInv'
<1>1. IsUp
  BY UpFacts DEF Stall
<1>2. CallTypes'
  <2> DEFINE call == [cl[c] EXCEPT !.pc = AfterStall]
  <2>1. cl[c] \in Calls(issued) /\ CallShape(cl[c]) /\ cl[c].pc = "stall"
    BY DEF TypeInv, CallTypes, Stall
  <2>2. AfterStall \in {"log", "apply"}
    BY DEF AfterStall
  <2>3. call \in Calls(issued) /\ CallShape(call)
    BY <2>1, <2>2 DEF Calls, CallShape
  <2> QED
    BY <2>3, BecomeTypes DEF TypeInv, Stall, histVars
<1>3. acked' \subseteq issued
  BY DEF Stall, TypeInv, History, histVars
<1> QED
  BY <1>1, <1>2, <1>3, CallStep DEF Stall, histVars

\* A call reads which log is current.
LEMMA ReadWalTypes == ASSUME TypeInv, NEW c \in Clients, ReadWal(c) PROVE TypeInv'
<1>1. IsUp
  BY UpFacts DEF ReadWal
<1>2. CallTypes'
  <2> DEFINE call == [cl[c] EXCEPT !.pc = "append", !.wal = wal]
  <2>1. cl[c] \in Calls(issued) /\ CallShape(cl[c]) /\ cl[c].pc = "log" /\ wal \in LogNums
    BY DEF TypeInv, CallTypes, LogTypes, ReadWal
  <2>2. call \in Calls(issued) /\ CallShape(call)
    BY <2>1 DEF Calls, CallShape
  <2> QED
    BY <2>2, BecomeTypes DEF TypeInv, ReadWal, histVars
<1>3. acked' \subseteq issued
  BY DEF ReadWal, TypeInv, History, histVars
<1> QED
  BY <1>1, <1>2, <1>3, CallStep DEF ReadWal, histVars

\* Sync returns.
LEMMA SyncReturnTypes == ASSUME TypeInv, NEW c \in Clients, SyncReturn(c) PROVE TypeInv'
<1>1. IsUp
  BY UpFacts DEF SyncReturn
<1>2. CallTypes'
  BY IdleTypes, BecomeTypes DEF TypeInv, SyncReturn, histVars
<1>3. acked' \subseteq issued
  BY DEF SyncReturn, TypeInv, History, histVars
<1> QED
  BY <1>1, <1>2, <1>3, CallStep DEF SyncReturn, histVars

\* A call hands its next task to the flusher: the channel stays within its capacity.
LEMMA SendTypes == ASSUME TypeInv, NEW c \in Clients, Send(c) PROVE TypeInv'
<1> DEFINE call == cl[c]
           last == call.i = Len(call.tasks)
           done == last /\ call.op \in {"write", "batch"}
           next == [call EXCEPT !.i = @ + 1, !.pc = IF last THEN "wait" ELSE "send"]
<1> USE DEF ctlVars, memVars, walVars, vsVars, compVars
<1>1. IsUp
  BY UpFacts DEF Send
<1>2. call \in Calls(issued) /\ CallShape(call) /\ call.pc = "send" /\ call.i \in 1..Len(call.tasks)
  BY DEF TypeInv, CallTypes, CallShape, Send
<1>3. call.tasks \in Seq(Tasks(issued)) /\ call.tasks[call.i] \in Tasks(issued) /\ ToSet(call.recs) \subseteq issued
  BY <1>2, InToSet DEF Calls
<1>4. CallTypes'
  <2>1. next \in Calls(issued) /\ CallShape(next)
    <3>1. call.i \in Nat /\ call.i + 1 \in Nat /\ Len(call.tasks) \in Nat
      BY <1>2, <1>3 DEF Calls
    <3>2. CASE last
      <4>1. next = [call EXCEPT !.i = call.i + 1, !.pc = "wait"]
        BY <3>2
      <4> HIDE DEF next
      <4> QED
        BY <1>2, <3>1, <4>1 DEF Calls, CallShape
    <3>3. CASE ~last
      <4>1. next = [call EXCEPT !.i = call.i + 1, !.pc = "send"] /\ call.i + 1 \in 1..Len(call.tasks)
        BY <1>2, <3>1, <3>3
      <4> HIDE DEF next
      <4> QED
        BY <1>2, <3>1, <4>1 DEF Calls, CallShape
    <3> QED
      BY <3>2, <3>3
  <2>2. Become(c, Idle) \/ Become(c, next)
    BY DEF Send
  <2> HIDE DEF next
  <2>3. CallTypes /\ issued' = issued
    BY DEF Send, TypeInv
  <2> QED
    BY <2>1, <2>2, <2>3, BecomeTypes, IdleTypes
<1>5. FlusherTypes'
  <2>1. flushQ' = Append(flushQ, call.tasks[call.i]) /\ Len(flushQ) < FlushChanCap /\ fl' = fl /\ issued' = issued
    BY DEF Send
  <2>2. flushQ \in Seq(Tasks(issued)) /\ Len(flushQ) \in Nat
    BY DEF TypeInv, FlusherTypes
  <2>3. flushQ' \in Seq(Tasks(issued)) /\ Len(flushQ') = Len(flushQ) + 1
    BY <1>3, <2>1, <2>2
  <2>4. Len(flushQ') <= FlushChanCap
    BY <2>1, <2>2, <2>3, ConstantTypes
  <2> QED
    BY <2>1, <2>3, <2>4 DEF TypeInv, FlusherTypes
<1>6. History'
  BY <1>3 DEF TypeInv, History, Send
<1>7. Counters' /\ Locks' /\ job' \in Jobs
  BY CountersFrame, LocksFrame DEF TypeInv, Send
<1>8. TreeTypes' /\ MemTypes' /\ LogTypes' /\ FileTypes' /\ RecoveryTypes'
  BY TreeFrame, MemFrame, LogFrame, FileFrame, RecoveryFrame DEF TypeInv, Send
<1>9. Lost'
  BY <1>1 DEF Lost, IsUp, Send
<1> QED
  BY <1>4, <1>5, <1>6, <1>7, <1>8, <1>9 DEF TypeInv

----------------------------------------------------------------------------
\* What History says of the records issued, with I for issued.
Counted(I) ==
  /\ I \subseteq Records /\ IsFiniteSet(I) /\ Cardinality(I) <= MaxWrites
  /\ \A r \in I : r.seq <= Cardinality(I) /\ r.val <= Cardinality(I)
  /\ \A r, q \in I : r.val = q.val => r = q

\* The records of a new call are new, and keep the count.
LEMMA NewIssued ==
  ASSUME History, NEW n \in Nat \ {0}, NEW ks \in [1..n -> Keys], NEW ds \in [1..n -> BOOLEAN],
         Cardinality(issued) + Len(NewRecords(ks, ds)) <= MaxWrites
  PROVE  LET recs == NewRecords(ks, ds)
         IN /\ recs \in Seq(issued \cup ToSet(recs)) /\ Len(recs) = n
            /\ Counted(issued \cup ToSet(recs))
            /\ Cardinality(issued \cup ToSet(recs)) = Cardinality(issued) + n
            /\ \A r \in ToSet(recs) : \E i \in 1..n : r.seq = seqNum + i /\ r.val = Cardinality(issued) + i
<1> DEFINE recs == NewRecords(ks, ds)
           C == Cardinality(issued)
           new == ToSet(recs)
           rec(i) == [key |-> ks[i], seq |-> seqNum + i, del |-> ds[i], val |-> C + i]
<1>1. Len(ks) = n
  OBVIOUS
<1>2. recs = [i \in 1..n |-> rec(i)]
  BY <1>1 DEF NewRecords
<1>3. C \in Nat /\ seqNum \in 0..C /\ IsFiniteSet(issued) /\ MaxWrites \in Nat
  BY FS_CardinalityType, ConstantTypes DEF History
<1>4. \A i \in 1..n : rec(i).val = C + i /\ rec(i).seq = seqNum + i
  OBVIOUS
<1>5. recs \in Seq({rec(i) : i \in 1..n}) /\ Len(recs) = n /\ \A i \in 1..n : recs[i] = rec(i)
  <2> HIDE DEF rec, recs
  <2> QED
    BY <1>2
<1>6. C + n <= MaxWrites
  BY <1>5
<1>7. \A i \in 1..n : rec(i) \in Records
  <2> SUFFICES ASSUME NEW i \in 1..n PROVE rec(i) \in Records
    OBVIOUS
  <2>1. ks[i] \in Keys /\ ds[i] \in BOOLEAN /\ seqNum + i \in 1..MaxWrites /\ C + i \in 1..MaxWrites
    BY <1>3, <1>6
  <2> QED
    BY <2>1 DEF Records
<1> HIDE DEF rec, C, recs
<1>8. new = {rec(i) : i \in 1..n} /\ \A i \in 1..n : rec(i) \in new
  BY <1>5 DEF ToSet
<1>9. IsFiniteSet(new) /\ Cardinality(new) = n
  <2> DEFINE f == [i \in 1..n |-> rec(i)]
  <2>1. f \in [1..n -> new]
    BY <1>8
  <2>2. ASSUME NEW i \in 1..n, NEW j \in 1..n, f[i] = f[j] PROVE i = j
    <3>1. rec(i) = rec(j)
      BY <2>2
    <3>2. rec(i).val = C + i /\ rec(j).val = C + j
      BY <1>4
    <3>3. C + i = C + j
      BY <3>1, <3>2
    <3> QED
      BY <1>3, <3>3
  <2>3. \A r \in new : \E i \in 1..n : f[i] = r
    BY <1>8
  <2> HIDE DEF f, new
  <2>4. f \in Bijection(1..n, new)
    BY <2>1, <2>2, <2>3 DEF Bijection, Injection, Surjection, IsInjective
  <2>5. IsFiniteSet(1..n) /\ Cardinality(1..n) = n /\ ExistsBijection(1..n, new)
    BY <2>4, FS_Interval DEF ExistsBijection
  <2> QED
    BY <2>5, FS_Bijection
<1>10. \A r \in issued : r.val \in Nat /\ r.val <= C /\ r.seq \in Nat /\ r.seq <= C
  <2>1. \A r \in issued : r \in Records /\ r.val <= C /\ r.seq <= C
    BY DEF History, C
  <2>2. \A r \in Records : r.val \in Nat /\ r.seq \in Nat
    BY <1>3 DEF Records
  <2> QED
    BY <2>1, <2>2
<1> HIDE DEF new
<1>11. issued \cap new = {}
  <2> SUFFICES ASSUME NEW r \in issued, r \in new PROVE FALSE
    OBVIOUS
  <2>1. PICK i \in 1..n : r = rec(i)
    BY <1>8
  <2>2. r.val = C + i /\ r.val <= C
    BY <1>4, <1>10, <2>1
  <2> QED
    BY <1>3, <2>2
<1>12. IsFiniteSet(issued \cup new) /\ Cardinality(issued \cup new) = C + n
  <2>1. Cardinality(issued \cap new) = 0
    BY <1>11, FS_EmptySet
  <2>2. /\ IsFiniteSet(issued \cup new)
        /\ Cardinality(issued \cup new) = C + n - Cardinality(issued \cap new)
    BY <1>3, <1>9, FS_Union, Zenon DEF C
  <2>3. C + n - 0 = C + n
    BY <1>3
  <2> QED
    BY <2>1, <2>2, <2>3
<1>13. \A r \in new : \E i \in 1..n : r.seq = seqNum + i /\ r.val = C + i
  BY <1>4, <1>8
<1>14. Counted(issued \cup new)
  <2>1. issued \cup new \subseteq Records
    BY <1>7, <1>8 DEF History
  <2>2. \A r \in issued \cup new : r.seq <= C + n /\ r.val <= C + n
    BY <1>3, <1>10, <1>13
  <2>3. ASSUME NEW r \in issued \cup new, NEW q \in issued \cup new, r.val = q.val PROVE r = q
    <3>1. CASE r \in issued /\ q \in issued
      BY <2>3, <3>1 DEF History
    <3>2. CASE r \in new /\ q \in new
      <4>1. PICK i \in 1..n, j \in 1..n : r = rec(i) /\ q = rec(j)
        BY <1>8, <3>2
      <4>2. i = j
        BY <1>3, <1>4, <2>3, <4>1
      <4> QED
        BY <4>1, <4>2
    <3>3. CASE r \in issued /\ q \in new
      BY <1>3, <1>10, <1>13, <2>3, <3>3
    <3>4. CASE r \in new /\ q \in issued
      BY <1>3, <1>10, <1>13, <2>3, <3>4
    <3> QED
      BY <3>1, <3>2, <3>3, <3>4
  <2> QED
    BY <1>6, <1>12, <2>1, <2>2, <2>3 DEF Counted
<1>15. recs \in Seq(issued \cup new)
  BY <1>5, <1>8
<1> QED
  BY <1>5, <1>12, <1>13, <1>14, <1>15 DEF recs, C, new

\* A process that goes on, or starts, has lost nothing.
LEMMA RunsOn == ASSUME phase' \notin {"down", "failed"} PROVE Lost'
BY DEF Lost

\* The call that begins with some records.
LEMMA OpenedCall ==
  ASSUME NEW I, NEW recs \in Seq(I), NEW op \in {"write", "batch"}, NEW pc \in {"stall", "log", "apply"}
  PROVE  [Idle EXCEPT !.op = op, !.pc = pc, !.recs = recs] \in Calls(I)
<1> DEFINE call == [Idle EXCEPT !.op = op, !.pc = pc, !.recs = recs]
<1>1. call \in [op : {op}, pc : {pc}, recs : {recs}, i : {1}, wal : {NoWal}, tasks : {<<>>}]
  BY DEF Idle
<1>2. <<>> \in Seq(Tasks(I)) /\ 1 \in Nat /\ NoWal \in LogNums
  BY DEF LogNums
<1> HIDE DEF call
<1>3. /\ DOMAIN call = {"op", "pc", "recs", "i", "wal", "tasks"}
      /\ call.op = op /\ call.pc = pc /\ call.recs = recs /\ call.i = 1 /\ call.wal = NoWal /\ call.tasks = <<>>
      /\ call = [op |-> call.op, pc |-> call.pc, recs |-> call.recs, i |-> call.i, wal |-> call.wal,
                 tasks |-> call.tasks]
  BY <1>1
<1>4. call \in Calls(I)
  BY <1>2, <1>3, Zenon DEF Calls
<1> QED
  BY <1>4 DEF call

\* Functions into a part of a set are functions into the set.
LEMMA WiderRange == ASSUME NEW D, NEW A, NEW B, A \subseteq B, NEW f \in [D -> A] PROVE f \in [D -> B]
OBVIOUS

\* The first step of Put, Delete and WriteBatch.
LEMMA StartTypes ==
  ASSUME TypeInv, NEW c \in Clients, NEW n \in Nat \ {0}, NEW ks \in [1..n -> Keys],
         NEW ds \in [1..n -> BOOLEAN], NEW op \in {"write", "batch"}, NEW pc \in {"stall", "log", "apply"},
         Start(c, op, pc, NewRecords(ks, ds))
  PROVE  TypeInv'
<1> DEFINE recs == NewRecords(ks, ds)
           C == Cardinality(issued)
<1> USE DEF ctlVars, memVars, walVars, vsVars, compVars
<1>1. History
  BY DEF TypeInv
<1>2. C + Len(recs) <= MaxWrites /\ seqNum' = seqNum + Len(recs) /\ issued' = issued \cup ToSet(recs)
      /\ acked' = acked /\ manifest' = manifest /\ rv' = rv /\ phase = "up"
  BY DEF Start
<1>3. /\ recs \in Seq(issued \cup ToSet(recs)) /\ Len(recs) = n
      /\ Counted(issued \cup ToSet(recs)) /\ Cardinality(issued \cup ToSet(recs)) = C + n
  BY <1>1, <1>2, NewIssued
<1> HIDE DEF recs
<1>4. History'
  <2>1. C \in Nat
    BY <1>1, FS_CardinalityType DEF History
  <2>2. seqNum \in 0..C /\ manifest.lastSeq <= C /\ rv.maxSeq <= C /\ acked \subseteq issued
    BY <1>1 DEF History
  <2>3. manifest.lastSeq \in Nat /\ rv.maxSeq \in Nat
    BY DEF TypeInv, TreeTypes, Manifests, RecoveryTypes, Recoveries
  <2> HIDE DEF C
  <2>4. Cardinality(issued') = C + n /\ Counted(issued')
    BY <1>2, <1>3, Zenon
  <2>5. seqNum' \in 0..Cardinality(issued') /\ manifest'.lastSeq <= Cardinality(issued')
        /\ rv'.maxSeq <= Cardinality(issued')
    BY <1>2, <1>3, <2>1, <2>2, <2>3, <2>4
  <2>6. acked' \subseteq issued'
    BY <1>2, <2>2
  <2> QED
    BY <2>4, <2>5, <2>6 DEF History, Counted
<1>5. CallTypes'
  <2> DEFINE call == [Idle EXCEPT !.op = op, !.pc = pc, !.recs = recs]
  <2>1. call \in Calls(issued')
    <3>1. recs \in Seq(issued')
      BY <1>2, <1>3, Zenon
    <3> QED
      BY <3>1, OpenedCall
  <2>2. CallShape(call)
    BY <1>3 DEF CallShape, Idle
  <2>3. cl' = [cl EXCEPT ![c] = call]
    BY DEF Start, Become, recs
  <2>4. cl \in [Clients -> Calls(issued')] /\ \A d \in Clients : CallShape(cl[d])
    BY <1>2, TypesGrow DEF TypeInv, CallTypes
  <2> HIDE DEF call
  <2> QED
    BY <2>1, <2>2, <2>3, <2>4 DEF CallTypes
<1>6. issued \subseteq issued'
  BY <1>2
<1>7. Counters' /\ Locks' /\ FlusherTypes' /\ job' \in Jobs
  BY <1>6, CountersFrame, LocksFrame, FlusherFrame DEF TypeInv, Start
<1>8. TreeTypes' /\ MemTypes' /\ LogTypes' /\ FileTypes' /\ RecoveryTypes'
  BY <1>6, TreeFrame, MemFrame, LogFrame, FileFrame, RecoveryFrame DEF TypeInv, Start
<1>9. Lost'
  BY RunsOn DEF Start
<1> QED
  BY <1>4, <1>5, <1>7, <1>8, <1>9 DEF TypeInv

\* A call that writes begins with records of these keys.
Starts(c, ks, ds) ==
  \E op \in {"write", "batch"}, pc \in {"stall", "log", "apply"} : Start(c, op, pc, NewRecords(ks, ds))

\* Put, Delete and WriteBatch number at least one record.
LEMMA WriteStarts ==
  ASSUME NEW c \in Clients, Put(c) \/ Delete(c) \/ WriteBatch(c)
  PROVE  \E n \in Nat \ {0} : \E ks \in [1..n -> Keys], ds \in [1..n -> BOOLEAN] : Starts(c, ks, ds)
<1>1. KeysOf[c] \subseteq Keys /\ AfterStall \in {"stall", "log", "apply"} /\ MaxBatch \in Nat
  BY ConstantTypes DEF AfterStall
<1>2. ASSUME NEW k \in KeysOf[c], NEW d \in BOOLEAN, Start(c, "write", "stall", NewRecords(<<k>>, <<d>>))
      PROVE  \E n \in Nat \ {0} : \E ks \in [1..n -> Keys], ds \in [1..n -> BOOLEAN] : Starts(c, ks, ds)
  <2>1. 1 \in Nat \ {0} /\ <<k>> \in [1..1 -> Keys] /\ <<d>> \in [1..1 -> BOOLEAN]
    BY <1>1
  <2>2. Starts(c, <<k>>, <<d>>)
    BY <1>2 DEF Starts
  <2> QED
    BY <2>1, <2>2
<1>3. CASE Put(c)
  BY <1>2, <1>3 DEF Put
<1>4. CASE Delete(c)
  BY <1>2, <1>4 DEF Delete
<1>5. CASE WriteBatch(c)
  <2>1. PICK n \in 1..MaxBatch : \E ks \in [1..n -> KeysOf[c]],
          ds \in [1..n -> IF "delete" \in Ops THEN BOOLEAN ELSE {FALSE}] :
            Start(c, "batch", AfterStall, NewRecords(ks, ds))
    BY <1>5 DEF WriteBatch
  <2>2. PICK ks \in [1..n -> KeysOf[c]], ds \in [1..n -> IF "delete" \in Ops THEN BOOLEAN ELSE {FALSE}] :
          Start(c, "batch", AfterStall, NewRecords(ks, ds))
    BY <2>1
  <2>3. n \in Nat \ {0} /\ ks \in [1..n -> Keys] /\ ds \in [1..n -> BOOLEAN]
    <3>1. (IF "delete" \in Ops THEN BOOLEAN ELSE {FALSE}) \subseteq BOOLEAN
      BY Zenon
    <3>2. ds \in [1..n -> BOOLEAN] /\ ks \in [1..n -> Keys]
      BY <1>1, <3>1, WiderRange, Zenon
    <3> QED
      BY <1>1, <3>2
  <2>4. Starts(c, ks, ds)
    BY <1>1, <2>2 DEF Starts
  <2> QED
    BY <2>3, <2>4
<1> QED
  BY <1>3, <1>4, <1>5

\* The calls that write keep the types.
LEMMA WriteTypes ==
  ASSUME TypeInv, NEW c \in Clients, Put(c) \/ Delete(c) \/ WriteBatch(c)
  PROVE  TypeInv'
<1>1. PICK n \in Nat \ {0} : \E ks \in [1..n -> Keys], ds \in [1..n -> BOOLEAN] : Starts(c, ks, ds)
  BY WriteStarts
<1> QED
  BY <1>1, StartTypes DEF Starts

----------------------------------------------------------------------------
\* A fault is counted.
LEMMA CountTypes == ASSUME Counters, NEW fault, Count(fault) PROVE faults' \in Nat
BY DEF Count, Counters

\* The part of a sequence up to some place.
LEMMA PrefixTypes ==
  ASSUME NEW S, NEW s \in Seq(S), NEW i \in 0..Len(s)
  PROVE  SubSeq(s, 1, i) \in Seq(S) /\ Len(SubSeq(s, 1, i)) = i
OBVIOUS

\* Logs with more records, or with half a record more, are logs.
LEMMA LongerLog ==
  ASSUME NEW I, NEW log \in Logs(I), NEW more \in Seq(I), NEW torn \in SUBSET (0..(Len(log.recs) + Len(more)))
  PROVE  [log EXCEPT !.recs = log.recs \o more, !.torn = torn] \in Logs(I)
<1>1. log.recs \in Seq(I) /\ log.synced \in 0..Len(log.recs)
      /\ log = [recs |-> log.recs, synced |-> log.synced, torn |-> log.torn]
  BY DEF Logs
<1> DEFINE r == log.recs \o more
           new == [log EXCEPT !.recs = r, !.torn = torn]
<1>2. r \in Seq(I) /\ Len(r) = Len(log.recs) + Len(more) /\ Len(log.recs) \in Nat /\ Len(more) \in Nat
  BY <1>1
<1> HIDE DEF r
<1>3. PICK y : y = new
  OBVIOUS
<1>4. y = [recs |-> r, synced |-> log.synced, torn |-> torn]
  BY <1>1, <1>3
<1>5. y.recs = r /\ y.synced = log.synced /\ y.torn = torn
  BY <1>4
<1>6. y \in [recs : Seq(I), synced : Nat, torn : SUBSET Nat]
  BY <1>1, <1>2, <1>4
<1>7. y.synced \in 0..Len(r) /\ torn \subseteq 0..Len(r)
  BY <1>1, <1>2, <1>5
<1>8. y \in Logs(I)
  BY <1>5, <1>6, <1>7 DEF Logs
<1> QED
  BY <1>3, <1>8 DEF r

\* A log, from its fields.
LEMMA LogOf ==
  ASSUME NEW I, NEW y, NEW r \in Seq(I), NEW s \in 0..Len(r), NEW t \in SUBSET (0..Len(r)),
         y = [recs |-> r, synced |-> s, torn |-> t]
  PROVE  y \in Logs(I)
<1>1. y.recs = r /\ y.synced = s /\ y.torn = t /\ Len(r) \in Nat
  OBVIOUS
<1>2. y \in [recs : Seq(I), synced : Nat, torn : SUBSET Nat]
  OBVIOUS
<1> QED
  BY <1>1, <1>2 DEF Logs

\* What an Append leaves of a log is a log, also when it fails.
LEMMA AppendedLog ==
  ASSUME NEW I, NEW log \in Logs(I), NEW recs \in Seq(I)
  PROVE  /\ HalfWritten(log, recs) \subseteq Logs(I)
         /\ [log EXCEPT !.recs = log.recs \o recs] \in Logs(I)
         /\ [log EXCEPT !.recs = log.recs \o recs, !.synced = Len(log.recs \o recs)] \in Logs(I)
         /\ [log EXCEPT !.synced = Len(log.recs)] \in Logs(I)
<1>1. log.recs \in Seq(I) /\ log.synced \in 0..Len(log.recs) /\ log.torn \subseteq 0..Len(log.recs)
      /\ log = [recs |-> log.recs, synced |-> log.synced, torn |-> log.torn]
  BY DEF Logs
<1>2. ASSUME NEW more, more \in Seq(I)
      PROVE  /\ log.recs \o more \in Seq(I) /\ Len(log.recs \o more) = Len(log.recs) + Len(more)
             /\ log.synced \in 0..Len(log.recs \o more)
             /\ log.torn \subseteq 0..Len(log.recs \o more) /\ Len(log.recs \o more) \in Nat
  BY <1>1, <1>2
<1>3. ASSUME NEW more, more \in Seq(I)
      PROVE  [log EXCEPT !.recs = log.recs \o more] \in Logs(I)
  <2> DEFINE r == log.recs \o more
  <2>1. r \in Seq(I) /\ log.synced \in 0..Len(r) /\ log.torn \in SUBSET (0..Len(r))
    BY <1>2, <1>3
  <2> HIDE DEF r
  <2>2. PICK y : y = [log EXCEPT !.recs = r]
    OBVIOUS
  <2>3. y = [recs |-> r, synced |-> log.synced, torn |-> log.torn]
    BY <1>1, <2>2
  <2>4. y \in Logs(I)
    BY <2>1, <2>3, LogOf
  <2> QED
    BY <2>2, <2>4 DEF r
<1>4. [log EXCEPT !.recs = log.recs \o recs, !.synced = Len(log.recs \o recs)] \in Logs(I)
  <2> DEFINE r == log.recs \o recs
  <2>1. r \in Seq(I) /\ Len(r) \in 0..Len(r) /\ log.torn \in SUBSET (0..Len(r))
    BY <1>2
  <2> HIDE DEF r
  <2>2. PICK y : y = [log EXCEPT !.recs = r, !.synced = Len(r)]
    OBVIOUS
  <2>3. y = [recs |-> r, synced |-> Len(r), torn |-> log.torn]
    BY <1>1, <2>2
  <2>4. y \in Logs(I)
    BY <2>1, <2>3, LogOf
  <2> QED
    BY <2>2, <2>4 DEF r
<1>5. [log EXCEPT !.synced = Len(log.recs)] \in Logs(I)
  <2> DEFINE r == log.recs
  <2>1. r \in Seq(I) /\ Len(r) \in 0..Len(r) /\ log.torn \in SUBSET (0..Len(r))
    BY <1>1
  <2>2. PICK y : y = [log EXCEPT !.synced = Len(r)]
    OBVIOUS
  <2>3. y = [recs |-> r, synced |-> Len(r), torn |-> log.torn]
    BY <1>1, <2>2
  <2> HIDE DEF r
  <2>4. y \in Logs(I)
    BY <2>1, <2>3, LogOf
  <2> QED
    BY <2>2, <2>4 DEF r
<1>6. ASSUME NEW i \in 0..Len(recs) PROVE [log EXCEPT !.recs = log.recs \o SubSeq(recs, 1, i)] \in Logs(I)
  BY <1>3, PrefixTypes
<1>7. ASSUME NEW i \in 0..(Len(recs) - 1)
      PROVE  [log EXCEPT !.recs = log.recs \o SubSeq(recs, 1, i), !.torn = log.torn \cup {Len(log.recs) + i}] \in Logs(I)
  <2> DEFINE more == SubSeq(recs, 1, i)
             torn == log.torn \cup {Len(log.recs) + i}
  <2>1. more \in Seq(I) /\ Len(more) = i
    BY <1>7, PrefixTypes
  <2> HIDE DEF more
  <2>2. torn \in SUBSET (0..(Len(log.recs) + Len(more)))
    BY <1>1, <2>1
  <2> HIDE DEF torn
  <2>3. [log EXCEPT !.recs = log.recs \o more, !.torn = torn] \in Logs(I)
    BY <2>1, <2>2, LongerLog
  <2> QED
    BY <2>3 DEF more, torn
<1>8. HalfWritten(log, recs) \subseteq Logs(I)
  BY <1>6, <1>7 DEF HalfWritten
<1> QED
  BY <1>3, <1>4, <1>5, <1>8

\* One log is changed, if it is there.
LEMMA OneLogChanged ==
  ASSUME LogTypes, NEW w, NEW log, w \in DOMAIN wals => log \in Logs(issued)
  PROVE  /\ DOMAIN [wals EXCEPT ![w] = log] = DOMAIN wals
         /\ [wals EXCEPT ![w] = log] \in [DOMAIN wals -> Logs(issued)]
BY DEF LogTypes

\* What is acknowledged with an error.
LEMMA ErrorTypes ==
  ASSUME TypeInv, NEW c \in Clients
  PROVE  AckedOnError(cl[c]) \subseteq issued /\ ToSet(cl[c].recs) \subseteq issued /\ acked \subseteq issued
<1>1. cl[c].recs \in Seq(issued) /\ acked \subseteq issued
  BY DEF TypeInv, CallTypes, Calls, History
<1>2. ToSet(cl[c].recs) \subseteq issued
  BY <1>1, InToSet
<1> QED
  BY <1>1, <1>2 DEF AckedOnError

\* The call that begins with a rotation.
LEMMA RotatingCall ==
  ASSUME NEW I, NEW op \in {"sync", "close"}
  PROVE  /\ [Idle EXCEPT !.op = op, !.pc = "rotate"] \in Calls(I)
         /\ CallShape([Idle EXCEPT !.op = op, !.pc = "rotate"])
<1> DEFINE call == [Idle EXCEPT !.op = op, !.pc = "rotate"]
<1>1. call \in [op : {op}, pc : {"rotate"}, recs : {<<>>}, i : {1}, wal : {NoWal}, tasks : {<<>>}]
  BY DEF Idle
<1>2. <<>> \in Seq(Tasks(I)) /\ <<>> \in Seq(I) /\ 1 \in Nat /\ NoWal \in LogNums
  BY DEF LogNums
<1> HIDE DEF call
<1>3. /\ DOMAIN call = {"op", "pc", "recs", "i", "wal", "tasks"}
      /\ call.op = op /\ call.pc = "rotate" /\ call.recs = <<>> /\ call.i = 1 /\ call.wal = NoWal
      /\ call.tasks = <<>>
      /\ call = [op |-> call.op, pc |-> call.pc, recs |-> call.recs, i |-> call.i, wal |-> call.wal,
                 tasks |-> call.tasks]
  BY <1>1
<1>4. call \in Calls(I)
  BY <1>2, <1>3, Zenon DEF Calls
<1>5. CallShape(call)
  BY <1>3 DEF CallShape
<1> QED
  BY <1>4, <1>5 DEF call

\* Append, failing or not, leaves issued records in the log.
LEMMA AppendWalTypes == ASSUME TypeInv, NEW c \in Clients, AppendWal(c) PROVE TypeInv'
<1> USE DEF ctlVars, memVars, vsVars, compVars
<1> DEFINE call == cl[c]
           w == call.wal
           recs == wals[w].recs \o call.recs
<1>1. PICK fault : /\ call.pc = "append" /\ Count(fault)
                   /\ \/ Become(c, Idle) /\ acked' = AckedOnError(call) /\ wals' = wals
                      \/ /\ Become(c, Idle) /\ acked' = AckedOnError(call)
                         /\ \E log \in HalfWritten(wals[w], call.recs) : wals' = [wals EXCEPT ![w] = log]
                      \/ /\ wals' = [wals EXCEPT ![w].recs = recs,
                                                 ![w].synced = IF SyncBatch THEN Len(recs) ELSE @]
                         /\ Become(c, [call EXCEPT !.pc = "apply"]) /\ acked' = acked
                   /\ UNCHANGED <<ctlVars, mu, seqNum, memVars, wal, closedWals, vsVars, nextFileNum, files,
                                  flushQ, fl, compVars, snaps, rv, issued>>
  BY DEF AppendWal
<1>2. call \in Calls(issued) /\ CallShape(call) /\ call.recs \in Seq(issued)
  BY DEF TypeInv, CallTypes, Calls
<1>3. faults' \in Nat /\ IsUp
  BY <1>1, CountTypes, UpFacts DEF TypeInv
<1>4. CallTypes'
  <2>1. [call EXCEPT !.pc = "apply"] \in Calls(issued) /\ CallShape([call EXCEPT !.pc = "apply"])
    BY <1>1, <1>2 DEF Calls, CallShape
  <2>2. \E next : Become(c, next) /\ next \in Calls(issued) /\ CallShape(next)
    BY <1>1, <2>1, IdleTypes, Zenon
  <2> QED
    BY <1>1, <2>2, BecomeTypes DEF TypeInv
<1>5. LogTypes'
  <2> SUFFICES DOMAIN wals' = DOMAIN wals /\ wals' \in [DOMAIN wals -> Logs(issued)]
    BY <1>1 DEF TypeInv, LogTypes
  <2>1. LogTypes
    BY DEF TypeInv
  <2>2. CASE wals' = wals
    BY <2>1, <2>2 DEF LogTypes
  <2>3. ASSUME NEW log, wals' = [wals EXCEPT ![w] = log], w \in DOMAIN wals => log \in Logs(issued)
        PROVE  DOMAIN wals' = DOMAIN wals /\ wals' \in [DOMAIN wals -> Logs(issued)]
    BY <2>1, <2>3, OneLogChanged
  <2>4. w \in DOMAIN wals => wals[w] \in Logs(issued)
    BY <2>1 DEF LogTypes
  <2>5. CASE \E log \in HalfWritten(wals[w], call.recs) : wals' = [wals EXCEPT ![w] = log]
    <3>1. w \in DOMAIN wals => HalfWritten(wals[w], call.recs) \subseteq Logs(issued)
      BY <1>2, <2>4, AppendedLog
    <3> QED
      BY <2>3, <2>5, <3>1
  <2>6. CASE wals' = [wals EXCEPT ![w].recs = recs, ![w].synced = IF SyncBatch THEN Len(recs) ELSE @]
    <3> DEFINE a == [wals[w] EXCEPT !.recs = recs]
               b == [wals[w] EXCEPT !.recs = recs, !.synced = Len(recs)]
    <3>1. w \in DOMAIN wals => a \in Logs(issued) /\ b \in Logs(issued)
      BY <1>2, <2>4, AppendedLog
    <3>2. wals' = [wals EXCEPT ![w] = IF SyncBatch THEN b ELSE a]
      <4> HIDE DEF recs
      <4>1. CASE SyncBatch
        BY <2>6, <4>1
      <4>2. CASE ~SyncBatch
        <5>1. wals' = [wals EXCEPT ![w].recs = recs, ![w].synced = @]
          BY <2>6, <4>2
        <5> QED
          BY <4>2, <5>1
      <4> QED
        BY <4>1, <4>2
    <3> HIDE DEF a, b
    <3> QED
      BY <2>3, <3>1, <3>2
  <2> QED
    BY <1>1, <2>2, <2>5, <2>6
<1>6. acked' \subseteq issued
  BY <1>1, ErrorTypes
<1>7. History'
  BY <1>1, <1>6 DEF TypeInv, History
<1>8. Counters' /\ Locks' /\ FlusherTypes' /\ job' \in Jobs
  <2>1. Counters'
    BY <1>1, <1>3 DEF TypeInv, Counters
  <2> QED
    BY <1>1, <2>1, LocksFrame, FlusherFrame DEF TypeInv
<1>9. TreeTypes' /\ MemTypes' /\ FileTypes' /\ RecoveryTypes'
  BY <1>1, TreeFrame, MemFrame, FileFrame, RecoveryFrame DEF TypeInv
<1>10. Lost'
  BY <1>1, <1>3, RunsOn DEF IsUp
<1> QED
  BY <1>4, <1>5, <1>7, <1>8, <1>9, <1>10 DEF TypeInv

\* Sync fsyncs the log.
LEMMA SyncTypes == ASSUME TypeInv, NEW c \in Clients, Sync(c) PROVE TypeInv'
<1> USE DEF ctlVars, memVars, vsVars, compVars, histVars
<1>1. PICK fault : /\ phase = "up" /\ Count(fault)
                   /\ Become(c, IF fault = "none" THEN [Idle EXCEPT !.op = "sync", !.pc = "rotate"] ELSE Idle)
                   /\ wals' = IF wal = NoWal \/ fault = "fsync" THEN wals
                              ELSE [wals EXCEPT ![wal].synced = Len(wals[wal].recs)]
                   /\ UNCHANGED <<ctlVars, mu, seqNum, memVars, wal, closedWals, vsVars, nextFileNum, files,
                                  flushQ, fl, compVars, snaps, rv, histVars>>
  BY DEF Sync
<1>2. faults' \in Nat
  BY <1>1, CountTypes DEF TypeInv
<1>3. CallTypes'
  <2>1. [Idle EXCEPT !.op = "sync", !.pc = "rotate"] \in Calls(issued)
        /\ CallShape([Idle EXCEPT !.op = "sync", !.pc = "rotate"])
    BY RotatingCall
  <2>2. \E next : Become(c, next) /\ next \in Calls(issued) /\ CallShape(next)
    BY <1>1, <2>1, IdleTypes, Zenon
  <2> QED
    BY <1>1, <2>2, BecomeTypes DEF TypeInv
<1>4. LogTypes'
  <2>1. LogTypes
    BY DEF TypeInv
  <2>2. wal \in DOMAIN wals => [wals[wal] EXCEPT !.synced = Len(wals[wal].recs)] \in Logs(issued)
    <3>1. <<>> \in Seq(issued)
      OBVIOUS
    <3>2. wal \in DOMAIN wals => wals[wal] \in Logs(issued)
      BY <2>1 DEF LogTypes
    <3> QED
      BY <3>1, <3>2, AppendedLog
  <2>3. wals' = wals \/ wals' = [wals EXCEPT ![wal] = [wals[wal] EXCEPT !.synced = Len(wals[wal].recs)]]
    BY <1>1
  <2>4. DOMAIN wals' = DOMAIN wals /\ wals' \in [DOMAIN wals -> Logs(issued)]
    <3>1. CASE wals' = wals
      BY <2>1, <3>1 DEF LogTypes
    <3>2. CASE wals' # wals
      BY <2>1, <2>2, <2>3, <3>2, OneLogChanged
    <3> QED
      BY <3>1, <3>2
  <2> QED
    BY <1>1, <2>1, <2>4 DEF LogTypes
<1>5. Counters' /\ Locks' /\ FlusherTypes' /\ job' \in Jobs /\ History'
  <2>1. Counters'
    BY <1>1, <1>2 DEF TypeInv, Counters
  <2> QED
    BY <1>1, <2>1, LocksFrame, FlusherFrame, HistoryFrame DEF TypeInv
<1>6. TreeTypes' /\ MemTypes' /\ FileTypes' /\ RecoveryTypes'
  BY <1>1, TreeFrame, MemFrame, FileFrame, RecoveryFrame DEF TypeInv
<1>7. Lost'
  BY <1>1, RunsOn
<1> QED
  BY <1>3, <1>4, <1>5, <1>6, <1>7 DEF TypeInv

\* Close begins.
LEMMA CloseTypes == ASSUME TypeInv, NEW c \in Clients, Close(c) PROVE TypeInv'
<1> USE DEF memVars, walVars, vsVars, compVars, histVars
<1>1. CallTypes'
  <2>1. [Idle EXCEPT !.op = "close", !.pc = "rotate"] \in Calls(issued)
        /\ CallShape([Idle EXCEPT !.op = "close", !.pc = "rotate"])
    BY RotatingCall
  <2> QED
    BY <2>1, BecomeTypes DEF TypeInv, Close
<1>2. Counters' /\ Locks' /\ FlusherTypes' /\ job' \in Jobs /\ History'
  <2>1. Counters'
    BY DEF TypeInv, Counters, Close
  <2> QED
    BY <2>1, LocksFrame, FlusherFrame, HistoryFrame DEF TypeInv, Close
<1>3. TreeTypes' /\ MemTypes' /\ LogTypes' /\ FileTypes' /\ RecoveryTypes'
  BY TreeFrame, MemFrame, LogFrame, FileFrame, RecoveryFrame DEF TypeInv, Close
<1>4. Lost'
  BY RunsOn DEF Close
<1> QED
  BY <1>1, <1>2, <1>3, <1>4 DEF TypeInv

----------------------------------------------------------------------------
\* Insertion of one more record into the memtable, with the rotation of a full one.
Inserts(m, full, fault) ==
  IF full THEN rotate(m, fault) ELSE mt' = m /\ UNCHANGED <<immt, walVars, vsVars, nextFileNum, files>>

\* A record goes into the memtable, which may be rotated then.
LEMMA InsertTypes ==
  ASSUME TypeInv, issued' = issued, NEW m \in (SUBSET issued) \ {{}}, NEW full \in BOOLEAN, NEW fault,
         Inserts(m, full, fault)
  PROVE  /\ TreeTypes' /\ MemTypes' /\ LogTypes' /\ FileTypes' /\ nextFileNum' \in Nat
         /\ RotateTask(m) \in Tasks(issued)
         /\ levels' = levels /\ manifest'.levels = manifest.levels /\ manifest'.lastSeq = manifest.lastSeq
<1>1. TreeTypes /\ LogTypes /\ FileTypes /\ nextFileNum \in Nat /\ MemTypes
  BY DEF TypeInv, Counters
<1>2. CASE full
  BY <1>1, <1>2, RotateTypes DEF Inserts
<1>3. CASE ~full
  <2>1. mt' = m /\ UNCHANGED <<immt, walVars, vsVars, nextFileNum, files>>
    BY <1>3 DEF Inserts
  <2>2. TableNum \in Nat
    BY <1>1 DEF TableNum
  <2>3. RotateTask(m) \in Tasks(issued)
    BY <1>1, <2>2 DEF RotateTask, Task, Tasks, LogTypes
  <2>4. MemTypes'
    BY <1>1, <2>1 DEF MemTypes
  <2>5. TreeTypes' /\ LogTypes' /\ FileTypes' /\ levels' = levels /\ manifest' = manifest /\ nextFileNum' \in Nat
    BY <1>1, <2>1, TreeFrame, LogFrame, FileFrame DEF vsVars
  <2> QED
    BY <2>3, <2>4, <2>5
<1> QED
  BY <1>2, <1>3

\* A step of the critical section of write and WriteBatch.
LEMMA ApplyTaken == ASSUME TypeInv, NEW c \in Clients, Apply(c) PROVE TypeInv'
<1> USE DEF ctlVars, compVars
<1> DEFINE call == cl[c]
           m == mt \cup {call.recs[call.i]}
           full == Cardinality(m) >= MemtableSize
           last == call.i = Len(call.recs)
           tasks == IF full THEN Append(call.tasks, RotateTask(m)) ELSE call.tasks
           more == [call EXCEPT !.i = @ + 1, !.tasks = tasks]
           send == [call EXCEPT !.pc = "send", !.i = 1, !.tasks = tasks]
<1>1. PICK fault : /\ call.pc = "apply" /\ mu = (IF call.i = 1 THEN "free" ELSE c) /\ Count(fault)
                   /\ Inserts(m, full, fault)
                   /\ mu' \in {"free", c}
                   /\ \/ Become(c, Idle)
                      \/ ~last /\ Become(c, more)
                      \/ tasks # <<>> /\ Become(c, send)
                   /\ acked' \in {AckedOnError(call), acked \cup ToSet(call.recs), acked}
                   /\ UNCHANGED <<ctlVars, seqNum, flushQ, fl, compVars, snaps, rv, issued>>
  <2>1. PICK fault : /\ call.pc = "apply" /\ mu = (IF call.i = 1 THEN "free" ELSE c) /\ Count(fault)
                     /\ Inserts(m, full, fault)
                     /\ mu' = IF fault \in {"wal", "table"} THEN IF call.op = "write" THEN c ELSE "free"
                              ELSE IF last THEN "free" ELSE c
                     /\ Become(c, IF fault \in {"wal", "table"} THEN Idle ELSE IF ~last THEN more
                                  ELSE IF tasks = <<>> THEN Idle ELSE send)
                     /\ acked' = IF fault \in {"wal", "table"} THEN AckedOnError(call)
                                 ELSE IF last /\ tasks = <<>> THEN acked \cup ToSet(call.recs) ELSE acked
                     /\ UNCHANGED <<ctlVars, seqNum, flushQ, fl, compVars, snaps, rv, issued>>
    BY DEF Apply, Inserts
  <2> HIDE DEF m, full, last, tasks, more, send
  <2> QED
    BY <2>1, Zenon
<1>2. /\ call \in Calls(issued) /\ CallShape(call) /\ call.recs \in Seq(issued)
      /\ call.i \in 1..Len(call.recs) /\ call.tasks \in Seq(Tasks(issued))
  BY <1>1 DEF TypeInv, CallTypes, Calls, CallShape
<1>3. m \in (SUBSET issued) \ {{}}
  BY <1>2 DEF TypeInv, MemTypes
<1> HIDE DEF m
<1>4. full \in BOOLEAN
  OBVIOUS
<1> HIDE DEF full
<1>5. /\ TreeTypes' /\ MemTypes' /\ LogTypes' /\ FileTypes' /\ nextFileNum' \in Nat
      /\ RotateTask(m) \in Tasks(issued) /\ manifest'.lastSeq = manifest.lastSeq
  BY <1>1, <1>3, <1>4, InsertTypes
<1>6. tasks \in Seq(Tasks(issued))
  BY <1>2, <1>5
<1> HIDE DEF tasks
<1>7. CallTypes'
  <2>1. ~last => more \in Calls(issued) /\ CallShape(more)
    <3>1. call.i + 1 \in Nat /\ (~last => call.i + 1 \in 1..Len(call.recs)) /\ call.recs \in Seq(issued)
      BY <1>2
    <3>2. PICK next : next = [call EXCEPT !.pc = "apply", !.i = call.i + 1, !.tasks = tasks]
      OBVIOUS
    <3>3. next \in Calls(issued) /\ next.pc = "apply" /\ next.i = call.i + 1 /\ next.recs = call.recs
      BY <1>2, <1>6, <3>1, <3>2 DEF Calls
    <3>4. next = more
      BY <1>1, <1>2, <3>2 DEF Calls
    <3> HIDE DEF more
    <3> QED
      BY <3>1, <3>3, <3>4 DEF CallShape
  <2>2. tasks # <<>> => send \in Calls(issued) /\ CallShape(send)
    <3>1. PICK next : next = send
      OBVIOUS
    <3>2. next \in Calls(issued) /\ next.pc = "send" /\ next.i = 1 /\ next.tasks = tasks
      BY <1>2, <1>6, <3>1 DEF Calls
    <3>3. tasks # <<>> => 1 \in 1..Len(tasks)
      BY <1>6
    <3> HIDE DEF send
    <3> QED
      BY <3>1, <3>2, <3>3 DEF CallShape
  <2> HIDE DEF more, send, last
  <2>3. \E next : Become(c, next) /\ next \in Calls(issued) /\ CallShape(next)
    BY <1>1, <2>1, <2>2, IdleTypes, Zenon
  <2> QED
    BY <1>1, <2>3, BecomeTypes DEF TypeInv
<1>8. History'
  <2>1. acked' \subseteq issued
    BY <1>1, ErrorTypes
  <2> QED
    BY <1>1, <1>5, <2>1 DEF TypeInv, History
<1>9. Locks'
  BY <1>1, ConstantTypes DEF TypeInv, Locks
<1>10. Counters'
  BY <1>1, <1>5, CountTypes DEF TypeInv, Counters
<1>11. FlusherTypes' /\ RecoveryTypes' /\ job' \in Jobs
  BY <1>1, FlusherFrame, RecoveryFrame DEF TypeInv
<1>12. Lost'
  BY <1>1, UpFacts, RunsOn DEF IsUp
<1> QED
  BY <1>5, <1>7, <1>8, <1>9, <1>10, <1>11, <1>12 DEF TypeInv

\* The critical section of Sync and Close.
LEMMA RotateForSyncTypes == ASSUME TypeInv, NEW c \in Clients, RotateForSync(c) PROVE TypeInv'
<1> USE DEF compVars, histVars
<1> DEFINE call == cl[c]
           wait == [call EXCEPT !.pc = "wait"]
           send == [call EXCEPT !.pc = "send", !.tasks = <<RotateTask(mt)>>]
<1>1. PICK fault : /\ call.pc = "rotate" /\ mu = "free" /\ Count(fault)
                   /\ \/ /\ Become(c, Idle) \/ Become(c, wait)
                         /\ UNCHANGED <<phase, memVars, walVars, vsVars, nextFileNum, files>>
                      \/ /\ mt # {} /\ rotate(mt, fault)
                         /\ \/ Become(c, Idle) /\ phase' = "up"
                            \/ Become(c, send) /\ phase' = phase
                   /\ UNCHANGED <<starts, mu, seqNum, flushQ, fl, compVars, snaps, rv, histVars>>
  <2>1. PICK fault : /\ call.pc = "rotate" /\ mu = "free" /\ Count(fault)
                     /\ \/ /\ Become(c, IF call.op = "sync" THEN Idle ELSE wait)
                           /\ UNCHANGED <<phase, memVars, walVars, vsVars, nextFileNum, files>>
                        \/ /\ mt # {} /\ rotate(mt, fault)
                           /\ IF fault \in {"wal", "table"} THEN Become(c, Idle) /\ phase' = "up"
                              ELSE Become(c, send) /\ phase' = phase
                     /\ UNCHANGED <<starts, mu, seqNum, flushQ, fl, compVars, snaps, rv, histVars>>
    BY DEF RotateForSync
  <2> HIDE DEF wait, send
  <2> QED
    BY <2>1, Zenon
<1>2. call \in Calls(issued) /\ CallShape(call) /\ issued' = issued
  BY <1>1 DEF TypeInv, CallTypes
<1>3. /\ TreeTypes' /\ MemTypes' /\ LogTypes' /\ FileTypes' /\ nextFileNum' \in Nat
      /\ manifest'.lastSeq = manifest.lastSeq /\ (mt # {} => RotateTask(mt) \in Tasks(issued))
  <2>1. TreeTypes /\ LogTypes /\ FileTypes /\ nextFileNum \in Nat /\ MemTypes
    BY DEF TypeInv, Counters
  <2>2. CASE UNCHANGED <<phase, memVars, walVars, vsVars, nextFileNum, files>>
    <3>1. mt # {} => RotateTask(mt) \in Tasks(issued)
      BY <2>1 DEF RotateTask, TableNum, Task, Tasks, LogTypes, MemTypes
    <3> QED
      BY <1>2, <2>1, <2>2, <3>1, TreeFrame, MemFrame, LogFrame, FileFrame DEF vsVars
  <2>3. CASE mt # {} /\ rotate(mt, fault)
    <3>1. mt \in (SUBSET issued) \ {{}}
      BY <2>1, <2>3 DEF MemTypes
    <3> QED
      BY <1>2, <2>1, <2>3, <3>1, RotateTypes
  <2> QED
    BY <1>1, <2>2, <2>3
<1>4. CallTypes'
  <2>1. wait \in Calls(issued) /\ CallShape(wait)
    <3>1. PICK next : next = wait
      OBVIOUS
    <3>2. next \in Calls(issued) /\ next.pc = "wait"
      BY <1>2, <3>1 DEF Calls
    <3> HIDE DEF wait
    <3> QED
      BY <3>1, <3>2 DEF CallShape
  <2>2. mt # {} => send \in Calls(issued) /\ CallShape(send)
    <3>1. PICK t : t = <<RotateTask(mt)>>
      OBVIOUS
    <3>2. mt # {} => t \in Seq(Tasks(issued)) /\ Len(t) = 1
      BY <1>3, <3>1
    <3>3. PICK next : next = [call EXCEPT !.pc = "send", !.tasks = t]
      OBVIOUS
    <3>4. mt # {} => next \in Calls(issued) /\ next.pc = "send" /\ next.i = call.i /\ next.tasks = t
      BY <1>2, <3>2, <3>3 DEF Calls
    <3>5. next = send
      BY <3>1, <3>3
    <3>6. call.i = 1
      BY <1>1, <1>2 DEF CallShape
    <3> HIDE DEF send
    <3> QED
      <4>1. mt # {} => send.pc = "send" /\ send.i = 1 /\ Len(send.tasks) = 1 /\ send \in Calls(issued)
        BY <3>2, <3>4, <3>5, <3>6, Zenon
      <4> QED
        BY <4>1 DEF CallShape
  <2> HIDE DEF wait, send
  <2>3. \E next : Become(c, next) /\ next \in Calls(issued) /\ CallShape(next)
    BY <1>1, <2>1, <2>2, IdleTypes, Zenon
  <2> QED
    BY <1>2, <2>3, BecomeTypes DEF TypeInv
<1>5. History'
  BY <1>1, <1>3 DEF TypeInv, History
<1>6. IsUp
  BY <1>1, UpFacts
<1>7. Counters'
  BY <1>1, <1>3, CountTypes DEF TypeInv, Counters
<1>8. Locks' /\ FlusherTypes' /\ RecoveryTypes' /\ job' \in Jobs
  BY <1>1, LocksFrame, FlusherFrame, RecoveryFrame DEF TypeInv
<1>9. Lost'
  <2>1. phase' \in {"up", phase}
    BY <1>1
  <2> QED
    BY <1>6, <2>1, RunsOn DEF IsUp
<1> QED
  BY <1>3, <1>4, <1>5, <1>7, <1>8, <1>9 DEF TypeInv

----------------------------------------------------------------------------
\* Close returns: the process is gone.
LEMMA CloseReturnTypes == ASSUME TypeInv, NEW c \in Clients, CloseReturn(c) PROVE TypeInv'
<1>1. LogTypes /\ manifest \in Manifests /\ OnLevels(manifest.levels)
  BY DEF TypeInv, TreeTypes, OnLevels
<1>2. wal \in DOMAIN wals => [wals[wal] EXCEPT !.synced = Len(wals[wal].recs)] \in Logs(issued)
  <2>1. <<>> \in Seq(issued)
    OBVIOUS
  <2>2. wal \in DOMAIN wals => wals[wal] \in Logs(issued)
    BY <1>1 DEF LogTypes
  <2> QED
    BY <2>1, <2>2, AppendedLog
<1>3. wals' = wals \/ wals' = [wals EXCEPT ![wal] = [wals[wal] EXCEPT !.synced = Len(wals[wal].recs)]]
  BY DEF CloseReturn
<1>4. DOMAIN wals' = DOMAIN wals /\ wals' \in [DOMAIN wals -> Logs(issued)]
  <2>1. CASE wals' = wals
    BY <1>1, <2>1 DEF LogTypes
  <2>2. CASE wals' # wals
    BY <1>1, <1>2, <1>3, <2>2, OneLogChanged
  <2> QED
    BY <2>1, <2>2
<1>5. DOMAIN wals' \subseteq Nat /\ wals' \in [DOMAIN wals' -> Logs(issued)]
  BY <1>1, <1>4 DEF LogTypes
<1>6. /\ LoseMemory /\ phase' = "down" /\ starts' = starts /\ faults' \in Nat /\ issued' = issued
      /\ acked' = acked /\ files' = files /\ manifest' = manifest
  BY DEF CloseReturn, histVars, TypeInv, Counters
<1> QED
  BY <1>1, <1>5, <1>6, LoseMemoryTypes

\* What a crash leaves of a log is a log.
LEMMA LeftoverTypes ==
  ASSUME LogTypes, NEW n \in DOMAIN wals, NEW left \in Leftovers(n) PROVE left \in Logs(issued)
<1> DEFINE log == wals[n]
<1>1. log.recs \in Seq(issued) /\ log.synced \in 0..Len(log.recs) /\ log.torn \subseteq 0..Len(log.recs)
  BY DEF LogTypes, Logs
<1>2. PICK i \in log.synced..Len(log.recs) : \E t \in {{}, {i}} :
        left = [recs |-> SubSeq(log.recs, 1, i), synced |-> i, torn |-> {j \in log.torn : j < i} \cup t]
  BY DEF Leftovers
<1>3. PICK t \in {{}, {i}} :
        left = [recs |-> SubSeq(log.recs, 1, i), synced |-> i, torn |-> {j \in log.torn : j < i} \cup t]
  BY <1>2
<1> DEFINE r == SubSeq(log.recs, 1, i)
           torn == {j \in log.torn : j < i} \cup t
<1>4. i \in 0..Len(log.recs)
  BY <1>1
<1>5. r \in Seq(issued) /\ Len(r) = i
  BY <1>1, <1>4, PrefixTypes
<1> HIDE DEF r
<1>6. torn \in SUBSET (0..Len(r)) /\ i \in 0..Len(r)
  BY <1>1, <1>4, <1>5
<1> HIDE DEF torn
<1>7. left = [recs |-> r, synced |-> i, torn |-> torn]
  BY <1>3 DEF r, torn
<1> QED
  BY <1>5, <1>6, <1>7, LogOf

\* A crash: the process is gone, and the logs are cut.
LEMMA CrashTypes == ASSUME TypeInv, Crash PROVE TypeInv'
<1>1. LogTypes /\ manifest \in Manifests /\ OnLevels(manifest.levels)
  BY DEF TypeInv, TreeTypes, OnLevels
<1>2. DOMAIN wals' = DOMAIN wals /\ wals' = [n \in DOMAIN wals |-> wals'[n]]
      /\ \A n \in DOMAIN wals : wals'[n] \in Leftovers(n)
  BY DEF Crash
<1>3. \A n \in DOMAIN wals : wals'[n] \in Logs(issued)
  BY <1>1, <1>2, LeftoverTypes
<1>4. DOMAIN wals' \subseteq Nat /\ wals' \in [DOMAIN wals' -> Logs(issued)]
  BY <1>1, <1>2, <1>3 DEF LogTypes
<1>5. /\ LoseMemory /\ phase' = "down" /\ starts' = starts /\ faults' \in Nat /\ issued' = issued
      /\ acked' = acked /\ files' = files /\ manifest' = manifest
  BY DEF Crash, histVars, TypeInv, Counters
<1> QED
  BY <1>1, <1>4, <1>5, LoseMemoryTypes

----------------------------------------------------------------------------
\* The flusher takes a task.
LEMMA FlushTakeTypes == ASSUME TypeInv, FlushTake PROVE TypeInv'
<1> USE DEF ctlVars, memVars, walVars, vsVars, compVars, histVars
<1>1. /\ flushQ # <<>> /\ fl.pc = "idle" /\ flushQ' = Tail(flushQ)
      /\ fl' = [FlIdle EXCEPT !.pc = "write", !.task = Head(flushQ)]
      /\ phase' = phase /\ phase \in {"recovering", "up", "closing"} /\ mu' = mu
  BY DEF FlushTake
<1>2. flushQ \in Seq(Tasks(issued)) /\ Len(flushQ) <= FlushChanCap
  BY DEF TypeInv, FlusherTypes
<1>3. Head(flushQ) \in Tasks(issued) /\ Tail(flushQ) \in Seq(Tasks(issued)) /\ Len(Tail(flushQ)) <= FlushChanCap
  BY <1>1, <1>2, ConstantTypes
<1>4. fl'.pc = "write" /\ fl'.task = Head(flushQ) /\ fl'.next = 0 /\ fl' \in Flushers(issued)
  <2>1. PICK t : t = Head(flushQ) /\ t \in Tasks(issued)
    BY <1>3
  <2>2. fl' = [FlIdle EXCEPT !.pc = "write", !.task = t]
    BY <1>1, <2>1
  <2>3. fl'.pc = "write" /\ fl'.task = t /\ fl'.next = 0 /\ fl' \in Flushers(issued)
    BY <2>1, <2>2 DEF FlIdle, Flushers
  <2> QED
    BY <2>1, <2>3
<1>5. FlusherTypes'
  <2>1. issued' = issued
    BY DEF FlushTake
  <2> QED
    BY <1>1, <1>3, <1>4, <2>1 DEF FlusherTypes
<1>6. Locks'
  BY <1>1, <1>4 DEF TypeInv, Locks, FlushTake
<1>7. Counters' /\ job' \in Jobs /\ History'
  BY CountersFrame, HistoryFrame DEF TypeInv, FlushTake
<1>8. TreeTypes' /\ MemTypes' /\ LogTypes' /\ FileTypes' /\ CallTypes' /\ RecoveryTypes'
  BY TreeFrame, MemFrame, LogFrame, FileFrame, CallFrame, RecoveryFrame DEF TypeInv, FlushTake
<1>9. Lost'
  BY <1>1, RunsOn
<1> QED
  BY <1>5, <1>6, <1>7, <1>8, <1>9 DEF TypeInv

\* A flusher without a task.
LEMMA FlIdleTypes == ASSUME NEW I PROVE FlIdle \in Flushers(I) /\ FlIdle.pc = "idle"
BY DEF Flushers, FlIdle, NoTask, Task

\* The flusher writes the table of its task, or drops the task.
LEMMA FlushWriteTypes == ASSUME TypeInv, FlushWrite PROVE TypeInv'
<1> USE DEF ctlVars, memVars, walVars, vsVars, compVars, histVars
<1> DEFINE next == [fl EXCEPT !.pc = "install", !.next = nextFileNum]
<1>1. PICK fault : /\ fl.pc = "write" /\ Count(fault)
                   /\ \/ fl' = FlIdle /\ UNCHANGED <<files, nextFileNum>>
                      \/ /\ files' = Create(files, <<0, fl.task.num>>, fl.task.mt)
                         /\ fl' = next /\ nextFileNum' = nextFileNum + 1
                   /\ UNCHANGED <<ctlVars, mu, seqNum, memVars, walVars, vsVars, flushQ, compVars, cl, snaps,
                                  rv, histVars>>
  BY DEF FlushWrite
<1>2. /\ fl \in Flushers(issued) /\ fl.task \in Tasks(issued) /\ nextFileNum \in Nat
      /\ flushQ \in Seq(Tasks(issued)) /\ Len(flushQ) <= FlushChanCap
  BY <1>1 DEF TypeInv, FlusherTypes, Counters
<1>3. /\ next \in Flushers(issued) /\ next.pc = "install" /\ next.task = fl.task
      /\ FlIdle \in Flushers(issued) /\ FlIdle.pc = "idle"
  <2>1. PICK f : f = next
    OBVIOUS
  <2>2. f \in Flushers(issued) /\ f.pc = "install" /\ f.task = fl.task
    BY <1>2, <2>1 DEF Flushers
  <2> HIDE DEF next
  <2> QED
    BY <2>1, <2>2, FlIdleTypes
<1> HIDE DEF next
<1>4. fl' \in {FlIdle, next}
  BY <1>1
<1>5. FlusherTypes'
  BY <1>1, <1>2, <1>3, <1>4 DEF FlusherTypes
<1>6. Locks'
  BY <1>1, <1>3, <1>4 DEF TypeInv, Locks
<1>7. Counters'
  BY <1>1, <1>2, CountTypes DEF TypeInv, Counters
<1>8. FileTypes'
  <2>1. CASE files' = files
    BY <1>1, <2>1, FileFrame DEF TypeInv
  <2>2. CASE files' = Create(files, <<0, fl.task.num>>, fl.task.mt)
    <3>1. <<0, fl.task.num>> \in Levels \X Nat /\ fl.task.mt \in SUBSET issued
      BY <1>2, ConstantTypes DEF Tasks, Levels
    <3>2. DOMAIN files \subseteq Levels \X Nat /\ files \in [DOMAIN files -> SUBSET issued]
      BY DEF TypeInv, FileTypes
    <3>3. DOMAIN files' \subseteq Levels \X Nat /\ files' \in [DOMAIN files' -> SUBSET issued]
      <4> DEFINE p == <<0, fl.task.num>>
                 v == fl.task.mt
      <4>1. files' = Create(files, p, v) /\ p \in Levels \X Nat /\ v \in SUBSET issued
        BY <2>2, <3>1
      <4> HIDE DEF p, v
      <4> QED
        BY <3>2, <4>1 DEF Create, Overlay
    <3> QED
      BY <1>1, <3>3 DEF FileTypes
  <2> QED
    BY <1>1, <2>1, <2>2
<1>9. job' \in Jobs /\ History' /\ TreeTypes' /\ MemTypes' /\ LogTypes' /\ CallTypes' /\ RecoveryTypes'
  BY <1>1, HistoryFrame, TreeFrame, MemFrame, LogFrame, CallFrame, RecoveryFrame DEF TypeInv
<1>10. Lost'
  BY <1>1, UpFacts, RunsOn DEF IsUp
<1> QED
  BY <1>5, <1>6, <1>7, <1>8, <1>9, <1>10 DEF TypeInv

\* The edit of a flush adds the table of the task, on level 0.
LEMMA FlushEditTypes ==
  ASSUME TypeInv, fl.pc # "idle"
  PROVE  /\ FlushEdit \in Edits /\ FlushEdit.dels = {}
         /\ FlushEdit.adds = <<TableMeta(0, fl.task.num, fl.task.mt)>>
         /\ \A n \in FlushEdit.lastSeq : n \in Nat /\ n <= Cardinality(issued)
<1> DEFINE meta == TableMeta(0, fl.task.num, fl.task.mt)
           seq == LastOf(fl.task.mt).seq
<1>1. fl.task \in Tasks(issued) /\ fl.next \in Nat /\ History
  BY DEF TypeInv, FlusherTypes, Flushers
<1>2. fl.task.mt \in (SUBSET issued) \ {{}} /\ fl.task.num \in Nat /\ 0 \in Levels
  BY <1>1, ConstantTypes DEF Tasks, Levels
<1>3. meta \in Tables
  BY <1>1, <1>2, MetaTypes
<1>4. seq \in Nat /\ seq <= Cardinality(issued)
  <2>1. LastOf(fl.task.mt) \in issued
    BY <1>1, <1>2, IssuedSets
  <2>2. LastOf(fl.task.mt) \in Records /\ seq <= Cardinality(issued)
    BY <1>1, <2>1 DEF History
  <2> QED
    BY <2>2, ConstantTypes DEF Records
<1> HIDE DEF meta, seq
<1>5. PICK e : e = [NoEdit EXCEPT !.adds = <<meta>>, !.next = {fl.next}, !.lastSeq = {seq}]
  OBVIOUS
<1>6. e = FlushEdit
  BY <1>5 DEF FlushEdit, meta, seq
<1>7. e = [adds |-> <<meta>>, dels |-> {}, next |-> {fl.next}, lastSeq |-> {seq}, log |-> {}]
  BY <1>5 DEF NoEdit
<1>8. <<meta>> \in Seq(Tables) /\ {fl.next} \in OptNum /\ {seq} \in OptNum /\ {} \in OptNum
      /\ {} \in SUBSET (Levels \X Nat)
  BY <1>1, <1>3, <1>4 DEF OptNum
<1>9. e \in Edits
  BY <1>7, <1>8, Zenon DEF Edits
<1>10. e.dels = {} /\ e.adds = <<meta>> /\ e.lastSeq = {seq}
  BY <1>7
<1> QED
  BY <1>4, <1>6, <1>9, <1>10 DEF meta

\* The flusher lists its table, and has the lock.
LEMMA FlushInstallTypes == ASSUME TypeInv, FlushInstall PROVE TypeInv'
<1> USE DEF ctlVars, memVars, walVars, compVars, histVars
<1> DEFINE next == [fl EXCEPT !.pc = "cleanup"]
<1>1. PICK fault : /\ fl.pc = "install" /\ mu = "free" /\ Count(fault) /\ LogAndApply(FlushEdit, fault)
                   /\ mu' = "flusher" /\ fl' = next
                   /\ UNCHANGED <<ctlVars, seqNum, memVars, walVars, nextFileNum, files, flushQ, compVars, cl,
                                  snaps, rv, histVars>>
  BY DEF FlushInstall
<1>2. /\ fl \in Flushers(issued) /\ fl.task \in Tasks(issued)
      /\ flushQ \in Seq(Tasks(issued)) /\ Len(flushQ) <= FlushChanCap
  BY <1>1 DEF TypeInv, FlusherTypes
<1>3. fl' \in Flushers(issued) /\ fl'.pc = "cleanup" /\ fl'.task = fl.task
  BY <1>1, <1>2 DEF Flushers
<1> HIDE DEF next
<1>4. FlusherTypes'
  BY <1>1, <1>2, <1>3 DEF FlusherTypes
<1>5. Locks'
  BY <1>1, <1>3 DEF TypeInv, Locks
<1>6. Counters'
  BY <1>1, CountTypes DEF TypeInv, Counters
<1>7. FlushEdit \in Edits /\ \A n \in FlushEdit.lastSeq : n \in Nat /\ n <= Cardinality(issued)
  BY <1>1, FlushEditTypes
<1>8. TreeTypes' /\ manifest'.lastSeq \in FlushEdit.lastSeq \cup {manifest.lastSeq}
  BY <1>1, <1>7, LogAndApplyTypes DEF TypeInv
<1>9. History'
  BY <1>1, <1>7, <1>8 DEF TypeInv, History
<1>10. job' \in Jobs /\ MemTypes' /\ LogTypes' /\ FileTypes' /\ CallTypes' /\ RecoveryTypes'
  BY <1>1, MemFrame, LogFrame, FileFrame, CallFrame, RecoveryFrame DEF TypeInv
<1>11. Lost'
  BY <1>1, UpFacts, RunsOn DEF IsUp
<1> QED
  BY <1>4, <1>5, <1>6, <1>8, <1>9, <1>10, <1>11 DEF TypeInv

\* No job, and a job that only moves to another program point.
LEMMA NoJobTypes ==
  /\ NoJob \in Jobs /\ NoJob.pc = "none"
  /\ \A pc \in {"done", "clear"} : [NoJob EXCEPT !.pc = pc] \in Jobs /\ [NoJob EXCEPT !.pc = pc].pc = pc
<1>1. 0 \in 0..(Bottom - 1) /\ <<>> \in Seq(Tables) /\ 0 \in Nat
  BY ConstantTypes
<1>2. ASSUME NEW pc \in {"none", "done", "clear"}, NEW y, y = [NoJob EXCEPT !.pc = pc]
      PROVE  y \in Jobs /\ y.pc = pc
  <2>1. y = [pc |-> pc, level |-> 0, inputs |-> <<>>, all |-> <<>>, out |-> 0, outs |-> <<>>, next |-> 0]
    BY <1>2 DEF NoJob
  <2>2. y \in Jobs
    BY <1>1, <2>1, Zenon DEF Jobs
  <2> QED
    BY <2>1, <2>2
<1>3. NoJob = [NoJob EXCEPT !.pc = "none"]
  BY DEF NoJob
<1> QED
  BY <1>2, <1>3

\* A compaction that is scheduled.
LEMMA StartCompactionTypes ==
  ASSUME TypeInv, NEW l \in 0..(Bottom - 1), StartCompaction(l)
  PROVE  /\ isCompacting' = TRUE /\ nextFileNum' = nextFileNum + 1 /\ nextFileNum' \in Nat
         /\ job' \in Jobs /\ job'.pc = "begin" /\ job'.level = l /\ job'.out = nextFileNum
         /\ job'.inputs = pickCompactionInputs(l) /\ ToSet(job'.inputs) \subseteq TablesAt(l)
<1> DEFINE in == pickCompactionInputs(l)
<1>1. in \in Seq(Tables) /\ ToSet(in) \subseteq TablesAt(l)
  BY PickedInputs DEF TypeInv
<1> HIDE DEF in
<1>2. job' = [NoJob EXCEPT !.pc = "begin", !.level = l, !.inputs = in, !.out = nextFileNum]
  BY DEF StartCompaction, in
<1>3. job' = [pc |-> "begin", level |-> l, inputs |-> in, all |-> <<>>, out |-> nextFileNum, outs |-> <<>>, next |-> 0]
  BY <1>2 DEF NoJob
<1>4. nextFileNum \in Nat /\ <<>> \in Seq(Tables) /\ 0 \in Nat
  BY DEF TypeInv, Counters
<1>5. job' \in Jobs
  BY <1>1, <1>3, <1>4, Zenon DEF Jobs
<1>6. job'.pc = "begin" /\ job'.level = l /\ job'.out = nextFileNum /\ job'.inputs = in
  BY <1>3
<1>7. isCompacting' = TRUE /\ nextFileNum' = nextFileNum + 1
  BY DEF StartCompaction
<1> QED
  BY <1>1, <1>4, <1>5, <1>6, <1>7 DEF in

\* The flusher gives the lock back.
LEMMA FlushCleanupTypes == ASSUME TypeInv, FlushCleanup PROVE TypeInv'
<1> USE DEF ctlVars, vsVars, histVars
<1>1. fl.pc = "cleanup" /\ immt' = {} /\ mu' = "free" /\ fl' = FlIdle
      /\ UNCHANGED <<ctlVars, seqNum, mt, wal, vsVars, files, flushQ, resched, compactPointer, cl,
                     snaps, rv, histVars, faults>>
  BY DEF FlushCleanup
<1>2. FlIdle \in Flushers(issued) /\ FlIdle.pc = "idle"
  BY FlIdleTypes
<1>3. FlusherTypes'
  BY <1>1, <1>2 DEF TypeInv, FlusherTypes
<1>4. /\ isCompacting' \in BOOLEAN /\ job' \in Jobs /\ nextFileNum' \in Nat
      /\ job'.pc # "remove" /\ (job'.pc # "none" => isCompacting')
  <2>1. mu = "flusher" /\ job.pc # "remove"
    BY <1>1 DEF TypeInv, Locks
  <2>2. CASE StartCompaction(0)
    <3>1. 0 \in 0..(Bottom - 1)
      BY ConstantTypes
    <3> QED
      BY <2>2, <3>1, StartCompactionTypes
  <2>3. CASE UNCHANGED <<isCompacting, job, nextFileNum>>
    BY <2>1, <2>3 DEF TypeInv, Locks, Counters
  <2> QED
    BY <2>2, <2>3 DEF FlushCleanup
<1>5. Locks'
  BY <1>1, <1>2, <1>4 DEF Locks
<1>6. Counters'
  BY <1>1, <1>4 DEF TypeInv, Counters
<1>7. LogTypes'
  <2>1. LogTypes
    BY DEF TypeInv
  <2>2. CASE UNCHANGED <<wals, closedWals>>
    BY <1>1, <2>1, <2>2 DEF LogTypes
  <2>3. CASE fl.task.wal # NoWal /\ wals' = Unlink(wals, {fl.task.wal}) /\ closedWals' = closedWals \cup {fl.task.wal}
    <3>1. fl.task.wal \in Nat
      BY <1>1, <2>3 DEF TypeInv, FlusherTypes, Tasks, LogNums
    <3>2. DOMAIN wals' \subseteq Nat /\ wals' \in [DOMAIN wals' -> Logs(issued)]
      BY <2>1, <2>3 DEF LogTypes, Unlink
    <3> QED
      BY <1>1, <2>1, <2>3, <3>1, <3>2 DEF LogTypes
  <2> QED
    BY <2>2, <2>3 DEF FlushCleanup
<1>8. MemTypes'
  BY <1>1 DEF TypeInv, MemTypes
<1>9. History' /\ TreeTypes' /\ FileTypes' /\ CallTypes' /\ RecoveryTypes'
  BY <1>1, HistoryFrame, TreeFrame, FileFrame, CallFrame, RecoveryFrame DEF TypeInv
<1>10. Lost'
  BY <1>1, UpFacts, RunsOn DEF IsUp
<1> QED
  BY <1>3, <1>4, <1>5, <1>6, <1>7, <1>8, <1>9, <1>10 DEF TypeInv

----------------------------------------------------------------------------
\* A step of the compactor that does not touch the tree or the tables.
LEMMA CompactorStep ==
  ASSUME TypeInv, IsUp, job' \in Jobs, Locks', Counters', TreeTypes', FileTypes',
         manifest'.lastSeq = manifest.lastSeq,
         UNCHANGED <<ctlVars, seqNum, memVars, walVars, flushQ, fl, cl, rv, histVars>>
  PROVE  TypeInv'
<1> USE DEF ctlVars, memVars, walVars, histVars
<1>1. FlusherTypes' /\ MemTypes' /\ LogTypes' /\ CallTypes' /\ RecoveryTypes'
  BY FlusherFrame, MemFrame, LogFrame, CallFrame, RecoveryFrame DEF TypeInv
<1>2. History'
  BY DEF TypeInv, History
<1>3. Lost'
  BY RunsOn DEF IsUp
<1> QED
  BY <1>1, <1>2, <1>3 DEF TypeInv

\* The tables of the next level that overlap the inputs are tables of it.
LEMMA OverlapTypes ==
  ASSUME NEW s, IsSeq(s, Tables), NEW lo, NEW hi
  PROVE  /\ IsSeq(FindOverlapping(s, lo, hi), Tables)
         /\ ToSet(FindOverlapping(s, lo, hi)) \subseteq ToSet(s)
<1> DEFINE K == {t \in ToSet(s) : ~(t.max.key < lo \/ t.min.key > hi)}
<1>1. FindOverlapping(s, lo, hi) = Filter(s, K)
  BY DEF FindOverlapping
<1> HIDE DEF K
<1>2. s \in Seq(Tables)
  BY DEF IsSeq
<1>3. Filter(s, K) \in Seq(Tables) /\ ToSet(Filter(s, K)) = ToSet(s) \cap K
  BY <1>2, FilterElements
<1> QED
  BY <1>1, <1>3 DEF IsSeq

\* A compaction fixes its inputs.
LEMMA CompactBeginTypes == ASSUME TypeInv, CompactBegin PROVE TypeInv'
<1> USE DEF vsVars
<1> DEFINE range == KeyRangeOf(job.inputs)
           overlapping == IF job.inputs = <<>> THEN <<>>
                          ELSE FindOverlapping(levels[job.level + 1], range[1], range[2])
           all == job.inputs \o overlapping
<1>1. job.pc = "begin" /\ mu = "free" /\ job' = [job EXCEPT !.pc = "merge", !.all = all]
      /\ UNCHANGED <<ctlVars, mu, seqNum, memVars, walVars, vsVars, nextFileNum, files, flushQ,
                     fl, isCompacting, resched, cl, snaps, rv, histVars, faults>>
  BY DEF CompactBegin
<1>2. job \in Jobs /\ job.inputs \in Seq(Tables) /\ levels[job.level + 1] \in Seq(Tables)
  BY ConstantTypes DEF TypeInv, Jobs, TreeTypes, TreeOf, Levels
<1>3. overlapping \in Seq(Tables)
  <2> DEFINE s == levels[job.level + 1]
             lo == range[1]
             hi == range[2]
  <2>1. IsSeq(s, Tables)
    BY <1>2 DEF IsSeq
  <2> HIDE DEF s, lo, hi
  <2>2. FindOverlapping(s, lo, hi) \in Seq(Tables)
    BY <2>1, OverlapTypes DEF IsSeq
  <2>3. <<>> \in Seq(Tables)
    OBVIOUS
  <2> QED
    BY <2>2, <2>3, Zenon DEF s, lo, hi
<1> HIDE DEF overlapping
<1>4. all \in Seq(Tables)
  BY <1>2, <1>3
<1> HIDE DEF all
<1>5. job' \in Jobs /\ job'.pc = "merge"
  BY <1>1, <1>2, <1>4 DEF Jobs
<1>6. Locks'
  BY <1>1, <1>5 DEF TypeInv, Locks
<1>7. Counters' /\ TreeTypes' /\ FileTypes'
  BY <1>1, CountersFrame, TreeFrame, FileFrame DEF TypeInv, ctlVars, histVars
<1>8. IsUp
  BY <1>1, UpFacts
<1> QED
  BY <1>1, <1>5, <1>6, <1>7, <1>8, CompactorStep

\* The edit of a compaction deletes its inputs and adds its outputs.
LEMMA CompactionEditTypes ==
  ASSUME TypeInv
  PROVE  /\ CompactionEdit \in Edits /\ CompactionEdit.dels = Paths(job.all)
         /\ CompactionEdit.adds = job.outs /\ CompactionEdit.lastSeq = {}
<1>1. job.outs \in Seq(Tables) /\ job.all \in Seq(Tables) /\ job.next \in Nat
  BY DEF TypeInv, Jobs
<1> DEFINE dels == Paths(job.all)
<1>2. dels \in SUBSET (Levels \X Nat)
  <2>1. \A t \in ToSet(job.all) : t \in Tables
    BY <1>1, InToSet
  <2> QED
    BY <2>1 DEF Paths, Tables
<1> HIDE DEF dels
<1>3. PICK e : e = [NoEdit EXCEPT !.adds = job.outs, !.dels = dels, !.next = {job.next}]
  OBVIOUS
<1>4. e = CompactionEdit
  BY <1>3 DEF CompactionEdit, dels
<1>5. e = [adds |-> job.outs, dels |-> dels, next |-> {job.next}, lastSeq |-> {}, log |-> {}]
  BY <1>3 DEF NoEdit
<1>6. {job.next} \in OptNum /\ {} \in OptNum
  BY <1>1 DEF OptNum
<1>7. e \in Edits
  BY <1>1, <1>2, <1>5, <1>6, Zenon DEF Edits
<1>8. e.dels = dels /\ e.adds = job.outs /\ e.lastSeq = {}
  BY <1>5
<1> QED
  BY <1>4, <1>7, <1>8 DEF dels

\* A compaction edits the version, and has the lock.
LEMMA CompactInstallTypes == ASSUME TypeInv, CompactInstall PROVE TypeInv'
<1>1. PICK fault : /\ job.pc = "install" /\ mu = "free" /\ Count(fault) /\ LogAndApply(CompactionEdit, fault)
                   /\ \/ job' = NoJob /\ isCompacting' = FALSE /\ mu' = mu
                      \/ job' = [job EXCEPT !.pc = "remove"] /\ mu' = "compactor" /\ isCompacting' = isCompacting
                   /\ UNCHANGED <<ctlVars, seqNum, memVars, walVars, nextFileNum, files, flushQ, fl, resched,
                                  compactPointer, cl, snaps, rv, histVars>>
  BY DEF CompactInstall
<1>2. CompactionEdit \in Edits /\ CompactionEdit.lastSeq = {}
  BY CompactionEditTypes
<1>3. TreeTypes' /\ manifest'.lastSeq = manifest.lastSeq
  BY <1>1, <1>2, LogAndApplyTypes DEF TypeInv
<1>4. job' \in Jobs /\ (job'.pc = "remove" <=> mu' = "compactor") /\ (job'.pc # "none" => isCompacting')
      /\ isCompacting' \in BOOLEAN
  <2>1. CASE job' = NoJob /\ isCompacting' = FALSE /\ mu' = mu
    BY <1>1, <2>1, NoJobTypes
  <2>2. CASE job' = [job EXCEPT !.pc = "remove"] /\ mu' = "compactor" /\ isCompacting' = isCompacting
    <3>1. job \in Jobs /\ isCompacting \in BOOLEAN /\ isCompacting
      BY <1>1 DEF TypeInv, Locks
    <3>2. job' \in Jobs /\ job'.pc = "remove"
      BY <2>2, <3>1 DEF Jobs
    <3> QED
      BY <2>2, <3>1, <3>2
  <2> QED
    BY <1>1, <2>1, <2>2
<1>5. Locks'
  <2>1. fl' = fl /\ mu' \in {"free", "compactor"} /\ fl.pc # "cleanup"
    BY <1>1 DEF TypeInv, Locks
  <2> QED
    BY <1>4, <2>1 DEF Locks
<1>6. Counters' /\ FileTypes'
  BY <1>1, CountTypes, FileFrame DEF TypeInv, Counters, ctlVars, histVars
<1>7. IsUp
  BY <1>1, UpFacts
<1> QED
  BY <1>1, <1>3, <1>4, <1>5, <1>6, <1>7, CompactorStep

\* A compaction removes its inputs and gives the lock back.
LEMMA CompactRemoveTypes == ASSUME TypeInv, CompactRemove PROVE TypeInv'
<1> USE DEF vsVars
<1>1. job.pc = "remove" /\ files' = Unlink(files, Paths(job.all)) /\ mu' = "free"
      /\ job' = [NoJob EXCEPT !.pc = "done"]
      /\ UNCHANGED <<ctlVars, seqNum, memVars, walVars, vsVars, nextFileNum, flushQ, fl, isCompacting,
                     resched, compactPointer, cl, snaps, rv, histVars, faults>>
  BY DEF CompactRemove
<1>2. job' \in Jobs /\ job'.pc = "done"
  BY <1>1, NoJobTypes
<1>3. Locks'
  BY <1>1, <1>2 DEF TypeInv, Locks
<1>4. FileTypes'
  <2> DEFINE N == Paths(job.all)
  <2>1. files' = Unlink(files, N) /\ issued' = issued
    BY <1>1 DEF histVars
  <2> HIDE DEF N
  <2> QED
    BY <2>1 DEF TypeInv, FileTypes, Unlink
<1>5. Counters' /\ TreeTypes'
  BY <1>1, CountersFrame, TreeFrame DEF TypeInv, ctlVars
<1>6. IsUp
  BY <1>1, UpFacts
<1> QED
  BY <1>1, <1>2, <1>3, <1>4, <1>5, <1>6, CompactorStep

\* A compaction goroutine gives the flag back.
LEMMA CompactDoneTypes == ASSUME TypeInv, CompactDone \/ RescheduleClear PROVE TypeInv'
<1> USE DEF vsVars, ctlVars
<1>1. job.pc \in {"done", "clear"} /\ job' = NoJob /\ isCompacting' = FALSE /\ resched' \in {resched, resched + 1}
      /\ UNCHANGED <<ctlVars, mu, seqNum, memVars, walVars, vsVars, nextFileNum, files, flushQ, fl,
                     compactPointer, cl, snaps, rv, histVars, faults>>
  BY DEF CompactDone, RescheduleClear
<1>2. job' \in Jobs /\ job'.pc = "none"
  BY <1>1, NoJobTypes
<1>3. Locks'
  BY <1>1, <1>2 DEF TypeInv, Locks
<1>4. Counters' /\ TreeTypes' /\ FileTypes'
  BY <1>1, TreeFrame, FileFrame DEF TypeInv, Counters, histVars
<1>5. IsUp
  BY <1>1, UpFacts
<1> QED
  BY <1>1, <1>2, <1>3, <1>4, <1>5, CompactorStep

\* A compaction goroutine schedules the next compaction.
LEMMA RescheduleTypes == ASSUME TypeInv, Reschedule PROVE TypeInv'
<1> USE DEF vsVars, ctlVars
<1>1. resched > 0 /\ resched' = resched - 1
      /\ UNCHANGED <<ctlVars, mu, seqNum, memVars, walVars, vsVars, files, flushQ, fl,
                     compactPointer, cl, snaps, rv, histVars, faults>>
  BY DEF Reschedule
<1>2. /\ isCompacting' \in BOOLEAN /\ job' \in Jobs /\ nextFileNum' \in Nat
      /\ (job'.pc # "none" => isCompacting') /\ (job'.pc = "remove" <=> job.pc = "remove")
  <2>1. Locks /\ job \in Jobs /\ nextFileNum \in Nat
    BY DEF TypeInv, Counters
  <2>2. CASE UNCHANGED <<isCompacting, job, nextFileNum>>
    BY <2>1, <2>2 DEF Locks
  <2>3. ASSUME ~isCompacting, NEW l \in CompactionLevel, StartCompaction(l)
        PROVE  /\ isCompacting' \in BOOLEAN /\ job' \in Jobs /\ nextFileNum' \in Nat
               /\ (job'.pc # "none" => isCompacting') /\ (job'.pc = "remove" <=> job.pc = "remove")
    <3>1. l \in 0..(Bottom - 1)
      BY LevelPicked
    <3>2. job.pc = "none"
      BY <2>1, <2>3 DEF Locks
    <3> QED
      BY <2>3, <3>1, <3>2, StartCompactionTypes
  <2>4. CASE ~isCompacting /\ isCompacting' = TRUE /\ job' = [NoJob EXCEPT !.pc = "clear"] /\ UNCHANGED nextFileNum
    <3>1. job.pc = "none"
      BY <2>1, <2>4 DEF Locks
    <3>2. job' \in Jobs /\ job'.pc = "clear"
      BY <2>4, NoJobTypes
    <3> QED
      BY <2>1, <2>4, <3>1, <3>2
  <2> QED
    BY <2>2, <2>3, <2>4 DEF Reschedule
<1>3. Locks'
  BY <1>1, <1>2 DEF TypeInv, Locks
<1>4. Counters' /\ TreeTypes' /\ FileTypes'
  BY <1>1, <1>2, TreeFrame, FileFrame DEF TypeInv, Counters, histVars
<1>5. IsUp
  <2>1. resched \in Nat
    BY DEF TypeInv, Counters
  <2> QED
    BY <1>1, <2>1, UpFacts
<1> QED
  BY <1>1, <1>2, <1>3, <1>4, <1>5, CompactorStep

----------------------------------------------------------------------------
\* The number of the i-th output of the compaction, and the files of the first k outputs.
OutNum(i) == IF i = 1 THEN job.out ELSE nextFileNum + i - 2
Written(outs, k) ==
  [p \in {<<job.level + 1, OutNum(i)>> : i \in 1..k} |-> outs[CHOOSE i \in 1..k : OutNum(i) = p[2]]]
OutMetas(outs) == [i \in 1..Len(outs) |-> TableMeta(job.level + 1, OutNum(i), outs[i])]

\* How a compaction that could read its inputs ends: with all its outputs, or with
\* some of them and an unfinished one.
Merged(outs, scratch) ==
  /\ files' = Unlink(Overlay(files, Written(outs, Len(outs))), scratch)
  /\ job' = [job EXCEPT !.pc = "install", !.next = nextFileNum + Len(outs), !.outs = OutMetas(outs)]
  /\ nextFileNum' = nextFileNum + Len(outs) + 1
  /\ UNCHANGED isCompacting
Broken(outs, k) ==
  /\ files' = Create(Overlay(files, Written(outs, k)), <<job.level + 1, OutNum(k + 1)>>, {})
  /\ nextFileNum' = nextFileNum + k
  /\ job' = NoJob /\ isCompacting' = FALSE
SomeMissing == \E t \in ToSet(job.all) : ~Readable(<<t.level, t.num>>)
FullTables(I) == (SUBSET I) \ {{}}

\* A merge by its outcome: the outputs are sets of issued records, none of them empty.
MergeOutcome(fault) ==
  \/ /\ SomeMissing \/ fault = "open"
     /\ job' = NoJob /\ UNCHANGED <<isCompacting, files, nextFileNum>>
  \/ /\ fault = "none"
     /\ \E outs \in Seq(FullTables(issued)) : \E scratch \in {{}, {<<job.level + 1, OutNum(Len(outs) + 1)>>}} :
          Merged(outs, scratch)
  \/ /\ fault = "write"
     /\ \E outs \in Seq(FullTables(issued)) : \E k \in 0..Len(outs) : Broken(outs, k)

\* The records of the inputs that remain are issued ones, of different keys.
LEMMA SurvivorTypes ==
  ASSUME TypeInv, NEW heads \in OnePerKey(Heads(UNION {FileRecords(t) : t \in ToSet(job.all)})), NEW b, NEW o
  PROVE  Outputs(Survivors(heads, b, o)) \in Seq(FullTables(issued))
<1> DEFINE recs == UNION {FileRecords(t) : t \in ToSet(job.all)}
           S == Survivors(heads, b, o)
<1>1. recs \subseteq issued
  <2>1. \A p \in DOMAIN files : files[p] \subseteq issued
    BY DEF TypeInv, FileTypes
  <2>2. \A t : FileRecords(t) \subseteq issued
    BY <2>1 DEF FileRecords, Readable
  <2> QED
    BY <2>2
<1> HIDE DEF recs
<1>2. heads \in OnePerKey(Heads(recs))
  BY DEF recs
<1>3. heads \subseteq issued
  BY <1>1, <1>2 DEF OnePerKey, Heads
<1>4. \A r, q \in heads : r.key = q.key => r = q
  BY <1>2, HeadsApart
<1>5. S \subseteq heads
  BY DEF Survivors
<1> HIDE DEF S
<1>6. IsFiniteSet(S) /\ \A r, q \in S : r.key = q.key => r = q
  BY <1>3, <1>4, <1>5, FS_Subset DEF TypeInv, History
<1>7. \A r \in S : r.key \in Int
  <2>1. Keys \subseteq Int /\ issued \subseteq Records
    BY ConstantTypes DEF TypeInv, History
  <2>2. \A r \in Records : r.key \in Keys
    BY DEF Records
  <2> QED
    BY <1>3, <1>5, <2>1, <2>2, Zenon
<1>8. Outputs(S) \in Seq((SUBSET S) \ {{}})
  BY <1>6, <1>7, OutputsFilled
<1>9. (SUBSET S) \ {{}} \subseteq FullTables(issued)
  BY <1>3, <1>5 DEF FullTables
<1>10. ASSUME NEW A, NEW B, A \subseteq B PROVE Seq(A) \subseteq Seq(B)
  BY <1>10
<1>11. Outputs(S) \in Seq(FullTables(issued))
  BY <1>8, <1>9, <1>10, Zenon
<1> QED
  BY <1>11 DEF S

\* Every merge has one of these outcomes.
LEMMA MergeSteps ==
  ASSUME TypeInv, CompactMerge
  PROVE  \E fault : /\ job.pc = "merge" /\ Count(fault) /\ MergeOutcome(fault)
                    /\ UNCHANGED <<ctlVars, mu, seqNum, memVars, walVars, vsVars, flushQ, fl, resched,
                                   compactPointer, cl, snaps, rv, histVars>>
<1> DEFINE next == job.level + 1
           recs == UNION {FileRecords(t) : t \in ToSet(job.all)}
           rest == UNCHANGED <<ctlVars, mu, seqNum, memVars, walVars, vsVars, flushQ, fl, resched,
                               compactPointer, cl, snaps, rv, histVars>>
           S(heads) == Survivors(heads, next = Bottom, oldest)
           outs(heads) == Outputs(S(heads))
           full(heads) == Len(outs(heads)) * MaxSSTableSize = Cardinality(S(heads))
           scratch(heads) == IF full(heads) THEN {<<next, OutNum(Len(outs(heads)) + 1)>>} ELSE {}
<1>1. PICK fault \in Faults({"open", "write"}) :
        /\ job.pc = "merge" /\ Count(fault) /\ rest
        /\ \/ /\ SomeMissing \/ fault = "open"
              /\ job' = NoJob /\ UNCHANGED <<isCompacting, files, nextFileNum>>
           \/ \E heads \in OnePerKey(Heads(recs)) :
                \/ fault = "none" /\ Merged(outs(heads), scratch(heads))
                \/ /\ fault = "write"
                   /\ \E k \in 0..(IF full(heads) THEN Len(outs(heads)) ELSE Len(outs(heads)) - 1) :
                        Broken(outs(heads), k)
  BY DEF CompactMerge, SomeMissing, Merged, Broken, Written, OutNum, OutMetas
<1>2. ASSUME NEW heads \in OnePerKey(Heads(recs))
      PROVE  /\ outs(heads) \in Seq(FullTables(issued)) /\ Len(outs(heads)) \in Nat
             /\ scratch(heads) \in {{}, {<<next, OutNum(Len(outs(heads)) + 1)>>}}
  <2>1. outs(heads) \in Seq(FullTables(issued))
    BY SurvivorTypes
  <2> HIDE DEF outs, full
  <2> QED
    BY <2>1
<1> HIDE DEF outs, scratch, full
<1>3. MergeOutcome(fault)
  <2>1. CASE \E heads \in OnePerKey(Heads(recs)) : fault = "none" /\ Merged(outs(heads), scratch(heads))
    <3>1. PICK heads \in OnePerKey(Heads(recs)) : fault = "none" /\ Merged(outs(heads), scratch(heads))
      BY <2>1
    <3>2. outs(heads) \in Seq(FullTables(issued)) /\ scratch(heads) \in {{}, {<<next, OutNum(Len(outs(heads)) + 1)>>}}
      BY <1>2
    <3> QED
      BY <3>1, <3>2, Zenon DEF MergeOutcome
  <2>2. ASSUME NEW heads \in OnePerKey(Heads(recs)), fault = "write",
               NEW k \in 0..(IF full(heads) THEN Len(outs(heads)) ELSE Len(outs(heads)) - 1), Broken(outs(heads), k)
        PROVE  MergeOutcome(fault)
    <3>1. outs(heads) \in Seq(FullTables(issued)) /\ k \in 0..Len(outs(heads))
      BY <1>2
    <3> QED
      BY <2>2, <3>1, Zenon DEF MergeOutcome
  <2>3. CASE (SomeMissing \/ fault = "open") /\ job' = NoJob /\ UNCHANGED <<isCompacting, files, nextFileNum>>
    BY <2>3, Zenon DEF MergeOutcome
  <2> QED
    BY <1>1, <2>1, <2>2, <2>3
<1> QED
  BY <1>1, <1>3

\* The numbers and the files of the outputs.
LEMMA WrittenTypes ==
  ASSUME TypeInv, NEW outs, IsSeq(outs, FullTables(issued)), NEW k \in 0..Len(outs)
  PROVE  /\ \A i \in 1..(k + 1) : <<job.level + 1, OutNum(i)>> \in Levels \X Nat
         /\ DOMAIN Written(outs, k) = {<<job.level + 1, OutNum(i)>> : i \in 1..k}
         /\ \A p \in DOMAIN Written(outs, k) : Written(outs, k)[p] \in FullTables(issued)
         /\ Written(outs, k) = [p \in DOMAIN Written(outs, k) |-> Written(outs, k)[p]]
<1>1. job.level \in 0..(Bottom - 1) /\ job.out \in Nat /\ nextFileNum \in Nat /\ Len(outs) \in Nat
  BY DEF TypeInv, Jobs, Counters, IsSeq
<1>2. \A i \in 1..(k + 1) : <<job.level + 1, OutNum(i)>> \in Levels \X Nat
  BY <1>1, ConstantTypes DEF OutNum, Levels
<1> DEFINE D == {<<job.level + 1, OutNum(i)>> : i \in 1..k}
           pick(p) == CHOOSE i \in 1..k : OutNum(i) = p[2]
<1>3. ASSUME NEW p \in D PROVE outs[pick(p)] \in FullTables(issued)
  <2>1. PICK i \in 1..k : p = <<job.level + 1, OutNum(i)>>
    OBVIOUS
  <2>2. OutNum(i) = p[2]
    BY <2>1
  <2> HIDE DEF D
  <2>3. pick(p) \in 1..k
    BY <2>2
  <2> HIDE DEF pick
  <2> QED
    BY <1>1, <2>3 DEF IsSeq
<1>4. Written(outs, k) = [p \in D |-> outs[pick(p)]]
  BY DEF Written
<1> HIDE DEF D, pick
<1>5. DOMAIN Written(outs, k) = D /\ \A p \in D : Written(outs, k)[p] = outs[pick(p)]
  BY <1>4
<1> QED
  BY <1>2, <1>3, <1>4, <1>5 DEF D

\* The metadata of the outputs.
LEMMA MetaSeqTypes ==
  ASSUME TypeInv, NEW outs, IsSeq(outs, FullTables(issued))
  PROVE  /\ OutMetas(outs) \in Seq(Tables) /\ Len(OutMetas(outs)) = Len(outs)
         /\ \A i \in 1..Len(outs) : /\ OutMetas(outs)[i] = TableMeta(job.level + 1, OutNum(i), outs[i])
                                     /\ OutMetas(outs)[i].level = job.level + 1
                                     /\ OutMetas(outs)[i].num = OutNum(i)
<1>1. Len(outs) \in Nat /\ \A i \in 1..Len(outs) : outs[i] \in FullTables(issued)
  BY DEF IsSeq
<1> DEFINE meta(i) == TableMeta(job.level + 1, OutNum(i), outs[i])
<1>2. ASSUME NEW i \in 1..Len(outs)
      PROVE  meta(i) \in Tables /\ meta(i).level = job.level + 1 /\ meta(i).num = OutNum(i)
  <2>1. History /\ job.level + 1 \in Levels /\ OutNum(i) \in Nat
    <3>1. job.level \in 0..(Bottom - 1) /\ job.out \in Nat /\ nextFileNum \in Nat /\ History
      BY DEF TypeInv, Jobs, Counters
    <3> QED
      BY <1>1, <3>1, ConstantTypes DEF OutNum, Levels
  <2>2. outs[i] \in (SUBSET issued) \ {{}}
    BY <1>1 DEF FullTables
  <2> QED
    BY <2>1, <2>2, MetaTypes
<1>3. OutMetas(outs) = [i \in 1..Len(outs) |-> meta(i)]
  BY DEF OutMetas
<1> HIDE DEF meta
<1>4. OutMetas(outs) \in Seq(Tables) /\ Len(OutMetas(outs)) = Len(outs)
      /\ \A i \in 1..Len(outs) : OutMetas(outs)[i] = meta(i)
  BY <1>1, <1>2, <1>3
<1> QED
  BY <1>2, <1>4 DEF meta

\* Files over files.
LEMMA OverlayTypes ==
  ASSUME NEW D, NEW V, NEW dir, NEW new, DOMAIN dir \subseteq D, dir \in [DOMAIN dir -> V],
         DOMAIN new \subseteq D, \A p \in DOMAIN new : new[p] \in V
  PROVE  /\ DOMAIN Overlay(dir, new) = DOMAIN dir \cup DOMAIN new
         /\ Overlay(dir, new) \in [DOMAIN Overlay(dir, new) -> V]
BY DEF Overlay

\* A compaction merges, or fails to.
LEMMA CompactMergeTypes == ASSUME TypeInv, CompactMerge PROVE TypeInv'
<1>1. PICK fault : /\ job.pc = "merge" /\ Count(fault) /\ MergeOutcome(fault)
                   /\ UNCHANGED <<ctlVars, mu, seqNum, memVars, walVars, vsVars, flushQ, fl, resched,
                                  compactPointer, cl, snaps, rv, histVars>>
  BY MergeSteps
<1>2. /\ DOMAIN files \subseteq Levels \X Nat /\ files \in [DOMAIN files -> SUBSET issued]
      /\ nextFileNum \in Nat /\ job \in Jobs /\ History /\ isCompacting \in BOOLEAN /\ isCompacting
  BY <1>1 DEF TypeInv, FileTypes, Counters, Locks
<1>3. ASSUME NEW outs, IsSeq(outs, FullTables(issued)), NEW k \in 0..Len(outs)
      PROVE  /\ DOMAIN Overlay(files, Written(outs, k)) \subseteq Levels \X Nat
             /\ Overlay(files, Written(outs, k)) \in [DOMAIN Overlay(files, Written(outs, k)) -> SUBSET issued]
  <2> DEFINE W == Written(outs, k)
  <2>1. DOMAIN W \subseteq Levels \X Nat /\ \A p \in DOMAIN W : W[p] \in SUBSET issued
    <3>1. \A i \in 1..k : <<job.level + 1, OutNum(i)>> \in Levels \X Nat
      <4>1. \A i \in 1..(k + 1) : <<job.level + 1, OutNum(i)>> \in Levels \X Nat
        BY <1>3, WrittenTypes
      <4>2. \A i \in 1..k : i \in 1..(k + 1)
        BY <1>3 DEF IsSeq
      <4> QED
        BY <4>1, <4>2, Zenon
    <3>2. DOMAIN W = {<<job.level + 1, OutNum(i)>> : i \in 1..k}
          /\ \A p \in DOMAIN W : W[p] \in FullTables(issued)
      BY <1>3, WrittenTypes
    <3>3. FullTables(issued) \subseteq SUBSET issued
      BY DEF FullTables
    <3> HIDE DEF W
    <3> QED
      BY <3>1, <3>2, <3>3
  <2> HIDE DEF W
  <2>2. DOMAIN Overlay(files, W) = DOMAIN files \cup DOMAIN W
        /\ Overlay(files, W) \in [DOMAIN Overlay(files, W) -> SUBSET issued]
    BY <1>2, <2>1, OverlayTypes
  <2> QED
    BY <1>2, <2>1, <2>2, Zenon DEF W
<1>4. /\ job' \in Jobs /\ job'.pc \in {"none", "install"} /\ isCompacting' \in BOOLEAN
      /\ (job'.pc # "none" => isCompacting') /\ nextFileNum' \in Nat
      /\ DOMAIN files' \subseteq Levels \X Nat /\ files' \in [DOMAIN files' -> SUBSET issued]
  <2>1. CASE job' = NoJob /\ UNCHANGED <<isCompacting, files, nextFileNum>>
    BY <1>2, <2>1, NoJobTypes
  <2>2. ASSUME NEW outs, IsSeq(outs, FullTables(issued)), NEW scratch, Merged(outs, scratch)
        PROVE  /\ job' \in Jobs /\ job'.pc = "install" /\ isCompacting' = isCompacting /\ nextFileNum' \in Nat
               /\ DOMAIN files' \subseteq Levels \X Nat /\ files' \in [DOMAIN files' -> SUBSET issued]
    <3>1. Len(outs) \in Nat /\ Len(outs) \in 0..Len(outs)
      BY <2>2 DEF IsSeq
    <3> DEFINE O == Overlay(files, Written(outs, Len(outs)))
               metas == OutMetas(outs)
               m == nextFileNum + Len(outs)
    <3>2. DOMAIN O \subseteq Levels \X Nat /\ O \in [DOMAIN O -> SUBSET issued]
      BY <1>3, <2>2, <3>1
    <3> HIDE DEF O
    <3>3. files' = Unlink(O, scratch)
      BY <2>2 DEF Merged, O
    <3>4. DOMAIN files' \subseteq Levels \X Nat /\ files' \in [DOMAIN files' -> SUBSET issued]
      BY <3>2, <3>3 DEF Unlink
    <3>5. metas \in Seq(Tables)
      BY <2>2, MetaSeqTypes DEF IsSeq
    <3>6. job' = [job EXCEPT !.pc = "install", !.next = m, !.outs = metas] /\ nextFileNum' = m + 1
          /\ isCompacting' = isCompacting
      BY <2>2 DEF Merged
    <3>7. m \in Nat
      BY <1>2, <3>1
    <3> HIDE DEF metas, m
    <3>8. job' \in Jobs /\ job'.pc = "install"
      BY <1>2, <3>5, <3>6, <3>7 DEF Jobs
    <3> QED
      BY <3>4, <3>6, <3>7, <3>8
  <2>3. ASSUME NEW outs, IsSeq(outs, FullTables(issued)), NEW k \in 0..Len(outs), Broken(outs, k)
        PROVE  /\ job' = NoJob /\ isCompacting' = FALSE /\ nextFileNum' \in Nat
               /\ DOMAIN files' \subseteq Levels \X Nat /\ files' \in [DOMAIN files' -> SUBSET issued]
    <3> DEFINE O == Overlay(files, Written(outs, k))
               p == <<job.level + 1, OutNum(k + 1)>>
    <3>1. DOMAIN O \subseteq Levels \X Nat /\ O \in [DOMAIN O -> SUBSET issued]
      BY <1>3, <2>3
    <3>2. k \in Nat /\ k + 1 \in 1..(k + 1)
      BY <2>3 DEF IsSeq
    <3>3. p \in Levels \X Nat
      BY <2>3, <3>2, WrittenTypes
    <3> HIDE DEF O, p
    <3>4. files' = Create(O, p, {}) /\ nextFileNum' = nextFileNum + k /\ job' = NoJob /\ isCompacting' = FALSE
      BY <2>3 DEF Broken, O, p
    <3>5. DOMAIN files' \subseteq Levels \X Nat /\ files' \in [DOMAIN files' -> SUBSET issued]
      BY <3>1, <3>3, <3>4 DEF Create, Overlay
    <3> QED
      BY <1>2, <3>2, <3>4, <3>5
  <2> QED
    BY <1>1, <1>2, <2>1, <2>2, <2>3, NoJobTypes DEF MergeOutcome, IsSeq
<1>5. Locks'
  BY <1>1, <1>4 DEF TypeInv, Locks
<1>6. Counters' /\ TreeTypes' /\ FileTypes'
  BY <1>1, <1>4, CountTypes, TreeFrame DEF TypeInv, Counters, FileTypes, ctlVars, histVars
<1>7. IsUp
  BY <1>1, UpFacts
<1>8. manifest' = manifest
  BY <1>1 DEF vsVars
<1> QED
  BY <1>1, <1>4, <1>5, <1>6, <1>7, <1>8, CompactorStep

----------------------------------------------------------------------------
\* A snapshot is taken or released.
LEMMA SnapshotTypes == ASSUME TypeInv, SnapshotNext PROVE TypeInv'
<1>1. phase = "up" /\ UNCHANGED <<ctlVars, mu, seqNum, memVars, walVars, vsVars, nextFileNum, files, flushQ, fl,
                                  compVars, cl, rv, histVars, faults>>
  BY DEF SnapshotNext, NewSnapshot, Release
<1>2. IsUp /\ acked' \subseteq issued
  BY <1>1 DEF IsUp, TypeInv, History, histVars
<1>3. CallTypes'
  BY <1>1, CallFrame DEF TypeInv, histVars
<1> QED
  BY <1>1, <1>2, <1>3, CallStep DEF histVars

\* A recovery, from its fields.
LEMMA RecoveryOf ==
  ASSUME NEW I, NEW y, NEW pc \in {"idle", "open", "replay", "send"}, NEW todo \in SUBSET Nat, NEW recs \in Seq(I),
         NEW torn \in BOOLEAN, NEW maxSeq \in Nat, NEW tasks \in Seq(Tasks(I)),
         y = [pc |-> pc, todo |-> todo, recs |-> recs, torn |-> torn, maxSeq |-> maxSeq, tasks |-> tasks]
  PROVE  y \in Recoveries(I)
BY Zenon DEF Recoveries

\* The fields of a recovery.
LEMMA RecoveryFields ==
  ASSUME RecoveryTypes
  PROVE  /\ rv = [pc |-> rv.pc, todo |-> rv.todo, recs |-> rv.recs, torn |-> rv.torn, maxSeq |-> rv.maxSeq,
                  tasks |-> rv.tasks]
         /\ rv.todo \in SUBSET Nat /\ rv.recs \in Seq(issued) /\ rv.torn \in BOOLEAN /\ rv.maxSeq \in Nat
         /\ rv.tasks \in Seq(Tasks(issued)) /\ (rv.pc # "send" => rv.tasks = <<>>)
BY DEF RecoveryTypes, Recoveries

\* New reads the manifest.
LEMMA NewTypes == ASSUME TypeInv, New PROVE TypeInv'
<1> USE DEF memVars, compVars, histVars
<1>1. /\ phase \in {"down", "failed"} /\ starts' = starts + 1 /\ phase' \in {"recovering", "up"}
      /\ manifest' = [manifest EXCEPT !.made = TRUE] /\ levels' = manifest.levels
      /\ nextFileNum' \in {manifest.next, 1} /\ seqNum' = manifest.lastSeq
      /\ rv' \in {[RvIdle EXCEPT !.pc = "open", !.todo = DOMAIN wals], RvIdle}
      /\ wals' \in {OpenWal(wals, manifest.log), wals}
      /\ UNCHANGED <<mu, memVars, wal, closedWals, files, flushQ, fl, compVars, cl, snaps, histVars, faults>>
  BY DEF New
<1>2. manifest \in Manifests /\ OnLevels(manifest.levels) /\ LogTypes /\ History
  BY DEF TypeInv, TreeTypes, OnLevels
<1>3. manifest.levels \in TreeOf /\ manifest.next \in Nat /\ manifest.lastSeq \in Nat /\ manifest.log \in Nat
  BY <1>2 DEF Manifests
<1>4. manifest' \in Manifests /\ manifest'.levels = manifest.levels /\ manifest'.lastSeq = manifest.lastSeq
  BY <1>1, <1>2 DEF Manifests
<1>5. TreeTypes'
  BY <1>1, <1>2, <1>3, <1>4 DEF TreeTypes, OnLevels
<1>6. Counters'
  BY <1>1, <1>3 DEF TypeInv, Counters
<1>7. RecoveryTypes' /\ rv'.maxSeq = 0
  <2>1. <<>> \in Seq(issued) /\ <<>> \in Seq(Tasks(issued)) /\ FALSE \in BOOLEAN /\ {} \in SUBSET Nat
        /\ DOMAIN wals \in SUBSET Nat /\ 0 \in Nat
    BY <1>2 DEF LogTypes
  <2>2. PICK y : y = [RvIdle EXCEPT !.pc = "open", !.todo = DOMAIN wals]
    OBVIOUS
  <2>3. y = [pc |-> "open", todo |-> DOMAIN wals, recs |-> <<>>, torn |-> FALSE, maxSeq |-> 0, tasks |-> <<>>]
    BY <2>2 DEF RvIdle
  <2>4. y \in Recoveries(issued)
    BY <2>1, <2>3, Zenon DEF Recoveries
  <2>5. RvIdle \in Recoveries(issued)
    BY <2>1, Zenon DEF Recoveries, RvIdle
  <2>6. y.pc = "open" /\ y.maxSeq = 0 /\ y.tasks = <<>>
    BY <2>3
  <2>7. RvIdle.pc = "idle" /\ RvIdle.maxSeq = 0 /\ RvIdle.tasks = <<>>
    BY DEF RvIdle
  <2>8. issued' = issued /\ rv' \in {y, RvIdle}
    BY <1>1, <2>2
  <2> QED
    BY <2>4, <2>5, <2>6, <2>7, <2>8 DEF RecoveryTypes
<1>8. LogTypes'
  <2>1. CASE wals' = wals
    BY <1>1, <1>2, <2>1 DEF LogTypes
  <2>2. CASE wals' = OpenWal(wals, manifest.log)
    <3>1. DOMAIN wals' = DOMAIN wals \cup {manifest.log} /\ wals' \in [DOMAIN wals' -> Logs(issued)]
      BY <1>2, <1>3, <2>2, OpenWalTypes DEF LogTypes
    <3> QED
      BY <1>1, <1>2, <1>3, <3>1 DEF LogTypes
  <2> QED
    BY <1>1, <2>1, <2>2
<1>9. History'
  <2>1. Cardinality(issued) \in Nat
    BY <1>2, FS_CardinalityType DEF History
  <2> QED
    BY <1>1, <1>2, <1>3, <1>4, <1>7, <2>1 DEF History
<1>10. Locks' /\ FlusherTypes' /\ job' \in Jobs /\ MemTypes' /\ FileTypes' /\ CallTypes'
  BY <1>1, LocksFrame, FlusherFrame, MemFrame, FileFrame, CallFrame DEF TypeInv
<1>11. Lost'
  BY <1>1, RunsOn
<1> QED
  BY <1>5, <1>6, <1>7, <1>8, <1>9, <1>10, <1>11 DEF TypeInv

\* A step of recovery that changes logs and rv only.
LEMMA RecoveryStep ==
  ASSUME TypeInv, IsUp, Counters', LogTypes', RecoveryTypes', seqNum' \in 0..Cardinality(issued),
         rv'.maxSeq <= Cardinality(issued), phase' \notin {"down", "failed"},
         UNCHANGED <<mu, memVars, vsVars, files, flushQ, fl, compVars, cl, histVars>>
  PROVE  TypeInv'
<1> USE DEF memVars, vsVars, compVars, histVars
<1>1. Locks' /\ FlusherTypes' /\ job' \in Jobs /\ TreeTypes' /\ MemTypes' /\ FileTypes' /\ CallTypes'
  BY LocksFrame, FlusherFrame, TreeFrame, MemFrame, FileFrame, CallFrame DEF TypeInv
<1>2. History'
  BY DEF TypeInv, History
<1>3. Lost'
  BY RunsOn
<1> QED
  BY <1>1, <1>2, <1>3 DEF TypeInv

\* What can be replayed of a log.
LEMMA ReplayableTypes ==
  ASSUME NEW I, NEW log \in Logs(I) PROVE Replayable(log, Len(log.recs)) \in Seq(I)
<1>1. log.recs \in Seq(I) /\ log.torn \subseteq 0..Len(log.recs) /\ Len(log.recs) \in Nat
  BY DEF Logs
<1> DEFINE T == {Len(log.recs)} \cup log.torn
<1>2. T \in SUBSET Nat /\ T # {} /\ T \subseteq 0..Len(log.recs)
  BY <1>1
<1> HIDE DEF T
<1>3. Min(T) \in T
  BY <1>2, MinIn
<1>4. Min(T) \in 0..Len(log.recs)
  BY <1>2, <1>3
<1>5. SubSeq(log.recs, 1, Min(T)) \in Seq(I)
  BY <1>1, <1>4, PrefixTypes
<1> QED
  BY <1>5 DEF Replayable, T

\* Recovery opens the next log.
LEMMA RecoverOpenTypes == ASSUME TypeInv, RecoverOpen PROVE TypeInv'
<1> DEFINE n == Min(rv.todo)
           log == wals'[n]
           recs == Replayable(log, Len(log.recs))
           torn == log.torn # {}
<1>1. /\ rv.pc = "open" /\ rv.todo # {} /\ wals' = OpenWal(wals, n)
      /\ rv' = [rv EXCEPT !.pc = "replay", !.recs = recs, !.torn = torn, !.maxSeq = 0]
      /\ UNCHANGED <<ctlVars, mu, seqNum, memVars, wal, closedWals, vsVars, nextFileNum, files, flushQ,
                     fl, compVars, cl, snaps, histVars, faults>>
  BY DEF RecoverOpen
<1>2. RecoveryTypes /\ LogTypes /\ issued' = issued
  BY <1>1 DEF TypeInv, histVars
<1>3. n \in Nat
  <2>1. rv.todo \in SUBSET Nat
    BY <1>2, RecoveryFields
  <2> QED
    BY <1>1, <2>1, MinIn
<1> HIDE DEF n
<1>4. DOMAIN wals' = DOMAIN wals \cup {n} /\ wals' \in [DOMAIN wals' -> Logs(issued)]
  BY <1>1, <1>2, <1>3, OpenWalTypes DEF LogTypes
<1>5. LogTypes'
  BY <1>1, <1>2, <1>3, <1>4 DEF LogTypes
<1>6. recs \in Seq(issued) /\ torn \in BOOLEAN
  <2>1. log \in Logs(issued)
    BY <1>4
  <2> HIDE DEF log
  <2> QED
    BY <2>1, ReplayableTypes
<1> HIDE DEF recs, torn, log
<1>7. rv' = [pc |-> "replay", todo |-> rv.todo, recs |-> recs, torn |-> torn, maxSeq |-> 0, tasks |-> rv.tasks]
  BY <1>1, <1>2, RecoveryFields
<1>8. RecoveryTypes'
  <2>1. rv' \in Recoveries(issued)
    BY <1>2, <1>6, <1>7, RecoveryFields, RecoveryOf
  <2>2. rv'.tasks = <<>> /\ rv'.pc = "replay"
    BY <1>1, <1>2, <1>7, RecoveryFields
  <2> QED
    BY <1>2, <2>1, <2>2 DEF RecoveryTypes
<1>9. rv'.maxSeq <= Cardinality(issued) /\ seqNum' \in 0..Cardinality(issued)
  <2>1. Cardinality(issued) \in Nat /\ seqNum \in 0..Cardinality(issued)
    BY FS_CardinalityType DEF TypeInv, History
  <2> QED
    BY <1>1, <1>7, <2>1
<1>10. Counters' /\ IsUp /\ phase' = phase
  BY <1>1, UpFacts, CountersFrame DEF TypeInv, ctlVars, compVars
<1> QED
  BY <1>1, <1>5, <1>8, <1>9, <1>10, RecoveryStep DEF IsUp

\* Recovery is over and the engine open.
LEMMA RecoverFinishTypes == ASSUME TypeInv, RecoverFinish PROVE TypeInv'
<1>1. /\ rv.pc = "open" /\ phase' = "up" /\ wal' = nextFileNum /\ wals' = OpenWal(wals, nextFileNum)
      /\ nextFileNum' = nextFileNum + 1 /\ rv' = RvIdle
      /\ UNCHANGED <<starts, mu, seqNum, memVars, closedWals, vsVars, files, flushQ, fl, compVars, cl,
                     snaps, histVars, faults>>
  BY DEF RecoverFinish
<1>2. nextFileNum \in Nat /\ LogTypes /\ issued' = issued
  BY <1>1 DEF TypeInv, Counters, histVars
<1>3. DOMAIN wals' = DOMAIN wals \cup {nextFileNum} /\ wals' \in [DOMAIN wals' -> Logs(issued)]
  BY <1>1, <1>2, OpenWalTypes DEF LogTypes
<1>4. LogTypes'
  BY <1>1, <1>2, <1>3 DEF LogTypes, LogNums
<1>5. RecoveryTypes' /\ rv'.maxSeq = 0
  <2>1. <<>> \in Seq(issued) /\ <<>> \in Seq(Tasks(issued)) /\ FALSE \in BOOLEAN /\ {} \in SUBSET Nat /\ 0 \in Nat
    OBVIOUS
  <2>2. RvIdle \in Recoveries(issued)
    BY <2>1, Zenon DEF Recoveries, RvIdle
  <2>3. RvIdle.pc = "idle" /\ RvIdle.maxSeq = 0 /\ RvIdle.tasks = <<>>
    BY DEF RvIdle
  <2> QED
    BY <1>1, <1>2, <2>2, <2>3 DEF RecoveryTypes
<1>6. rv'.maxSeq <= Cardinality(issued) /\ seqNum' \in 0..Cardinality(issued)
  <2>1. Cardinality(issued) \in Nat /\ seqNum \in 0..Cardinality(issued)
    BY FS_CardinalityType DEF TypeInv, History
  <2> QED
    BY <1>1, <1>5, <2>1
<1>7. Counters' /\ IsUp
  BY <1>1, <1>2, UpFacts DEF TypeInv, Counters, compVars
<1> QED
  BY <1>1, <1>4, <1>5, <1>6, <1>7, RecoveryStep

\* Recovery inserts the next record of a log.
LEMMA RecoverRecordTypes == ASSUME TypeInv, RecoverRecord PROVE TypeInv'
<1> USE DEF ctlVars, compVars, histVars
<1> DEFINE r == Head(rv.recs)
           m == mt \cup {r}
           full == Cardinality(m) >= MemtableSize
           top == Max({rv.maxSeq, r.seq})
           pc == IF full THEN "send" ELSE "replay"
           tasks == IF full THEN <<RotateTask(m)>> ELSE <<>>
<1>1. PICK fault : /\ rv.pc = "replay" /\ rv.recs # <<>> /\ Count(fault) /\ Inserts(m, full, fault)
                   /\ rv' = [rv EXCEPT !.recs = Tail(@), !.maxSeq = top, !.pc = pc, !.tasks = tasks]
                   /\ UNCHANGED <<ctlVars, mu, seqNum, flushQ, fl, compVars, cl, snaps, histVars>>
  BY DEF RecoverRecord, Inserts
<1>2. RecoveryTypes /\ History /\ MemTypes
  BY DEF TypeInv
<1>3. rv.recs \in Seq(issued) /\ r \in issued /\ Tail(rv.recs) \in Seq(issued) /\ rv.maxSeq \in Nat
  BY <1>1, <1>2, RecoveryFields
<1> HIDE DEF r
<1>4. m \in (SUBSET issued) \ {{}} /\ full \in BOOLEAN
  BY <1>2, <1>3 DEF MemTypes
<1> HIDE DEF m, full
<1>5. /\ TreeTypes' /\ MemTypes' /\ LogTypes' /\ FileTypes' /\ nextFileNum' \in Nat
      /\ RotateTask(m) \in Tasks(issued) /\ manifest'.lastSeq = manifest.lastSeq
  BY <1>1, <1>4, InsertTypes
<1>6. top \in Nat /\ top <= Cardinality(issued)
  <2>1. r \in Records /\ r.seq <= Cardinality(issued) /\ rv.maxSeq <= Cardinality(issued)
    BY <1>2, <1>3 DEF History
  <2>2. r.seq \in Nat
    BY <2>1, ConstantTypes DEF Records
  <2>3. top \in {rv.maxSeq, r.seq}
    BY <1>3, <2>2, MaxOfTwo
  <2> HIDE DEF top
  <2> QED
    BY <1>3, <2>1, <2>2, <2>3
<1>7. tasks \in Seq(Tasks(issued)) /\ Len(tasks) <= 1 /\ (pc = "send" <=> tasks # <<>>) /\ pc \in {"send", "replay"}
  <2>1. <<RotateTask(m)>> \in Seq(Tasks(issued)) /\ Len(<<RotateTask(m)>>) = 1 /\ <<RotateTask(m)>> # <<>>
    BY <1>5
  <2>2. <<>> \in Seq(Tasks(issued)) /\ Len(<<>>) = 0
    OBVIOUS
  <2>3. CASE full
    BY <2>1, <2>3
  <2>4. CASE ~full
    BY <2>2, <2>4
  <2> QED
    BY <2>3, <2>4
<1> HIDE DEF tasks, pc, top
<1>8. rv' = [pc |-> pc, todo |-> rv.todo, recs |-> Tail(rv.recs), torn |-> rv.torn, maxSeq |-> top, tasks |-> tasks]
  BY <1>1, <1>2, RecoveryFields
<1>9. RecoveryTypes'
  <2>1. rv' \in Recoveries(issued)
    BY <1>2, <1>3, <1>6, <1>7, <1>8, RecoveryFields, RecoveryOf
  <2>2. rv'.tasks = tasks /\ rv'.pc = pc
    BY <1>8
  <2> QED
    BY <1>1, <1>7, <2>1, <2>2 DEF RecoveryTypes
<1>10. History'
  <2>1. rv'.maxSeq = top
    BY <1>8
  <2> QED
    BY <1>1, <1>2, <1>5, <1>6, <2>1 DEF History
<1>11. Counters'
  BY <1>1, <1>5, CountTypes DEF TypeInv, Counters
<1>12. Locks' /\ FlusherTypes' /\ job' \in Jobs /\ CallTypes'
  BY <1>1, LocksFrame, FlusherFrame, CallFrame DEF TypeInv
<1>13. Lost'
  BY <1>1, UpFacts, RunsOn DEF IsUp
<1> QED
  BY <1>5, <1>9, <1>10, <1>11, <1>12, <1>13 DEF TypeInv

\* New finds the manifest torn.
LEMMA OpenTornTypes == ASSUME TypeInv, OpenTorn PROVE TypeInv'
<1> USE DEF memVars, walVars, vsVars, compVars, histVars
<1>1. /\ phase \in {"down", "failed"} /\ starts' = starts + 1 /\ phase' = "failed"
      /\ UNCHANGED <<mu, seqNum, memVars, walVars, vsVars, nextFileNum, files, flushQ, fl, compVars, cl,
                     snaps, rv, histVars, faults>>
  BY DEF OpenTorn
<1>2. Counters'
  BY <1>1 DEF TypeInv, Counters
<1>3. Locks' /\ FlusherTypes' /\ job' \in Jobs /\ MemTypes' /\ LogTypes' /\ FileTypes'
  BY <1>1, LocksFrame, FlusherFrame, MemFrame, LogFrame, FileFrame DEF TypeInv
<1>4. TreeTypes' /\ CallTypes' /\ RecoveryTypes' /\ History'
  BY <1>1, TreeFrame, CallFrame, RecoveryFrame, HistoryFrame DEF TypeInv
<1>5. Lost'
  BY <1>1 DEF TypeInv, Lost
<1> QED
  BY <1>2, <1>3, <1>4, <1>5 DEF TypeInv

\* New fails: the process is gone.
LEMMA RecoverFailsTypes == ASSUME TypeInv, RecoverFails PROVE TypeInv'
<1> DEFINE edit == [NoEdit EXCEPT !.log = {nextFileNum}]
<1>1. PICK fault : /\ Count(fault) /\ wals' \in {wals, OpenWal(wals, nextFileNum)}
                   /\ manifest' \in {manifest, replay(manifest, edit)}
  BY DEF RecoverFails
<1>2. LoseMemory /\ phase' = "failed" /\ starts' = starts /\ files' = files /\ issued' = issued /\ acked' = acked
  BY DEF RecoverFails, histVars
<1>3. TreeTypes /\ LogTypes /\ nextFileNum \in Nat /\ faults' \in Nat
  BY <1>1, CountTypes DEF TypeInv, Counters
<1>4. manifest \in Manifests /\ OnLevels(manifest.levels) /\ edit \in Edits /\ edit.lastSeq = {}
  BY <1>3, LogEditType DEF TreeTypes, OnLevels, NoEdit
<1> HIDE DEF edit
<1>5. manifest' \in Manifests /\ OnLevels(manifest'.levels) /\ manifest'.lastSeq = manifest.lastSeq
  <2>1. /\ replay(manifest, edit) \in Manifests /\ OnLevels(replay(manifest, edit).levels)
        /\ replay(manifest, edit).lastSeq \in edit.lastSeq \cup {manifest.lastSeq}
    BY <1>4, ReplayTypes
  <2>2. CASE manifest' = manifest
    BY <1>4, <2>2
  <2>3. CASE manifest' = replay(manifest, edit)
    BY <1>4, <2>1, <2>3
  <2> QED
    BY <1>1, <2>2, <2>3
<1>6. DOMAIN wals' \subseteq Nat /\ wals' \in [DOMAIN wals' -> Logs(issued)]
  <2>1. CASE wals' = wals
    BY <1>3, <2>1 DEF LogTypes
  <2>2. CASE wals' = OpenWal(wals, nextFileNum)
    <3>1. DOMAIN wals' = DOMAIN wals \cup {nextFileNum} /\ wals' \in [DOMAIN wals' -> Logs(issued)]
      BY <1>3, <2>2, OpenWalTypes DEF LogTypes
    <3> QED
      BY <1>3, <3>1 DEF LogTypes
  <2> QED
    BY <1>1, <2>1, <2>2
<1> QED
  BY <1>2, <1>3, <1>5, <1>6, LoseMemoryTypes

\* Recovery hands its task to the flusher.
LEMMA RecoverSendTypes == ASSUME TypeInv, RecoverSend PROVE TypeInv'
<1> USE DEF ctlVars, memVars, walVars, vsVars, compVars, histVars
<1>1. /\ rv.pc = "send" /\ Len(flushQ) < FlushChanCap /\ flushQ' = Append(flushQ, Head(rv.tasks))
      /\ rv' = [rv EXCEPT !.pc = "replay", !.tasks = <<>>]
      /\ UNCHANGED <<ctlVars, mu, seqNum, memVars, walVars, vsVars, nextFileNum, files, fl, compVars,
                     cl, snaps, histVars, faults>>
  BY DEF RecoverSend
<1>2. RecoveryTypes /\ rv.tasks \in Seq(Tasks(issued)) /\ rv.tasks # <<>>
  BY <1>1, RecoveryFields DEF TypeInv, RecoveryTypes
<1>3. FlusherTypes'
  <2>1. PICK t : t = Head(rv.tasks) /\ t \in Tasks(issued)
    BY <1>2
  <2>2. flushQ \in Seq(Tasks(issued)) /\ Len(flushQ) \in Nat
    BY DEF TypeInv, FlusherTypes
  <2>3. flushQ' \in Seq(Tasks(issued)) /\ Len(flushQ') = Len(flushQ) + 1
    BY <1>1, <2>1, <2>2
  <2>4. Len(flushQ') <= FlushChanCap
    BY <1>1, <2>2, <2>3, ConstantTypes
  <2> QED
    BY <1>1, <2>3, <2>4 DEF TypeInv, FlusherTypes
<1>4. rv' = [pc |-> "replay", todo |-> rv.todo, recs |-> rv.recs, torn |-> rv.torn, maxSeq |-> rv.maxSeq, tasks |-> <<>>]
  BY <1>1, <1>2, RecoveryFields
<1>5. RecoveryTypes'
  <2>1. <<>> \in Seq(Tasks(issued))
    OBVIOUS
  <2>2. rv' \in Recoveries(issued)
    BY <1>2, <1>4, <2>1, RecoveryFields, RecoveryOf
  <2>3. rv'.tasks = <<>> /\ rv'.pc = "replay"
    BY <1>4
  <2> QED
    BY <1>1, <2>2, <2>3 DEF RecoveryTypes
<1>6. History'
  <2>1. rv'.maxSeq = rv.maxSeq
    BY <1>4
  <2> QED
    BY <1>1, <2>1 DEF TypeInv, History
<1>7. Counters' /\ Locks' /\ job' \in Jobs
  BY <1>1, CountersFrame, LocksFrame DEF TypeInv
<1>8. TreeTypes' /\ MemTypes' /\ LogTypes' /\ FileTypes' /\ CallTypes'
  BY <1>1, TreeFrame, MemFrame, LogFrame, FileFrame, CallFrame DEF TypeInv
<1>9. Lost'
  BY <1>1, UpFacts, RunsOn DEF IsUp
<1> QED
  BY <1>3, <1>5, <1>6, <1>7, <1>8, <1>9 DEF TypeInv

\* Recovery has read a log to its end.
LEMMA RecoverLogDoneTypes == ASSUME TypeInv, RecoverLogDone PROVE TypeInv'
<1> DEFINE n == Min(rv.todo)
<1>1. /\ rv.pc = "replay" /\ UNCHANGED <<starts, manifest, files, histVars, faults>>
      /\ \/ LoseMemory /\ phase' = "failed" /\ wals' = wals
         \/ /\ wals' = Unlink(wals, {n}) /\ rv' = [rv EXCEPT !.pc = "open", !.todo = @ \ {n}]
            /\ seqNum' = Max({seqNum, rv.maxSeq})
            /\ UNCHANGED <<phase, mu, memVars, wal, closedWals, levels, nextFileNum, flushQ, fl,
                           compVars, cl, snaps>>
  BY DEF RecoverLogDone
<1> HIDE DEF n
<1>2. TreeTypes /\ LogTypes /\ RecoveryTypes /\ History /\ issued' = issued /\ acked' = acked /\ faults' \in Nat
  BY <1>1 DEF TypeInv, Counters, histVars
<1>3. CASE LoseMemory /\ phase' = "failed" /\ wals' = wals
  <2>1. manifest' \in Manifests /\ OnLevels(manifest'.levels) /\ manifest'.lastSeq = manifest.lastSeq
    BY <1>1, <1>2 DEF TreeTypes, OnLevels
  <2>2. DOMAIN wals' \subseteq Nat /\ wals' \in [DOMAIN wals' -> Logs(issued)]
    BY <1>2, <1>3 DEF LogTypes
  <2> QED
    BY <1>1, <1>2, <1>3, <2>1, <2>2, LoseMemoryTypes
<1>4. CASE /\ wals' = Unlink(wals, {n}) /\ rv' = [rv EXCEPT !.pc = "open", !.todo = @ \ {n}]
           /\ seqNum' = Max({seqNum, rv.maxSeq})
           /\ UNCHANGED <<phase, mu, memVars, wal, closedWals, levels, nextFileNum, flushQ, fl,
                          compVars, cl, snaps>>
  <2>1. LogTypes'
    BY <1>2, <1>4 DEF LogTypes, Unlink
  <2>2. rv' = [pc |-> "open", todo |-> rv.todo \ {n}, recs |-> rv.recs, torn |-> rv.torn, maxSeq |-> rv.maxSeq,
               tasks |-> rv.tasks]
    BY <1>2, <1>4, RecoveryFields
  <2>3. rv'.tasks = <<>> /\ rv'.pc = "open" /\ rv'.maxSeq = rv.maxSeq
    BY <1>1, <1>2, <2>2, RecoveryFields
  <2>4. RecoveryTypes'
    <3>1. rv.todo \ {n} \in SUBSET Nat
      BY <1>2, RecoveryFields
    <3>2. rv' \in Recoveries(issued)
      BY <1>2, <2>2, <3>1, RecoveryFields, RecoveryOf
    <3> QED
      BY <1>2, <2>3, <3>2 DEF RecoveryTypes
  <2>5. seqNum' \in 0..Cardinality(issued) /\ rv'.maxSeq <= Cardinality(issued)
    <3>1. Cardinality(issued) \in Nat /\ seqNum \in 0..Cardinality(issued) /\ rv.maxSeq <= Cardinality(issued)
      BY <1>2, FS_CardinalityType DEF History
    <3>2. rv.maxSeq \in Nat
      BY <1>2, RecoveryFields
    <3>3. seqNum' \in {seqNum, rv.maxSeq}
      BY <1>4, <3>1, <3>2, MaxOfTwo
    <3> QED
      BY <2>3, <3>1, <3>2, <3>3
  <2>6. Counters' /\ IsUp /\ phase' = phase
    BY <1>1, <1>4, UpFacts DEF TypeInv, Counters, compVars
  <2> QED
    BY <1>1, <1>4, <2>1, <2>4, <2>5, <2>6, RecoveryStep DEF IsUp, vsVars
<1> QED
  BY <1>1, <1>3, <1>4

----------------------------------------------------------------------------
\* A step that changes nothing.
LEMMA StutterTypes == ASSUME TypeInv, UNCHANGED vars PROVE TypeInv'
<1> USE DEF vars, ctlVars, memVars, walVars, vsVars, compVars, histVars
<1>1. Counters' /\ Locks' /\ FlusherTypes' /\ job' \in Jobs /\ History'
  BY CountersFrame, LocksFrame, FlusherFrame, HistoryFrame DEF TypeInv
<1>2. TreeTypes' /\ MemTypes' /\ LogTypes' /\ FileTypes' /\ CallTypes' /\ RecoveryTypes'
  BY TreeFrame, MemFrame, LogFrame, FileFrame, CallFrame, RecoveryFrame DEF TypeInv
<1>3. Lost'
  BY LostFrame DEF TypeInv
<1> QED
  BY <1>1, <1>2, <1>3 DEF TypeInv

\* An empty data directory.
LEMMA InitTypes == Init => TypeInv
<1> SUFFICES ASSUME Init PROVE TypeInv
  OBVIOUS
<1> USE DEF Init
<1>1. Counters
  BY DEF Counters
<1>2. Locks
  BY DEF Locks, FlIdle, NoJob
<1>3. FlusherTypes
  BY ConstantTypes, FlIdleTypes DEF FlusherTypes
<1>4. job \in Jobs
  BY NoJobTypes
<1>5. TreeTypes
  <2>1. NoLevels \in TreeOf /\ \A l \in Levels : ToSet(NoLevels[l]) = {}
    BY DEF NoLevels, TreeOf, ToSet
  <2>2. NoManifest \in Manifests /\ NoManifest.levels = NoLevels
    BY <2>1 DEF NoManifest, Manifests
  <2> QED
    BY <2>1, <2>2 DEF TreeTypes
<1>6. MemTypes /\ LogTypes /\ FileTypes
  <2>1. DOMAIN <<>> = {}
    OBVIOUS
  <2> QED
    BY <2>1 DEF MemTypes, LogTypes, FileTypes, LogNums
<1>7. CallTypes
  BY IdleTypes DEF CallTypes
<1>8. RecoveryTypes /\ rv.maxSeq = 0
  <2>1. <<>> \in Seq(issued) /\ <<>> \in Seq(Tasks(issued)) /\ FALSE \in BOOLEAN /\ {} \in SUBSET Nat /\ 0 \in Nat
    OBVIOUS
  <2>2. RvIdle \in Recoveries(issued)
    BY <2>1, Zenon DEF Recoveries, RvIdle
  <2>3. RvIdle.pc = "idle" /\ RvIdle.maxSeq = 0 /\ RvIdle.tasks = <<>>
    BY DEF RvIdle
  <2> QED
    BY <2>2, <2>3 DEF RecoveryTypes
<1>9. History
  <2>1. IsFiniteSet({}) /\ Cardinality({}) = 0 /\ MaxWrites \in Nat
    BY FS_EmptySet, ConstantTypes
  <2> QED
    BY <1>8, <2>1 DEF History, NoManifest
<1>10. Lost
  BY DEF Lost
<1> QED
  BY <1>1, <1>2, <1>3, <1>4, <1>5, <1>6, <1>7, <1>8, <1>9, <1>10 DEF TypeInv

\* Every step of the engine keeps TypeInv.
LEMMA NextTypes == ASSUME TypeInv, [Next]_vars PROVE TypeInv'
<1>1. CASE \E c \in Clients : ClientNext(c) \/ CloseReturn(c)
  <2>1. PICK c \in Clients : ClientNext(c) \/ CloseReturn(c)
    BY <1>1
  <2>2. CASE CloseReturn(c)
    BY <2>2, CloseReturnTypes
  <2>3. CASE ClientNext(c)
    BY <2>3, WriteTypes, StallTypes, ReadWalTypes, AppendWalTypes, ApplyTaken, SendTypes, SyncTypes, CloseTypes,
       RotateForSyncTypes, SyncReturnTypes DEF ClientNext
  <2> QED
    BY <2>1, <2>2, <2>3
<1>2. CASE FlusherNext
  BY <1>2, FlushTakeTypes, FlushWriteTypes, FlushInstallTypes, FlushCleanupTypes DEF FlusherNext
<1>3. CASE CompactorNext
  BY <1>3, CompactBeginTypes, CompactMergeTypes, CompactInstallTypes, CompactRemoveTypes, CompactDoneTypes,
     RescheduleTypes DEF CompactorNext
<1>4. CASE SnapshotNext
  BY <1>4, SnapshotTypes
<1>5. CASE RecoveryNext
  BY <1>5, NewTypes, OpenTornTypes, RecoverOpenTypes, RecoverRecordTypes, RecoverFailsTypes, RecoverSendTypes, RecoverLogDoneTypes,
     RecoverFinishTypes DEF RecoveryNext
<1>6. CASE Crash
  BY <1>6, CrashTypes
<1>7. CASE Quiet \/ UNCHANGED vars
  BY <1>7, StutterTypes DEF Quiet
<1> QED
  BY <1>1, <1>2, <1>3, <1>4, <1>5, <1>6, <1>7 DEF Next

\* The types of the engine's state, at every moment of every behaviour: whatever is
\* in a memtable, a log, a table or a task was issued; the lock and isCompacting
\* belong to a goroutine that is at work; a process that has ended holds nothing.
THEOREM EngineTypes == Spec => []TypeInv
<1>1. TypeInv /\ [Next]_vars => TypeInv'
  BY NextTypes
<1> QED
  BY <1>1, InitTypes, PTL DEF Spec
=============================================================================
