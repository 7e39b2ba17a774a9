--------------------------- MODULE MemtableProofs ---------------------------
(***************************************************************************)
(* The skiplist of a memtable, for any height, any number of puts and any  *)
(* number of iterators that walk it without the lock: at every moment, in  *)
(* the middle of an insert too, each level is the ordered list of the      *)
(* nodes linked on it.  A search then finds what a search of the set of    *)
(* records finds, and an iterator leaves nothing out.                      *)
(***************************************************************************)
EXTENDS Memtable, InternalKeyProofs

\* The nodes, and those that are linked on a level: the one being inserted is linked
\* on the levels below ins.i.
Nodes == DOMAIN forward \ {HeadNode}
At(i) == {n \in Nodes : i \in DOMAIN forward[n] /\ ~(ins.pc = "link" /\ n = ins.new /\ i >= ins.i)}

\* m is behind n, which may be the head.
After(n, m) == n = HeadNode \/ Before(n, m)

\* x is the node behind n on level i, Nil if n is the last one.
IsNext(n, i, x) ==
  \/ x = Nil /\ \A m \in At(i) : ~After(n, m)
  \/ x \in At(i) /\ After(n, x) /\ \A m \in At(i) : After(n, m) => m = x \/ Before(x, m)

\* Every level is a list of its nodes.
Chained == \A i \in 0..MaxLevel - 1 : \A n \in At(i) \cup {HeadNode} : IsNext(n, i, forward[n][i])

\* Nodes are told apart by their number; a node has all levels below its height.
Shape ==
  /\ level \in 1..MaxLevel /\ size \in Nat
  /\ IsFiniteSet(DOMAIN forward)
  /\ HeadNode \in DOMAIN forward /\ DOMAIN forward[HeadNode] = 0..MaxLevel - 1
  /\ \A n \in Nodes : /\ n.key \in Nat /\ n.seq \in Nat /\ n.val \in Nat
                      /\ n.val <= size \/ (ins.pc = "link" /\ n = ins.new)
                      /\ \E h \in 1..level : DOMAIN forward[n] = 0..h - 1
  /\ \A n, m \in Nodes : n.val = m.val => n = m

\* An insert: on the levels that are still to be linked, the new node belongs right
\* behind the one that was found before the first was linked.
Inserting ==
  /\ ins.pc \in {"none", "link"}
  /\ ins.pc = "link" =>
       /\ ins = [pc |-> "link", new |-> ins.new, i |-> ins.i, update |-> ins.update]
       /\ ins.new \in Nodes /\ ins.new.val = size + 1
       /\ DOMAIN ins.update = DOMAIN forward[ins.new] /\ ins.i \in DOMAIN ins.update
       /\ \A j \in DOMAIN ins.update : j >= ins.i =>
            /\ forward[ins.new][j] = Nil
            /\ ins.update[j] \in At(j) \cup {HeadNode} /\ After(ins.update[j], ins.new)
            /\ \A m \in At(j) : After(ins.update[j], m) => Before(ins.new, m)

\* The size counts the inserted records.
Counted == size = Cardinality(Inserted)

ListInv == Shape /\ Inserting /\ Counted /\ Chained

\* An iterator.  While it seeks it is on the level, before the target; when it is about
\* to land, what it was called for is behind it; then it has met what it had to.
IterTypes(s) ==
  /\ s = [pc |-> s.pc, target |-> s.target, lvl |-> s.lvl, at |-> s.at, curr |-> s.curr,
          before |-> s.before, met |-> s.met]
  /\ s.pc \in {"none", "compare", "move", "land", "on"}
  /\ s.pc # "none" => s.target.key \in Int /\ s.target.seq \in Int
  /\ s.before \subseteq At(0)
Seeking(s) ==
  /\ s.lvl \in 0..MaxLevel - 1
  /\ s.at \in At(s.lvl) \cup {HeadNode} /\ (s.at = HeadNode \/ Compare(s.at, s.target) < 0)
  /\ s.met = <<>>
  /\ s.pc = "move" => forward[s.at][s.lvl] # Nil /\ Compare(forward[s.at][s.lvl], s.target) < 0
  /\ s.pc = "land" => s.lvl = 0 /\ \A r \in s.before : After(s.at, r) => Compare(r, s.target) >= 0
Passing(s) ==
  /\ s.curr \in At(0) \cup {Nil} /\ s.met \in Seq(At(0))
  /\ s.curr # Nil => s.met # <<>> /\ s.met[Len(s.met)] = s.curr
  /\ \A i, j \in 1..Len(s.met) : i < j => Before(s.met[i], s.met[j])
  /\ \A r \in s.before : Compare(r, s.target) >= 0 /\ (s.curr = Nil \/ Before(r, s.curr)) => r \in ToSet(s.met)
  /\ s.met # <<>> => Compare(s.met[1], s.target) >= 0 \/ s.met[1] \notin s.before
Proper(s) ==
  /\ IterTypes(s)
  /\ s.pc \in {"compare", "move", "land"} => Seeking(s)
  /\ s.pc = "on" => Passing(s)
IterInv == DOMAIN it = Iters /\ \A x \in Iters : Proper(it[x])

IInv == ListInv /\ IterInv

----------------------------------------------------------------------------
\* The nodes are in a strict total order.
LEMMA NodesOrdered ==
  ASSUME Shape
  PROVE  /\ Numbered(Nodes)
         /\ \A a \in Nodes : ~Before(a, a)
         /\ \A a, b, c \in Nodes : Before(a, b) /\ Before(b, c) => Before(a, c)
         /\ \A a, b \in Nodes : a # b => Before(a, b) \/ Before(b, a)
<1>1. Numbered(Nodes)
  BY DEF Shape, Numbered
<1>2. \A a, b : Before(a, b) <=> Ahead(a, b)
  BY DEF Before, Ahead
<1> QED
  BY <1>1, <1>2, AheadOrders

\* Fields of a node or of a lookup key that Compare can work with.
IsKey(k) == k.key \in Int /\ k.seq \in Int

\* How the order of nodes and a lookup key go together.
LEMMA BeforeTarget ==
  ASSUME NEW r, NEW q, NEW t, IsKey(r), IsKey(q), IsKey(t), Before(r, q)
  PROVE  /\ Compare(q, t) < 0 => Compare(r, t) < 0
         /\ Compare(r, t) >= 0 => Compare(q, t) >= 0
BY DEF IsKey, Before, Compare

\* Compare gives a number.
LEMMA CompareInt == ASSUME NEW r, NEW t, IsKey(r), IsKey(t) PROVE Compare(r, t) \in Int
BY DEF IsKey, Compare

\* Neither the head nor Nil is a node; a level below the highest is one of the head's.
LEMMA NodeFacts ==
  ASSUME Shape
  PROVE  /\ HeadNode \notin Nodes /\ Nil \notin Nodes /\ Nil # HeadNode
         /\ \A n \in Nodes : IsKey(n)
         /\ \A i : At(i) \subseteq Nodes
         /\ \A n \in Nodes : DOMAIN forward[n] \subseteq 0..MaxLevel - 1 /\ 0 \in DOMAIN forward[n]
         /\ MaxLevel \in Nat \ {0} /\ 0 \in 0..MaxLevel - 1
<1>1. \A n \in Nodes : n.key \in Nat
  BY DEF Shape
<1>2. Nil.key = -2 /\ HeadNode.key = -1
  BY DEF Nil, HeadNode
<1>3. Nil \notin Nodes /\ Nil # HeadNode
  BY <1>1, <1>2
<1>4. HeadNode \notin Nodes /\ \A n \in Nodes : IsKey(n)
  BY DEF Nodes, Shape, IsKey
<1>5. \A i : At(i) \subseteq Nodes
  BY DEF At
<1>6. MaxLevel \in Nat \ {0} /\ 0 \in 0..MaxLevel - 1
  BY MemtableConstants
<1>7. ASSUME NEW n \in Nodes PROVE DOMAIN forward[n] \subseteq 0..MaxLevel - 1 /\ 0 \in DOMAIN forward[n]
  <2>1. PICK h \in 1..level : DOMAIN forward[n] = 0..h - 1
    BY DEF Shape
  <2> QED
    BY <1>6, <2>1 DEF Shape
<1> QED
  BY <1>3, <1>4, <1>5, <1>6, <1>7

\* While nothing is being inserted, a level has all the nodes that are high enough.
LEMMA OnLevelAt ==
  ASSUME Shape, ins.pc = "none", NEW i \in 0..MaxLevel - 1
  PROVE  OnLevel(i) = At(i) \cup {HeadNode}
BY DEF Shape, OnLevel, At, Nodes

\* f is the function that Along(i, target) is computed with.
Follows(f, i, target) ==
  f = [n \in OnLevel(i) |-> IF forward[n][i] # Nil /\ Compare(forward[n][i], target) < 0
                            THEN f[forward[n][i]] ELSE n]

\* The recursion of Along defines a function: it ends at the last node before the
\* target.
LEMMA FollowsExists ==
  ASSUME Shape, Chained, ins.pc = "none", NEW i \in 0..MaxLevel - 1, NEW target, IsKey(target)
  PROVE  \E f : Follows(f, i, target)
<1> DEFINE B == {m \in At(i) : Compare(m, target) < 0}
           last == LastOf(B)
           f == [n \in OnLevel(i) |-> IF forward[n][i] # Nil /\ Compare(forward[n][i], target) < 0
                                      THEN last ELSE n]
<1>1. OnLevel(i) = At(i) \cup {HeadNode} /\ At(i) \subseteq Nodes
  BY OnLevelAt, NodeFacts
<1>2. \A n \in OnLevel(i) : IsNext(n, i, forward[n][i])
  BY <1>1 DEF Chained
<1>3. B # {} => last \in B /\ \A q \in B \ {last} : Before(q, last)
  <2>1. IsFiniteSet(B) /\ Numbered(B)
    <3>1. B \subseteq DOMAIN forward /\ B \subseteq Nodes
      BY <1>1 DEF Nodes
    <3> QED
      BY <3>1, NodesOrdered, FS_Subset DEF Shape, Numbered
  <2> HIDE DEF B
  <2> QED
    BY <2>1, LastIsBehind DEF Ahead, Before
<1>4. ASSUME NEW n \in OnLevel(i), forward[n][i] # Nil, Compare(forward[n][i], target) < 0
      PROVE  f[forward[n][i]] = last
  <2> DEFINE x == forward[n][i]
             y == forward[x][i]
  <2>1. x \in B /\ x \in OnLevel(i)
    BY <1>1, <1>2, <1>4 DEF IsNext
  <2>2. CASE y # Nil /\ Compare(y, target) < 0
    BY <2>1, <2>2
  <2>3. CASE ~(y # Nil /\ Compare(y, target) < 0)
    <3>1. f[x] = x
      BY <2>1, <2>3
    <3>2. x = last
      <4> SUFFICES ASSUME x # last PROVE FALSE
        OBVIOUS
      <4>1. last \in B /\ Before(x, last) /\ last \in At(i)
        BY <1>3, <2>1
      <4>2. After(x, last)
        BY <4>1 DEF After
      <4>3. y \in At(i) /\ (last = y \/ Before(y, last))
        BY <1>2, <2>1, <4>1, <4>2 DEF IsNext
      <4>4. y # Nil
        BY <1>1, <4>3, NodeFacts
      <4>5. IsKey(y) /\ IsKey(last) /\ Compare(last, target) < 0
        BY <1>1, <4>1, <4>3, NodeFacts
      <4> HIDE DEF last, y
      <4>6. Compare(y, target) < 0
        BY <4>3, <4>5, BeforeTarget
      <4> QED
        BY <2>3, <4>4, <4>6
    <3> QED
      BY <3>1, <3>2
  <2> QED
    BY <2>2, <2>3
<1>5. Follows(f, i, target)
  <2>1. ASSUME NEW n \in OnLevel(i)
        PROVE  f[n] = IF forward[n][i] # Nil /\ Compare(forward[n][i], target) < 0
                      THEN f[forward[n][i]] ELSE n
    BY <1>4
  <2>2. f = [n \in OnLevel(i) |-> IF forward[n][i] # Nil /\ Compare(forward[n][i], target) < 0
                                  THEN f[forward[n][i]] ELSE n]
    BY <2>1
  <2> QED
    BY <2>2 DEF Follows
<1> QED
  BY <1>5

\* Where the walk along a level ends, from a node n of it: at n or further on, still
\* before the target, and with nothing before the target behind it.
Leaves(n, m, i, target) ==
  /\ m \in At(i) \cup {HeadNode}
  /\ m = n \/ (m \in At(i) /\ Compare(m, target) < 0)
  /\ \A q \in At(i) : After(m, q) => Compare(q, target) >= 0

\* One step of the walk.
LEMMA FollowsStep ==
  ASSUME Shape, Chained, ins.pc = "none", NEW i \in 0..MaxLevel - 1, NEW target, IsKey(target),
         NEW f, Follows(f, i, target), NEW n \in OnLevel(i),
         \A x \in At(i) : After(n, x) => Leaves(x, f[x], i, target)
  PROVE  Leaves(n, f[n], i, target)
<1> DEFINE x == forward[n][i]
<1>1. OnLevel(i) = At(i) \cup {HeadNode} /\ At(i) \subseteq Nodes /\ Nil \notin Nodes
  BY OnLevelAt, NodeFacts
<1>2. IsNext(n, i, x)
  BY <1>1 DEF Chained
<1>3. f[n] = IF x # Nil /\ Compare(x, target) < 0 THEN f[x] ELSE n
  BY DEF Follows
<1> HIDE DEF x
<1>4. CASE x # Nil /\ Compare(x, target) < 0
  <2>1. x \in At(i) /\ After(n, x)
    BY <1>2, <1>4 DEF IsNext
  <2>2. Leaves(x, f[x], i, target) /\ f[n] = f[x]
    BY <1>3, <1>4, <2>1
  <2> QED
    BY <1>4, <2>1, <2>2 DEF Leaves
<1>5. CASE ~(x # Nil /\ Compare(x, target) < 0)
  <2>1. f[n] = n
    BY <1>3, <1>5
  <2>2. ASSUME NEW q \in At(i), After(n, q) PROVE Compare(q, target) >= 0
    <3>1. x \in At(i) /\ (q = x \/ Before(x, q))
      BY <1>2, <2>2 DEF IsNext
    <3>2. x # Nil /\ IsKey(x) /\ IsKey(q) /\ Compare(x, target) \in Int
      BY <1>1, <3>1, NodeFacts, CompareInt
    <3>3. Compare(x, target) >= 0
      BY <1>5, <3>2
    <3> QED
      BY <3>1, <3>2, <3>3, BeforeTarget
  <2> QED
    BY <1>1, <2>1, <2>2 DEF Leaves
<1> QED
  BY <1>4, <1>5

\* Along ends there, from every node of the level.
LEMMA AlongLeaves ==
  ASSUME Shape, Chained, ins.pc = "none", NEW i \in 0..MaxLevel - 1, NEW target, IsKey(target)
  PROVE  \A n \in OnLevel(i) : Leaves(n, Along(i, target)[n], i, target)
<1> DEFINE f == Along(i, target)
<1>1. Follows(f, i, target)
  <2>1. f = CHOOSE g : Follows(g, i, target)
    BY DEF Along, Follows
  <2> HIDE DEF f
  <2> QED
    BY <2>1, FollowsExists
<1> HIDE DEF f
<1>2. OnLevel(i) = At(i) \cup {HeadNode} /\ At(i) \subseteq Nodes /\ HeadNode \notin Nodes
  BY OnLevelAt, NodeFacts
<1> DEFINE Bad == {n \in At(i) : ~Leaves(n, f[n], i, target)}
<1>3. Bad = {}
  <2> SUFFICES ASSUME Bad # {} PROVE FALSE
    OBVIOUS
  <2>1. IsFiniteSet(Bad) /\ Numbered(Bad) /\ Bad \subseteq Nodes
    <3>1. Bad \subseteq DOMAIN forward /\ Bad \subseteq Nodes
      BY <1>2 DEF Nodes
    <3> QED
      BY <3>1, NodesOrdered, FS_Subset DEF Shape, Numbered
  <2> DEFINE b == LastOf(Bad)
  <2>2. b \in Bad /\ \A q \in Bad \ {b} : Before(q, b)
    <3> HIDE DEF Bad
    <3> QED
      BY <2>1, LastIsBehind DEF Ahead, Before
  <2> HIDE DEF b
  <2>3. ASSUME NEW x \in At(i), After(b, x) PROVE Leaves(x, f[x], i, target)
    <3>1. Before(b, x) /\ b \in Nodes /\ x \in Nodes
      BY <1>2, <2>2, <2>3 DEF After
    <3>2. ~Before(x, b) /\ x # b
      BY <3>1, NodesOrdered
    <3> QED
      BY <2>2, <3>2
  <2>4. b \in OnLevel(i)
    BY <1>2, <2>2
  <2>5. Leaves(b, f[b], i, target)
    BY <1>1, <2>3, <2>4, FollowsStep
  <2> QED
    BY <2>2, <2>5
<1>4. \A x \in At(i) : Leaves(x, f[x], i, target)
  BY <1>3
<1>5. \A n \in OnLevel(i) : Leaves(n, f[n], i, target)
  BY <1>1, <1>4, FollowsStep
<1> QED
  BY <1>5 DEF f

----------------------------------------------------------------------------
\* g starts with h at n and goes down, on level i with the function A[i].
Descends(g, n, h, A) == g = [i \in 0..n |-> IF i = n THEN h ELSE A[i][g[i + 1]]]

\* A recursion downwards from n defines a function.
LEMMA PathExists ==
  ASSUME NEW n \in Nat, NEW h, NEW A
  PROVE  \E g : Descends(g, n, h, A)
<1> DEFINE Down(g, k) == \A i \in (n - k)..n : g[i] = IF i = n THEN h ELSE A[i][g[i + 1]]
           P == {k \in 0..n : \E g : Down(g, k)}
<1>1. 0 \in P
  <2>1. Down([i \in {n} |-> h], 0)
    OBVIOUS
  <2> QED
    BY <2>1
<1>2. ASSUME NEW k \in 0..n, k \in P, k < n PROVE k + 1 \in P
  <2>1. PICK g : Down(g, k)
    BY <1>2
  <2> DEFINE b == n - (k + 1)
             f == [i \in 0..n |-> IF i = b THEN A[b][g[b + 1]] ELSE g[i]]
  <2>2. b \in 0..n /\ b # n /\ b + 1 = n - k /\ b + 1 \in 0..n /\ b # b + 1
    BY <1>2
  <2>3. ASSUME NEW i \in b..n PROVE f[i] = IF i = n THEN h ELSE A[i][f[i + 1]]
    <3>1. CASE i = b
      BY <2>2, <3>1
    <3>2. CASE i # b
      <4>1. i \in (n - k)..n /\ i \in 0..n /\ (i # n => i + 1 \in 0..n /\ i + 1 # b)
        BY <2>2, <3>2
      <4>2. g[i] = IF i = n THEN h ELSE A[i][g[i + 1]]
        BY <2>1, <4>1
      <4> QED
        BY <3>2, <4>1, <4>2
    <3> QED
      BY <3>1, <3>2
  <2>4. Down(f, k + 1)
    BY <2>3
  <2> HIDE DEF f, Down
  <2>5. k + 1 \in 0..n /\ \E e : Down(e, k + 1)
    BY <1>2, <2>4
  <2> QED
    BY <2>5
<1> HIDE DEF P
<1>3. n \in P
  BY <1>1, <1>2, UpTo
<1>4. PICK g : Down(g, n)
  BY <1>3 DEF P
<1> DEFINE f == [i \in 0..n |-> g[i]]
<1>5. ASSUME NEW i \in 0..n PROVE f[i] = IF i = n THEN h ELSE A[i][f[i + 1]]
  <2>1. i \in (n - n)..n /\ (i # n => i + 1 \in 0..n)
    OBVIOUS
  <2> QED
    BY <1>4, <2>1
<1>6. Descends(f, n, h, A)
  BY <1>5 DEF Descends
<1> QED
  BY <1>6

\* The walk is at the head above the highest level and leaves each level below where
\* it leads to from there.
LEMMA WalkPath ==
  ASSUME level \in Nat, NEW target
  PROVE  \A i \in 0..level : Walk(target)[i] = IF i = level THEN HeadNode
                                               ELSE Along(i, target)[Walk(target)[i + 1]]
<1> DEFINE IsPath(g) == g = [i \in 0..level |-> IF i = level THEN HeadNode ELSE Along(i, target)[g[i + 1]]]
           A == [i \in 0..level |-> Along(i, target)]
<1>1. \E g : IsPath(g)
  <2>1. PICK g : Descends(g, level, HeadNode, A)
    <3> HIDE DEF A
    <3> QED
      BY PathExists
  <2>2. \A i \in 0..level : A[i] = Along(i, target)
    OBVIOUS
  <2> HIDE DEF A
  <2>3. IsPath(g)
    BY <2>1, <2>2 DEF Descends
  <2> QED
    BY <2>3
<1>2. Walk(target) = CHOOSE g : IsPath(g)
  BY DEF Walk
<1>3. IsPath(Walk(target))
  <2> HIDE DEF IsPath
  <2> QED
    BY <1>1, <1>2
<1> QED
  BY <1>3

\* The walk leaves every level at the last node of it before the target.
LEMMA WalkLeaves ==
  ASSUME Shape, Chained, ins.pc = "none", NEW target, IsKey(target), NEW i \in 0..level - 1
  PROVE  LET m == Walk(target)[i]
         IN /\ m \in At(i) \cup {HeadNode} /\ (m = HeadNode \/ Compare(m, target) < 0)
            /\ \A q \in At(i) : After(m, q) => Compare(q, target) >= 0
<1> DEFINE w == Walk(target)
           Good(m, j) == /\ m \in At(j) \cup {HeadNode} /\ (m = HeadNode \/ Compare(m, target) < 0)
                         /\ \A q \in At(j) : After(m, q) => Compare(q, target) >= 0
           P == {k \in 0..level : k = 0 \/ Good(w[level - k], level - k)}
<1>1. level \in Nat /\ level \in 1..MaxLevel /\ MaxLevel \in Nat
  BY MemtableConstants DEF Shape
<1>2. \A j \in 0..level : w[j] = IF j = level THEN HeadNode ELSE Along(j, target)[w[j + 1]]
  BY <1>1, WalkPath
<1> HIDE DEF w
<1>3. 0 \in P
  BY <1>1
<1>4. ASSUME NEW k \in 0..level, k \in P, k < level PROVE k + 1 \in P
  <2> DEFINE j == level - (k + 1)
  <2>1. j \in 0..level - 1 /\ j \in 0..MaxLevel - 1 /\ j # level /\ j + 1 = level - k
    BY <1>1, <1>4
  <2> HIDE DEF j
  <2>2. w[j + 1] \in OnLevel(j) /\ (w[j + 1] = HeadNode \/ Compare(w[j + 1], target) < 0)
    <3>1. CASE k = 0
      BY <1>1, <1>2, <2>1, <3>1, OnLevelAt
    <3>2. CASE k # 0
      <4>1. Good(w[j + 1], j + 1)
        BY <1>4, <2>1, <3>2
      <4>2. At(j + 1) \subseteq OnLevel(j)
        <5> SUFFICES ASSUME NEW n \in At(j + 1) PROVE n \in OnLevel(j)
          OBVIOUS
        <5>1. n \in Nodes /\ j + 1 \in DOMAIN forward[n]
          BY DEF At
        <5>2. PICK h \in 1..level : DOMAIN forward[n] = 0..h - 1
          BY <5>1 DEF Shape
        <5>3. j \in DOMAIN forward[n]
          BY <1>1, <2>1, <5>1, <5>2
        <5> QED
          BY <5>1, <5>3 DEF OnLevel, Nodes
      <4>3. HeadNode \in OnLevel(j)
        BY <2>1, OnLevelAt
      <4> QED
        BY <4>1, <4>2, <4>3
    <3> QED
      BY <3>1, <3>2
  <2>3. Leaves(w[j + 1], Along(j, target)[w[j + 1]], j, target)
    BY <2>1, <2>2, AlongLeaves
  <2>4. w[j] = Along(j, target)[w[j + 1]]
    <3>1. j \in 0..level
      BY <1>1, <2>1
    <3> QED
      BY <1>2, <2>1, <3>1, Zenon
  <2>5. Good(w[j], j)
    BY <2>2, <2>3, <2>4 DEF Leaves
  <2>6. k + 1 \in 0..level /\ level - (k + 1) = j
    BY <1>1, <1>4 DEF j
  <2> QED
    BY <2>5, <2>6
<1> HIDE DEF P
<1>5. \A k \in 0..level : k \in P
  BY <1>1, <1>3, <1>4, UpTo
<1>6. level - i \in P /\ level - i # 0 /\ level - (level - i) = i
  BY <1>1, <1>5
<1> QED
  BY <1>6 DEF P, w

----------------------------------------------------------------------------
\* The levels stay as they are when their nodes and the pointers between these do.
LEMMA ChainedFrame ==
  ASSUME Chained, NEW i \in 0..MaxLevel - 1, At(i)' = At(i),
         \A n \in At(i) \cup {HeadNode} : forward'[n][i] = forward[n][i]
  PROVE  \A n \in (At(i) \cup {HeadNode})' : IsNext(n, i, forward[n][i])'
BY DEF Chained, IsNext

\* What an insert does before its first store.
LEMMA InsertStep ==
  ASSUME ListInv, NEW k \in IKeys, Insert(k)
  PROVE  /\ ListInv' /\ UNCHANGED <<size, it>>
         /\ \A i : At(i)' = At(i)
         /\ \A n \in DOMAIN forward : forward'[n] = forward[n]
<1>1. PICK lvl \in 1..MaxLevel :
        LET r == [key |-> k.key, seq |-> k.seq, del |-> FALSE, val |-> size + 1]
        IN /\ ins.pc = "none" /\ size < MaxPuts
           /\ ins' = [pc |-> "link", new |-> r, i |-> 0,
                      update |-> [i \in 0..lvl - 1 |-> IF i < level THEN Walk(r)[i] ELSE HeadNode]]
           /\ level' = Max({level, lvl})
           /\ forward' = [n \in DOMAIN forward \cup {r} |->
                            IF n = r THEN [i \in 0..lvl - 1 |-> Nil] ELSE forward[n]]
           /\ UNCHANGED <<size, it>>
  BY DEF Insert
<1> DEFINE r == [key |-> k.key, seq |-> k.seq, del |-> FALSE, val |-> size + 1]
<1>2. r.key = k.key /\ r.seq = k.seq /\ r.val = size + 1
  OBVIOUS
<1> HIDE DEF r
<1>3. /\ ins.pc = "none" /\ size' = size /\ it' = it
      /\ ins'.pc = "link" /\ ins'.new = r /\ ins'.i = 0
      /\ ins' = [pc |-> "link", new |-> ins'.new, i |-> ins'.i, update |-> ins'.update]
      /\ DOMAIN ins'.update = 0..lvl - 1
      /\ \A i \in 0..lvl - 1 : ins'.update[i] = IF i < level THEN Walk(r)[i] ELSE HeadNode
      /\ level' = Max({level, lvl})
      /\ DOMAIN forward' = DOMAIN forward \cup {r}
      /\ forward'[r] = [i \in 0..lvl - 1 |-> Nil]
      /\ \A n \in DOMAIN forward : n # r => forward'[n] = forward[n]
  BY <1>1 DEF r
<1>4. k.key \in Nat /\ k.seq \in Nat /\ MaxLevel \in Nat \ {0} /\ lvl \in Nat /\ level \in Nat /\ size \in Nat
  BY MemtableConstants DEF ListInv, Shape
<1>5. r.key \in Nat /\ r.seq \in Nat /\ r.val \in Nat /\ IsKey(r) /\ r.val > size
  BY <1>2, <1>4 DEF IsKey
<1>6. /\ \A n \in Nodes : n.val <= size /\ n.val \in Nat
      /\ Nodes = DOMAIN forward \ {HeadNode}
  BY <1>3 DEF ListInv, Shape, Nodes
<1>7. r \notin DOMAIN forward /\ r # HeadNode
  <2>1. HeadNode.val = 0
    BY DEF HeadNode
  <2> QED
    BY <1>4, <1>5, <1>6, <2>1
<1>8. /\ \A n \in DOMAIN forward : forward'[n] = forward[n]
      /\ DOMAIN forward'[r] = 0..lvl - 1 /\ \A i \in 0..lvl - 1 : forward'[r][i] = Nil
      /\ Nodes' = Nodes \cup {r}
  BY <1>3, <1>7 DEF Nodes
<1>9. level' \in 1..MaxLevel /\ level <= level' /\ lvl <= level' /\ level' \in Nat
  <2>1. level \in 1..MaxLevel
    BY DEF ListInv, Shape
  <2>2. Max({level, lvl}) \in {level, lvl} /\ Max({level, lvl}) >= level /\ Max({level, lvl}) >= lvl
    BY <1>4, MaxOfTwo
  <2> QED
    BY <1>3, <1>4, <2>1, <2>2
<1>10. ASSUME NEW i PROVE At(i)' = At(i)
  <2>1. r \notin At(i)'
    BY <1>3, <1>8 DEF At
  <2>2. \A n \in Nodes : n \in DOMAIN forward /\ n # r
    BY <1>7 DEF Nodes
  <2>3. \A n \in Nodes : n \in At(i)' <=> i \in DOMAIN forward[n]
    BY <1>3, <1>8, <2>2 DEF At
  <2>4. \A n \in Nodes : n \in At(i) <=> i \in DOMAIN forward[n]
    BY <1>3 DEF At
  <2>5. At(i) \subseteq Nodes /\ At(i)' \subseteq Nodes \cup {r}
    BY <1>8 DEF At
  <2> QED
    BY <2>1, <2>3, <2>4, <2>5
<1>11. Chained'
  <2> SUFFICES ASSUME NEW i \in 0..MaxLevel - 1
               PROVE  \A n \in (At(i) \cup {HeadNode})' : IsNext(n, i, forward[n][i])'
    BY DEF Chained
  <2>1. At(i) \cup {HeadNode} \subseteq DOMAIN forward
    BY DEF At, Nodes, ListInv, Shape
  <2> QED
    BY <1>8, <1>10, <2>1, ChainedFrame DEF ListInv
<1>12. Shape'
  <2>1. IsFiniteSet(DOMAIN forward')
    BY <1>3, FS_AddElement DEF ListInv, Shape
  <2>2. HeadNode \in DOMAIN forward' /\ DOMAIN forward'[HeadNode] = 0..MaxLevel - 1
    BY <1>3, <1>8 DEF ListInv, Shape
  <2>3. ASSUME NEW n \in Nodes'
        PROVE  /\ n.key \in Nat /\ n.seq \in Nat /\ n.val \in Nat
               /\ n.val <= size' \/ (ins'.pc = "link" /\ n = ins'.new)
               /\ \E h \in 1..level' : DOMAIN forward'[n] = 0..h - 1
    <3>1. CASE n = r
      BY <1>3, <1>5, <1>8, <1>9, <3>1
    <3>2. CASE n \in Nodes
      <4>1. n.key \in Nat /\ n.seq \in Nat /\ n.val \in Nat /\ n.val <= size
        BY <1>6, <3>2 DEF ListInv, Shape
      <4>2. PICK h \in 1..level : DOMAIN forward[n] = 0..h - 1
        BY <3>2 DEF ListInv, Shape
      <4>3. h \in 1..level' /\ DOMAIN forward'[n] = 0..h - 1
        BY <1>4, <1>8, <1>9, <3>2, <4>2 DEF Nodes
      <4> QED
        BY <1>3, <4>1, <4>3
    <3> QED
      BY <1>8, <2>3, <3>1, <3>2
  <2>4. \A n, m \in Nodes' : n.val = m.val => n = m
    BY <1>4, <1>5, <1>6, <1>8 DEF ListInv, Shape
  <2> QED
    BY <1>3, <1>4, <1>9, <2>1, <2>2, <2>3, <2>4 DEF Shape
<1>13. Inserting'
  <2>1. ASSUME NEW j \in 0..lvl - 1
        PROVE  /\ ins'.update[j] \in At(j) \cup {HeadNode} /\ After(ins'.update[j], r)
               /\ \A m \in At(j) : After(ins'.update[j], m) => Before(r, m)
    <3>1. CASE j < level
      <4> DEFINE u == Walk(r)[j]
      <4>1. ins'.update[j] = u /\ j \in 0..level - 1
        BY <1>3, <1>4, <3>1
      <4>2. /\ u \in At(j) \cup {HeadNode} /\ (u = HeadNode \/ Compare(u, r) < 0)
            /\ \A q \in At(j) : After(u, q) => Compare(q, r) >= 0
        BY <1>3, <1>5, <4>1, WalkLeaves DEF ListInv
      <4> HIDE DEF u
      <4>3. After(u, r)
        BY <4>2 DEF After, Before
      <4>4. ASSUME NEW m \in At(j), After(u, m) PROVE Before(r, m)
        <5>1. Compare(m, r) >= 0
          BY <4>2, <4>4
        <5>2. IsKey(m) /\ m \in Nodes
          BY NodeFacts DEF ListInv
        <5>3. r.val > m.val
          BY <1>4, <1>5, <1>6, <5>2
        <5> QED
          BY <1>5, <5>1, <5>2, <5>3 DEF Before, Compare, IsKey
      <4> QED
        BY <4>1, <4>2, <4>3, <4>4
    <3>2. CASE ~(j < level)
      <4>1. ins'.update[j] = HeadNode
        BY <1>3, <3>2
      <4>2. At(j) = {}
        <5> SUFFICES ASSUME NEW m \in At(j) PROVE FALSE
          OBVIOUS
        <5>1. m \in Nodes /\ j \in DOMAIN forward[m]
          BY DEF At
        <5>2. PICK h \in 1..level : DOMAIN forward[m] = 0..h - 1
          BY <5>1 DEF ListInv, Shape
        <5> QED
          BY <1>4, <3>2, <5>1, <5>2
      <4> QED
        BY <4>1, <4>2 DEF After
    <3> QED
      BY <3>1, <3>2
  <2>2. \A j \in 0..lvl - 1 : forward'[r][j] = Nil
    BY <1>8
  <2>3. 0 \in 0..lvl - 1
    BY <1>4
  <2>4. \A j : At(j)' = At(j)
    BY <1>10
  <2>5. ASSUME NEW j \in DOMAIN ins'.update
        PROVE  /\ forward'[ins'.new][j] = Nil
               /\ ins'.update[j] \in At(j)' \cup {HeadNode} /\ After(ins'.update[j], ins'.new)
               /\ \A m \in At(j)' : After(ins'.update[j], m) => Before(ins'.new, m)
    BY <1>3, <2>1, <2>2, <2>4
  <2>6. ins'.new \in Nodes' /\ ins'.new.val = size' + 1
        /\ DOMAIN ins'.update = DOMAIN forward'[ins'.new] /\ ins'.i \in DOMAIN ins'.update
    BY <1>2, <1>3, <1>8, <2>3
  <2> QED
    BY <1>3, <2>5, <2>6 DEF Inserting, After
<1>14. Counted'
  <2>1. Inserted' = Nodes /\ Inserted = Nodes
    BY <1>3, <1>7, <1>8 DEF Inserted, Linked, Nodes
  <2> QED
    BY <1>3, <2>1 DEF ListInv, Counted
<1> QED
  BY <1>3, <1>8, <1>10, <1>11, <1>12, <1>13, <1>14 DEF ListInv

\* A store that links the new node n on level i behind u.
LEMMA LinkFacts ==
  ASSUME ListInv, Link
  PROVE  LET n == ins.new
             i == ins.i
             u == ins.update[i]
         IN /\ ins.pc = "link" /\ n \in Nodes /\ n.val = size + 1 /\ n \notin At(i)
            /\ i \in 0..MaxLevel - 1 /\ i \in DOMAIN forward[n]
            /\ u \in At(i) \cup {HeadNode} /\ u # n /\ After(u, n)
            /\ \A m \in At(i) : After(u, m) => Before(n, m)
            /\ DOMAIN forward' = DOMAIN forward
            /\ \A m \in DOMAIN forward : DOMAIN forward'[m] = DOMAIN forward[m]
            /\ \A m \in DOMAIN forward : \A j \in DOMAIN forward[m] : j # i => forward'[m][j] = forward[m][j]
            /\ \A m \in DOMAIN forward \ {n, u} : \A j \in DOMAIN forward[m] : forward'[m][j] = forward[m][j]
            /\ forward'[n][i] = forward[u][i] /\ forward'[u][i] = n
            /\ Nodes' = Nodes /\ UNCHANGED <<level, it>>
            /\ \/ i + 1 \in DOMAIN ins.update /\ ins' = [ins EXCEPT !.i = i + 1] /\ size' = size
               \/ i + 1 \notin DOMAIN ins.update /\ ins' = NoInsert /\ size' = size + 1
<1> DEFINE n == ins.new
           i == ins.i
           u == ins.update[i]
<1>1. /\ ins.pc = "link"
      /\ forward' = [forward EXCEPT ![n][i] = forward[u][i], ![u][i] = n]
      /\ IF i + 1 \in DOMAIN ins.update
         THEN ins' = [ins EXCEPT !.i = i + 1] /\ size' = size
         ELSE ins' = NoInsert /\ size' = size + 1
      /\ UNCHANGED <<level, it>>
  BY DEF Link
<1>2. /\ n \in Nodes /\ n.val = size + 1
      /\ DOMAIN ins.update = DOMAIN forward[n] /\ i \in DOMAIN ins.update
  BY <1>1 DEF ListInv, Inserting
<1>3. DOMAIN forward[n] \subseteq 0..MaxLevel - 1 /\ HeadNode \notin Nodes
  BY <1>2, NodeFacts DEF ListInv
<1>4. i \in 0..MaxLevel - 1 /\ i >= ins.i
  BY <1>2, <1>3
<1>5. /\ u \in At(i) \cup {HeadNode} /\ After(u, n)
      /\ \A m \in At(i) : After(u, m) => Before(n, m)
  BY <1>1, <1>2, <1>4 DEF ListInv, Inserting
<1>6. n \notin At(i)
  BY <1>1, <1>4 DEF At
<1>7. u # n /\ u \in DOMAIN forward /\ n \in DOMAIN forward /\ i \in DOMAIN forward[u] /\ i \in DOMAIN forward[n]
  BY <1>2, <1>3, <1>4, <1>5, <1>6 DEF At, Nodes, ListInv, Shape
<1>8. DOMAIN forward' = DOMAIN forward /\ \A m \in DOMAIN forward : DOMAIN forward'[m] = DOMAIN forward[m]
  <2> HIDE DEF n, i, u
  <2> QED
    BY <1>1, <1>7
<1>9. /\ \A m \in DOMAIN forward : \A j \in DOMAIN forward[m] : j # i => forward'[m][j] = forward[m][j]
      /\ \A m \in DOMAIN forward \ {n, u} : \A j \in DOMAIN forward[m] : forward'[m][j] = forward[m][j]
      /\ forward'[n][i] = forward[u][i] /\ forward'[u][i] = n
  <2> HIDE DEF n, i, u
  <2> QED
    BY <1>1, <1>7
<1>10. Nodes' = Nodes
  BY <1>8 DEF Nodes
<1> QED
  BY <1>1, <1>2, <1>4, <1>5, <1>6, <1>7, <1>8, <1>9, <1>10

\* The new node is now on that level too.
LEMMA LinkAt ==
  ASSUME ListInv, Link, NEW n, n = ins.new, NEW i, i = ins.i
  PROVE  /\ At(i)' = At(i) \cup {n}
         /\ \A j \in 0..MaxLevel - 1 : j # i => At(j)' = At(j)
<1>1. /\ ins.pc = "link" /\ n \in Nodes /\ i \in 0..MaxLevel - 1 /\ i \in DOMAIN forward[n]
      /\ Nodes' = Nodes /\ \A m \in DOMAIN forward : DOMAIN forward'[m] = DOMAIN forward[m]
  BY LinkFacts
<1>2. DOMAIN ins.update = DOMAIN forward[n]
      /\ ins = [pc |-> "link", new |-> ins.new, i |-> ins.i, update |-> ins.update]
  BY <1>1 DEF ListInv, Inserting
<1>3. PICK h \in 1..level : DOMAIN forward[n] = 0..h - 1
  BY <1>1 DEF ListInv, Shape
<1>4. level \in Nat /\ MaxLevel \in Nat
  BY MemtableConstants DEF ListInv, Shape
<1>5. ASSUME NEW j \in 0..MaxLevel - 1, j \in DOMAIN forward[n]
      PROVE  ~(ins'.pc = "link" /\ n = ins'.new /\ j >= ins'.i) <=> j <= i
  <2>1. CASE i + 1 \in DOMAIN ins.update
    <3>1. ins' = [ins EXCEPT !.i = i + 1]
      BY <2>1, LinkFacts
    <3>2. ins'.pc = "link" /\ ins'.new = n /\ ins'.i = i + 1
      BY <1>2, <3>1
    <3> QED
      BY <1>1, <3>2
  <2>2. CASE i + 1 \notin DOMAIN ins.update
    <3>1. ins'.pc = "none"
      BY <2>2, LinkFacts DEF NoInsert
    <3>2. j <= i
      BY <1>1, <1>2, <1>3, <1>4, <1>5, <2>2
    <3> QED
      BY <3>1, <3>2
  <2> QED
    BY <2>1, <2>2
<1>6. ASSUME NEW m \in Nodes, m # n PROVE ~(ins'.pc = "link" /\ m = ins'.new)
  <2>1. CASE i + 1 \in DOMAIN ins.update
    <3>1. ins' = [ins EXCEPT !.i = i + 1]
      BY <2>1, LinkFacts
    <3>2. ins'.new = n
      BY <1>2, <3>1
    <3> QED
      BY <1>6, <3>2
  <2>2. CASE i + 1 \notin DOMAIN ins.update
    BY <2>2, LinkFacts DEF NoInsert
  <2> QED
    BY <2>1, <2>2
<1>7. ASSUME NEW j \in 0..MaxLevel - 1, NEW m \in Nodes
      PROVE  m \in At(j)' <=> m \in At(j) \/ (m = n /\ j = i)
  <2>1. m \in Nodes' /\ DOMAIN forward'[m] = DOMAIN forward[m]
    BY <1>1 DEF Nodes
  <2>2. CASE m # n
    BY <1>6, <2>1, <2>2 DEF At
  <2>3. CASE m = n
    <3>1. n \in At(j)' <=> j \in DOMAIN forward[n] /\ j <= i
      BY <1>1, <1>5, <2>1, <2>3 DEF At
    <3>2. n \in At(j) <=> j \in DOMAIN forward[n] /\ ~(j >= i)
      BY <1>1 DEF At
    <3> QED
      BY <1>1, <2>3, <3>1, <3>2
  <2> QED
    BY <2>2, <2>3
<1>8. \A j : At(j) \subseteq Nodes /\ At(j)' \subseteq Nodes
  BY <1>1 DEF At
<1>9. At(i)' = At(i) \cup {n}
  <2>1. n \in Nodes /\ i \in 0..MaxLevel - 1
    BY <1>1
  <2> QED
    BY <1>7, <1>8, <2>1
<1>10. \A j \in 0..MaxLevel - 1 : j # i => At(j)' = At(j)
  BY <1>7, <1>8
<1> QED
  BY <1>9, <1>10

\* Behind every node of the level is still the next one: behind u the new one, behind
\* that what was behind u.
LEMMA LinkChained == ASSUME ListInv, Link PROVE Chained'
<1>1. PICK n, i, u : n = ins.new /\ i = ins.i /\ u = ins.update[i]
  OBVIOUS
<1>2. /\ n \in Nodes /\ n \notin At(i) /\ i \in 0..MaxLevel - 1
      /\ u \in At(i) \cup {HeadNode} /\ u # n /\ After(u, n)
      /\ \A m \in At(i) : After(u, m) => Before(n, m)
      /\ \A m \in DOMAIN forward : \A j \in DOMAIN forward[m] : j # i => forward'[m][j] = forward[m][j]
      /\ \A m \in DOMAIN forward \ {n, u} : \A j \in DOMAIN forward[m] : forward'[m][j] = forward[m][j]
      /\ forward'[n][i] = forward[u][i] /\ forward'[u][i] = n
  BY <1>1, LinkFacts
<1>3. At(i)' = At(i) \cup {n} /\ \A j \in 0..MaxLevel - 1 : j # i => At(j)' = At(j)
  BY <1>1, LinkAt
<1>4. /\ HeadNode \notin Nodes /\ At(i) \subseteq Nodes /\ Nil \notin Nodes
      /\ \A j \in 0..MaxLevel - 1 : \A m \in At(j) \cup {HeadNode} : m \in DOMAIN forward /\ j \in DOMAIN forward[m]
  <2>1. HeadNode \notin Nodes /\ At(i) \subseteq Nodes /\ Nil \notin Nodes
    BY NodeFacts DEF ListInv
  <2>2. \A j \in 0..MaxLevel - 1 : \A m \in At(j) \cup {HeadNode} : m \in DOMAIN forward /\ j \in DOMAIN forward[m]
    BY DEF At, Nodes, ListInv, Shape
  <2> QED
    BY <2>1, <2>2
<1>5. /\ \A a \in Nodes : ~Before(a, a)
      /\ \A a, b, c \in Nodes : Before(a, b) /\ Before(b, c) => Before(a, c)
      /\ \A a, b \in Nodes : a # b => Before(a, b) \/ Before(b, a)
  BY NodesOrdered DEF ListInv
<1>6. \A m \in At(i) \cup {HeadNode} : IsNext(m, i, forward[m][i])
  BY <1>2 DEF ListInv, Chained
<1>7. ASSUME NEW j \in 0..MaxLevel - 1, j # i
      PROVE  \A m \in (At(j) \cup {HeadNode})' : IsNext(m, j, forward[m][j])'
  <2>1. \A m \in At(j) \cup {HeadNode} : forward'[m][j] = forward[m][j]
    BY <1>2, <1>4, <1>7
  <2> QED
    BY <1>3, <1>7, <2>1, ChainedFrame DEF ListInv
<1>8. \A q \in At(i) \cup {n} : After(n, q) => q \in At(i) /\ After(u, q)
  <2> SUFFICES ASSUME NEW q \in At(i) \cup {n}, After(n, q) PROVE q \in At(i) /\ After(u, q)
    OBVIOUS
  <2>1. Before(n, q) /\ q \in Nodes /\ q # n
    BY <1>2, <1>4, <1>5 DEF After
  <2>2. q \in At(i)
    BY <2>1
  <2>3. u = HeadNode \/ (u \in Nodes /\ Before(u, n))
    BY <1>2, <1>4 DEF After
  <2> QED
    BY <1>2, <1>5, <2>1, <2>2, <2>3 DEF After
<1>9. IsNext(n, i, forward[n][i])'
  <2> DEFINE x == forward[u][i]
  <2>1. IsNext(u, i, x)
    BY <1>2, <1>6
  <2> HIDE DEF x
  <2>2. \/ x = Nil /\ \A q \in At(i) : ~After(u, q)
        \/ x \in At(i) /\ After(u, x) /\ \A q \in At(i) : After(u, q) => q = x \/ Before(x, q)
    BY <2>1 DEF IsNext
  <2>3. \/ x = Nil /\ \A q \in At(i) \cup {n} : ~After(n, q)
        \/ x \in At(i) \cup {n} /\ After(n, x) /\ \A q \in At(i) \cup {n} : After(n, q) => q = x \/ Before(x, q)
    <3>1. CASE x = Nil /\ \A q \in At(i) : ~After(u, q)
      BY <1>8, <3>1
    <3>2. CASE x \in At(i) /\ After(u, x) /\ \A q \in At(i) : After(u, q) => q = x \/ Before(x, q)
      <4>1. After(n, x)
        BY <1>2, <3>2 DEF After
      <4> QED
        BY <1>8, <3>2, <4>1
    <3> QED
      BY <2>2, <3>1, <3>2
  <2>4. forward'[n][i] = x
    BY <1>2 DEF x
  <2> QED
    BY <1>3, <2>3, <2>4 DEF IsNext
<1>10. IsNext(u, i, forward[u][i])'
  <2>1. n \in At(i) \cup {n} /\ After(u, n) /\ \A q \in At(i) \cup {n} : After(u, q) => q = n \/ Before(n, q)
    BY <1>2
  <2> QED
    BY <1>2, <1>3, <2>1 DEF IsNext
<1>11. ASSUME NEW m \in At(i) \cup {HeadNode}, m # u PROVE IsNext(m, i, forward[m][i])'
  <2> DEFINE x == forward[m][i]
  <2>1. forward'[m][i] = x
    BY <1>2, <1>4, <1>11
  <2> HIDE DEF x
  <2>2. \/ x = Nil /\ \A q \in At(i) : ~After(m, q)
        \/ x \in At(i) /\ After(m, x) /\ \A q \in At(i) : After(m, q) => q = x \/ Before(x, q)
    BY <1>6 DEF IsNext, x
  <2>3. After(m, n) => u \in At(i) /\ After(m, u)
    <3> SUFFICES ASSUME After(m, n) PROVE u \in At(i) /\ After(m, u)
      OBVIOUS
    <3>1. CASE m = HeadNode
      BY <1>2, <1>11, <3>1 DEF After
    <3>2. CASE m \in At(i) /\ m # HeadNode
      <4>1. Before(m, n) /\ m \in Nodes
        BY <1>4, <3>2 DEF After
      <4>2. ~Before(n, m)
        BY <1>2, <1>5, <4>1
      <4>3. ~After(u, m)
        BY <1>2, <3>2, <4>2
      <4>4. u \in At(i) /\ u \in Nodes /\ ~Before(u, m)
        BY <1>2, <1>4, <4>3 DEF After
      <4> QED
        BY <1>5, <1>11, <4>1, <4>4 DEF After
    <3> QED
      BY <1>11, <3>1, <3>2
  <2>4. After(m, n) => x \in At(i) /\ Before(x, n)
    <3> SUFFICES ASSUME After(m, n) PROVE x \in At(i) /\ Before(x, n)
      OBVIOUS
    <3>1. u \in At(i) /\ After(m, u) /\ u \in Nodes /\ u # HeadNode
      BY <1>4, <2>3
    <3>2. x \in At(i) /\ (u = x \/ Before(x, u)) /\ x \in Nodes
      BY <1>4, <2>2, <3>1
    <3>3. Before(u, n)
      BY <1>2, <3>1 DEF After
    <3> QED
      BY <1>2, <1>5, <3>1, <3>2, <3>3
  <2>5. \/ x = Nil /\ \A q \in At(i) \cup {n} : ~After(m, q)
        \/ x \in At(i) \cup {n} /\ After(m, x) /\ \A q \in At(i) \cup {n} : After(m, q) => q = x \/ Before(x, q)
    <3>1. CASE x = Nil /\ \A q \in At(i) : ~After(m, q)
      BY <1>4, <2>4, <3>1
    <3>2. CASE x \in At(i) /\ After(m, x) /\ \A q \in At(i) : After(m, q) => q = x \/ Before(x, q)
      BY <2>4, <3>2
    <3> QED
      BY <2>2, <3>1, <3>2
  <2> QED
    BY <1>3, <2>1, <2>5 DEF IsNext
<1>12. \A m \in (At(i) \cup {HeadNode})' : IsNext(m, i, forward[m][i])'
  <2> SUFFICES ASSUME NEW m \in At(i) \cup {n} \cup {HeadNode} PROVE IsNext(m, i, forward[m][i])'
    BY <1>3
  <2>1. CASE m = n
    BY <1>9, <2>1
  <2>2. CASE m = u
    BY <1>10, <2>2
  <2>3. CASE m # n /\ m # u
    BY <1>11, <2>3
  <2> QED
    BY <2>1, <2>2, <2>3
<1> QED
  BY <1>7, <1>12 DEF Chained

\* A store of an insert, with the end of the insert after the last one.
LEMMA LinkStep ==
  ASSUME ListInv, Link
  PROVE  ListInv' /\ \A i \in 0..MaxLevel - 1 : At(i) \subseteq At(i)'
<1>1. PICK n, i, u : n = ins.new /\ i = ins.i /\ u = ins.update[i]
  OBVIOUS
<1>2. /\ ins.pc = "link" /\ n \in Nodes /\ n.val = size + 1 /\ i \in 0..MaxLevel - 1 /\ i \in DOMAIN forward[n]
      /\ DOMAIN forward' = DOMAIN forward /\ \A m \in DOMAIN forward : DOMAIN forward'[m] = DOMAIN forward[m]
      /\ \A m \in DOMAIN forward : \A j \in DOMAIN forward[m] : j # i => forward'[m][j] = forward[m][j]
      /\ Nodes' = Nodes /\ level' = level
      /\ \/ i + 1 \in DOMAIN ins.update /\ ins' = [ins EXCEPT !.i = i + 1] /\ size' = size
         \/ i + 1 \notin DOMAIN ins.update /\ ins' = NoInsert /\ size' = size + 1
  BY <1>1, LinkFacts
<1>3. At(i)' = At(i) \cup {n} /\ \A j \in 0..MaxLevel - 1 : j # i => At(j)' = At(j)
  BY <1>1, LinkAt
<1>4. /\ ins = [pc |-> "link", new |-> ins.new, i |-> ins.i, update |-> ins.update]
      /\ DOMAIN ins.update = DOMAIN forward[n]
      /\ \A j \in DOMAIN ins.update : j >= i =>
            /\ forward[n][j] = Nil
            /\ ins.update[j] \in At(j) \cup {HeadNode} /\ After(ins.update[j], n)
            /\ \A m \in At(j) : After(ins.update[j], m) => Before(n, m)
  BY <1>1, <1>2 DEF ListInv, Inserting
<1>5. size \in Nat /\ size' \in Nat /\ size <= size'
  BY <1>2 DEF ListInv, Shape
<1>6. Shape'
  <2>1. ASSUME NEW m \in Nodes'
        PROVE  /\ m.key \in Nat /\ m.seq \in Nat /\ m.val \in Nat
               /\ m.val <= size' \/ (ins'.pc = "link" /\ m = ins'.new)
               /\ \E h \in 1..level' : DOMAIN forward'[m] = 0..h - 1
    <3>1. m \in Nodes /\ m \in DOMAIN forward
      BY <1>2, <2>1 DEF Nodes
    <3>2. m.key \in Nat /\ m.seq \in Nat /\ m.val \in Nat /\ (m.val <= size \/ m = n)
          /\ \E h \in 1..level' : DOMAIN forward'[m] = 0..h - 1
      BY <1>1, <1>2, <3>1 DEF ListInv, Shape
    <3>3. m = n => m.val <= size' \/ (ins'.pc = "link" /\ m = ins'.new)
      BY <1>1, <1>2, <1>4, <1>5
    <3> QED
      BY <1>5, <3>2, <3>3
  <2>2. HeadNode \in DOMAIN forward' /\ DOMAIN forward'[HeadNode] = 0..MaxLevel - 1 /\ IsFiniteSet(DOMAIN forward')
    BY <1>2 DEF ListInv, Shape
  <2>3. level' \in 1..MaxLevel /\ \A m, q \in Nodes' : m.val = q.val => m = q
    BY <1>2 DEF ListInv, Shape
  <2> QED
    BY <1>5, <2>1, <2>2, <2>3 DEF Shape
<1>7. Inserting'
  <2>1. CASE ins' = NoInsert
    BY <2>1 DEF Inserting, NoInsert
  <2>2. CASE i + 1 \in DOMAIN ins.update /\ ins' = [ins EXCEPT !.i = i + 1] /\ size' = size
    <3>1. /\ ins'.pc = "link" /\ ins'.new = n /\ ins'.i = i + 1 /\ ins'.update = ins.update
          /\ ins' = [pc |-> "link", new |-> ins'.new, i |-> ins'.i, update |-> ins'.update]
      BY <1>1, <1>4, <2>2
    <3>2. DOMAIN ins.update \subseteq 0..MaxLevel - 1
      BY <1>2, <1>4, NodeFacts DEF ListInv
    <3>3. ASSUME NEW j \in DOMAIN ins.update, j >= i + 1
          PROVE  /\ forward'[n][j] = Nil
                 /\ ins.update[j] \in At(j)' \cup {HeadNode} /\ After(ins.update[j], n)
                 /\ \A m \in At(j)' : After(ins.update[j], m) => Before(n, m)
      <4>1. j \in 0..MaxLevel - 1 /\ j # i /\ j >= i
        BY <1>2, <3>2, <3>3
      <4>2. At(j)' = At(j)
        BY <1>3, <4>1
      <4>3. forward'[n][j] = forward[n][j]
        BY <1>2, <1>4, <4>1 DEF Nodes
      <4> QED
        BY <1>4, <4>1, <4>2, <4>3
    <3>4. n \in Nodes' /\ n.val = size' + 1 /\ DOMAIN ins.update = DOMAIN forward'[n]
      BY <1>2, <1>4, <2>2 DEF Nodes
    <3> QED
      BY <2>2, <3>1, <3>3, <3>4 DEF Inserting, After
  <2> QED
    BY <1>2, <2>1, <2>2
<1>8. Counted'
  <2>1. Inserted = Nodes \ {n} /\ size = Cardinality(Nodes \ {n})
    <3>1. Inserted = Nodes \ {n}
      BY <1>1, <1>2 DEF Inserted, Linked, Nodes
    <3> QED
      BY <3>1 DEF ListInv, Counted
  <2>2. CASE ins' = NoInsert /\ size' = size + 1
    <3>1. Inserted' = Nodes
      BY <1>2, <2>2 DEF Inserted, Linked, Nodes, NoInsert
    <3>2. IsFiniteSet(Nodes \ {n})
      BY FS_Subset DEF ListInv, Shape, Nodes
    <3>3. Cardinality((Nodes \ {n}) \cup {n}) = Cardinality(Nodes \ {n}) + 1
      BY <3>2, FS_AddElement
    <3>4. (Nodes \ {n}) \cup {n} = Nodes
      BY <1>2
    <3> QED
      BY <2>1, <2>2, <3>1, <3>3, <3>4 DEF Counted
  <2>3. CASE ins' = [ins EXCEPT !.i = i + 1] /\ size' = size
    <3>1. ins'.pc = "link" /\ ins'.new = n
      BY <1>1, <1>4, <2>3
    <3>2. Inserted' = Nodes \ {n}
      BY <1>2, <3>1 DEF Inserted, Linked, Nodes
    <3> QED
      BY <2>1, <2>3, <3>2 DEF Counted
  <2> QED
    BY <1>2, <2>2, <2>3
<1>9. \A j \in 0..MaxLevel - 1 : At(j) \subseteq At(j)'
  BY <1>3
<1> QED
  BY <1>6, <1>7, <1>8, <1>9, LinkChained DEF ListInv

\* A step that leaves the list alone.
LEMMA ListSame ==
  ASSUME ListInv, UNCHANGED <<forward, level, size, ins>>
  PROVE  ListInv' /\ \A i : At(i)' = At(i)
<1>1. Nodes' = Nodes /\ Inserted' = Inserted
  BY DEF Nodes, Inserted, Linked
<1>2. \A i : At(i)' = At(i)
  BY <1>1 DEF At
<1>3. Shape'
  BY <1>1 DEF ListInv, Shape
<1>4. Inserting'
  BY <1>1, <1>2 DEF ListInv, Inserting, After
<1>5. Counted'
  BY <1>1 DEF ListInv, Counted
<1>6. Chained'
  BY <1>2, ChainedFrame DEF ListInv, Chained
<1> QED
  BY <1>2, <1>3, <1>4, <1>5, <1>6 DEF ListInv

\* The empty list.
LEMMA ListInit == Init => ListInv
<1> SUFFICES ASSUME Init PROVE ListInv
  OBVIOUS
<1>1. /\ DOMAIN forward = {HeadNode} /\ DOMAIN forward[HeadNode] = 0..MaxLevel - 1
      /\ \A i \in 0..MaxLevel - 1 : forward[HeadNode][i] = Nil
      /\ level = 1 /\ size = 0 /\ ins.pc = "none"
  BY DEF Init, NoInsert
<1>2. Nodes = {} /\ Inserted = {} /\ \A i : At(i) = {}
  BY <1>1 DEF Nodes, Inserted, Linked, At
<1>3. IsFiniteSet({HeadNode}) /\ Cardinality({}) = 0
  BY FS_Singleton, FS_EmptySet
<1>4. Shape
  BY <1>1, <1>2, <1>3, MemtableConstants DEF Shape
<1>5. Inserting /\ Counted
  BY <1>1, <1>2, <1>3 DEF Inserting, Counted
<1>6. Chained
  BY <1>1, <1>2 DEF Chained, IsNext
<1> QED
  BY <1>4, <1>5, <1>6 DEF ListInv

----------------------------------------------------------------------------
\* A linked node is linked on all levels below.
LEMMA AtBelow ==
  ASSUME ListInv, NEW i \in 0..MaxLevel - 1, i > 0
  PROVE  At(i) \subseteq At(i - 1) /\ i - 1 \in 0..MaxLevel - 1
<1> SUFFICES ASSUME NEW n \in At(i) PROVE n \in At(i - 1)
  BY NodeFacts DEF ListInv
<1>1. n \in Nodes /\ i \in DOMAIN forward[n] /\ ~(ins.pc = "link" /\ n = ins.new /\ i >= ins.i)
  BY DEF At
<1>2. PICK h \in 1..level : DOMAIN forward[n] = 0..h - 1
  BY <1>1 DEF ListInv, Shape
<1>3. i - 1 \in DOMAIN forward[n]
  BY <1>1, <1>2 DEF ListInv, Shape
<1>4. ~(ins.pc = "link" /\ n = ins.new /\ i - 1 >= ins.i)
  <2> SUFFICES ASSUME ins.pc = "link", n = ins.new, i - 1 >= ins.i PROVE FALSE
    OBVIOUS
  <2>1. ins.i \in DOMAIN forward[n] /\ ins.i \in Int
    BY <1>2, NodeFacts DEF ListInv, Inserting
  <2> QED
    BY <1>1, <2>1
<1> QED
  BY <1>1, <1>3, <1>4 DEF At

\* Every node of a level has one in front of it.
LEMMA HasPredecessor ==
  ASSUME ListInv, NEW i \in 0..MaxLevel - 1, NEW x \in At(i)
  PROVE  \E m \in At(i) \cup {HeadNode} : forward[m][i] = x
<1> DEFINE C == {m \in At(i) : Before(m, x)}
<1>1. At(i) \subseteq Nodes /\ At(i) \subseteq DOMAIN forward
  BY DEF At, Nodes
<1>2. \A m \in At(i) \cup {HeadNode} : IsNext(m, i, forward[m][i])
  BY DEF ListInv, Chained
<1>3. CASE C = {}
  <2>1. After(HeadNode, x)
    BY DEF After
  <2>2. forward[HeadNode][i] \in At(i) /\ (x = forward[HeadNode][i] \/ Before(forward[HeadNode][i], x))
    BY <1>2, <2>1 DEF IsNext
  <2> QED
    BY <1>3, <2>2
<1>4. CASE C # {}
  <2>1. IsFiniteSet(C) /\ Numbered(C)
    BY <1>1, NodesOrdered, FS_Subset DEF ListInv, Shape, Numbered
  <2> DEFINE m == LastOf(C)
  <2>2. m \in C /\ \A q \in C \ {m} : Before(q, m)
    <3> HIDE DEF C
    <3> QED
      BY <1>4, <2>1, LastIsBehind DEF Ahead, Before
  <2> HIDE DEF m
  <2> DEFINE y == forward[m][i]
  <2>3. m \in At(i) /\ After(m, x)
    BY <2>2 DEF After
  <2>4. y \in At(i) /\ After(m, y) /\ (x = y \/ Before(y, x))
    BY <1>2, <2>3 DEF IsNext
  <2> HIDE DEF y
  <2>5. Before(m, y)
    <3>1. m # HeadNode
      BY <1>1, <2>3, NodeFacts DEF ListInv
    <3> QED
      BY <2>4, <3>1 DEF After
  <2>6. ~Before(y, m) /\ y # m
    BY <1>1, <2>3, <2>4, <2>5, NodesOrdered DEF ListInv
  <2>7. x = y
    BY <2>2, <2>4, <2>6
  <2> QED
    BY <2>3, <2>7 DEF y
<1> QED
  BY <1>3, <1>4

\* Every level is in order, and what it leads to is on the level below.
LEMMA ListNested == ListInv => LevelsNested
<1> SUFFICES ASSUME ListInv, NEW n \in DOMAIN forward, NEW i \in DOMAIN forward[n],
                    n \in Linked \cup {HeadNode}, forward[n][i] # Nil
             PROVE  /\ n = HeadNode \/ Before(n, forward[n][i])
                    /\ i > 0 => \E m \in DOMAIN forward :
                                  i - 1 \in DOMAIN forward[m] /\ forward[m][i - 1] = forward[n][i]
  BY DEF LevelsNested
<1> DEFINE x == forward[n][i]
<1>1. i \in 0..MaxLevel - 1
  BY NodeFacts DEF ListInv, Shape, Nodes
<1>2. n \in At(i) \cup {HeadNode}
  <2> SUFFICES ASSUME n # HeadNode, n \notin At(i) PROVE FALSE
    OBVIOUS
  <2>1. ins.pc = "link" /\ n = ins.new /\ i >= ins.i
    BY DEF At, Nodes
  <2>2. forward[n][i] = Nil
    BY <2>1 DEF ListInv, Inserting
  <2> QED
    BY <2>2
<1>3. x \in At(i) /\ After(n, x)
  BY <1>1, <1>2 DEF ListInv, Chained, IsNext
<1>4. ASSUME i > 0
      PROVE  \E m \in DOMAIN forward : i - 1 \in DOMAIN forward[m] /\ forward[m][i - 1] = x
  <2>1. x \in At(i - 1) /\ i - 1 \in 0..MaxLevel - 1
    BY <1>1, <1>3, <1>4, AtBelow
  <2> HIDE DEF x
  <2>2. PICK m \in At(i - 1) \cup {HeadNode} : forward[m][i - 1] = x
    BY <2>1, HasPredecessor
  <2>3. m \in DOMAIN forward /\ i - 1 \in DOMAIN forward[m]
    BY <2>1, <2>2 DEF At, Nodes, ListInv, Shape
  <2> QED
    BY <2>2, <2>3
<1> QED
  BY <1>3, <1>4 DEF After

\* A search through the levels finds what a search of the set finds.
LEMMA ListSearch == ListInv => SearchCorrect
<1> SUFFICES ASSUME ListInv, ins.pc = "none"
             PROVE  size = Cardinality(Inserted) /\ \A t \in Targets : search(t) = Search(Inserted, t)
  BY DEF SearchCorrect
<1>1. size = Cardinality(Inserted)
  BY DEF ListInv, Counted
<1>2. Inserted = Nodes /\ At(0) = Nodes
  BY NodeFacts DEF Inserted, Linked, Nodes, At, ListInv
<1>3. ASSUME NEW t \in Targets PROVE search(t) = Search(Inserted, t)
  <2> DEFINE m == Walk(t)[0]
             x == forward[m][0]
             after == {r \in Nodes : Compare(r, t) >= 0}
  <2>1. IsKey(t)
    BY MemtableConstants DEF IsKey
  <2>2. 0 \in 0..level - 1 /\ 0 \in 0..MaxLevel - 1 /\ level \in Nat
    BY MemtableConstants DEF ListInv, Shape
  <2>3. /\ m \in Nodes \cup {HeadNode} /\ (m = HeadNode \/ Compare(m, t) < 0)
        /\ \A q \in Nodes : After(m, q) => Compare(q, t) >= 0
    BY <1>2, <2>1, <2>2, WalkLeaves DEF ListInv
  <2>4. IsNext(m, 0, x)
    BY <1>2, <2>2, <2>3 DEF ListInv, Chained
  <2>5. search(t) = IF x # Nil /\ x.key = t.key THEN {x} ELSE {}
    BY DEF search
  <2> HIDE DEF m, x
  <2>6. ASSUME NEW q \in after PROVE After(m, q)
    <3> SUFFICES ASSUME m # HeadNode PROVE Before(m, q)
      BY DEF After
    <3>1. m \in Nodes /\ q \in Nodes /\ IsKey(m) /\ IsKey(q) /\ Compare(m, t) < 0 /\ Compare(q, t) >= 0
      BY <2>3, NodeFacts DEF ListInv
    <3>2. Compare(q, t) \in Int
      BY <2>1, <3>1, CompareInt
    <3>3. m # q /\ ~Before(q, m)
      BY <2>1, <3>1, <3>2, BeforeTarget
    <3> QED
      BY <3>1, <3>3, NodesOrdered DEF ListInv
  <2>7. CASE x = Nil /\ \A q \in Nodes : ~After(m, q)
    <3>1. after = {}
      BY <2>6, <2>7
    <3>2. Search(Inserted, t) = {}
      BY <1>2, <3>1 DEF Search
    <3> QED
      BY <2>5, <2>7, <3>2
  <2>8. CASE x \in Nodes /\ After(m, x) /\ \A q \in Nodes : After(m, q) => q = x \/ Before(x, q)
    <3>1. x \in after /\ x # Nil
      BY <2>3, <2>8, NodeFacts DEF ListInv
    <3>2. IsFiniteSet(after) /\ Numbered(after)
      <4>1. after \subseteq Nodes /\ after \subseteq DOMAIN forward
        BY DEF Nodes
      <4> QED
        BY <4>1, NodesOrdered, FS_Subset DEF ListInv, Shape, Numbered
    <3> DEFINE f == FirstOf(after)
    <3>3. f \in after /\ \A q \in after \ {f} : Before(f, q)
      <4> HIDE DEF after
      <4> QED
        BY <3>1, <3>2, FirstIsAhead DEF Ahead, Before
    <3> HIDE DEF f
    <3>4. f = x
      <4> SUFFICES ASSUME f # x PROVE FALSE
        OBVIOUS
      <4>1. Before(f, x) /\ Before(x, f) /\ f \in Nodes /\ x \in Nodes
        BY <2>6, <2>8, <3>1, <3>3
      <4> QED
        BY <4>1, NodesOrdered DEF ListInv
    <3>5. Search(Inserted, t) = {r \in {x} : r.key = t.key}
      BY <1>2, <3>1, <3>4 DEF Search, f
    <3> QED
      BY <2>5, <3>1, <3>5
  <2> QED
    BY <1>2, <2>4, <2>7, <2>8 DEF IsNext
<1> QED
  BY <1>1, <1>3

----------------------------------------------------------------------------
\* What an iterator has met stays linked, and nothing comes between it and a target
\* it is before, when the list grows.
LEMMA StaysProper ==
  ASSUME \A i \in 0..MaxLevel - 1 : At(i) \subseteq At(i)', ListInv, NEW s, Proper(s),
         s.pc = "move" => /\ forward'[s.at][s.lvl] # Nil
                          /\ Compare(forward'[s.at][s.lvl], s.target) < 0
  PROVE  Proper(s)'
<1>1. At(0) \subseteq At(0)'
  BY NodeFacts DEF ListInv
<1>2. IterTypes(s)'
  BY <1>1 DEF Proper, IterTypes
<1>3. ASSUME s.pc \in {"compare", "move", "land"} PROVE Seeking(s)'
  BY <1>3 DEF Proper, Seeking
<1>4. ASSUME s.pc = "on" PROVE Passing(s)'
  <2>1. /\ s.curr \in At(0) \cup {Nil} /\ s.met \in Seq(At(0))
        /\ s.curr # Nil => s.met # <<>> /\ s.met[Len(s.met)] = s.curr
        /\ \A i, j \in 1..Len(s.met) : i < j => Before(s.met[i], s.met[j])
        /\ \A r \in s.before : Compare(r, s.target) >= 0 /\ (s.curr = Nil \/ Before(r, s.curr)) => r \in ToSet(s.met)
        /\ s.met # <<>> => Compare(s.met[1], s.target) >= 0 \/ s.met[1] \notin s.before
    BY <1>4 DEF Proper, Passing
  <2>2. s.met \in Seq(At(0)') /\ s.curr \in At(0)' \cup {Nil}
    BY <1>1, <2>1
  <2> QED
    BY <2>1, <2>2 DEF Passing
<1> QED
  BY <1>2, <1>3, <1>4 DEF Proper

\* The state of an iterator after a step, under a name.
LEMMA ProperNext ==
  ASSUME NEW x, NEW s, it'[x] = s, Proper(s)'
  PROVE  Proper(it[x])'
BY DEF Proper, IterTypes, Seeking, Passing

\* An insert does not disturb the iterators ...
LEMMA InsertIter == ASSUME IInv, NEW k \in IKeys, Insert(k) PROVE IterInv'
<1>1. /\ it' = it /\ (\A i : At(i)' = At(i)) /\ \A n \in DOMAIN forward : forward'[n] = forward[n]
  BY InsertStep DEF IInv
<1>2. ASSUME NEW x \in Iters PROVE Proper(it[x])'
  <2>1. PICK s : s = it[x]
    OBVIOUS
  <2>2. Proper(s)
    BY <2>1 DEF IInv, IterInv
  <2>3. s.pc = "move" => /\ forward'[s.at][s.lvl] # Nil
                         /\ Compare(forward'[s.at][s.lvl], s.target) < 0
    <3> SUFFICES ASSUME s.pc = "move" PROVE /\ forward'[s.at][s.lvl] # Nil
                                            /\ Compare(forward'[s.at][s.lvl], s.target) < 0
      OBVIOUS
    <3>1. Seeking(s)
      BY <2>2 DEF Proper
    <3>2. s.at \in DOMAIN forward
      BY <3>1 DEF Seeking, At, Nodes, IInv, ListInv, Shape
    <3> QED
      BY <1>1, <3>1, <3>2 DEF Seeking
  <2>4. Proper(s)'
    BY <1>1, <2>2, <2>3, StaysProper DEF IInv
  <2> QED
    BY <1>1, <2>1, <2>4, ProperNext
<1> QED
  BY <1>1, <1>2 DEF IInv, IterInv

\* ... nor does a store of it: a node that is put in front of one before the target is
\* before the target.
LEMMA LinkIter == ASSUME IInv, Link PROVE IterInv'
<1>1. PICK n, i, u : n = ins.new /\ i = ins.i /\ u = ins.update[i]
  OBVIOUS
<1>2. /\ n \in Nodes /\ n \notin At(i) /\ i \in 0..MaxLevel - 1 /\ it' = it
      /\ u \in At(i) \cup {HeadNode} /\ \A m \in At(i) : After(u, m) => Before(n, m)
      /\ \A m \in DOMAIN forward : \A j \in DOMAIN forward[m] : j # i => forward'[m][j] = forward[m][j]
      /\ \A m \in DOMAIN forward \ {n, u} : \A j \in DOMAIN forward[m] : forward'[m][j] = forward[m][j]
      /\ forward'[u][i] = n
  BY <1>1, LinkFacts DEF IInv
<1>3. \A j \in 0..MaxLevel - 1 : At(j) \subseteq At(j)'
  BY LinkStep DEF IInv
<1>4. ASSUME NEW x \in Iters PROVE Proper(it[x])'
  <2>1. PICK s : s = it[x]
    OBVIOUS
  <2>2. Proper(s)
    BY <2>1 DEF IInv, IterInv
  <2>3. s.pc = "move" => /\ forward'[s.at][s.lvl] # Nil
                         /\ Compare(forward'[s.at][s.lvl], s.target) < 0
    <3> SUFFICES ASSUME s.pc = "move" PROVE /\ forward'[s.at][s.lvl] # Nil
                                            /\ Compare(forward'[s.at][s.lvl], s.target) < 0
      OBVIOUS
    <3>1. /\ s.lvl \in 0..MaxLevel - 1 /\ s.at \in At(s.lvl) \cup {HeadNode}
          /\ forward[s.at][s.lvl] # Nil /\ Compare(forward[s.at][s.lvl], s.target) < 0
      BY <2>2 DEF Proper, Seeking
    <3>2. s.at \in DOMAIN forward /\ s.lvl \in DOMAIN forward[s.at]
      BY <3>1 DEF At, Nodes, IInv, ListInv, Shape
    <3>3. HeadNode \notin Nodes /\ Nil \notin Nodes
      BY NodeFacts DEF IInv, ListInv
    <3>4. CASE ~(s.lvl = i /\ s.at = u)
      <4>1. s.lvl = i => s.at # n
        BY <1>2, <3>1, <3>3
      <4>2. forward'[s.at][s.lvl] = forward[s.at][s.lvl]
        BY <1>2, <3>2, <3>4, <4>1
      <4> QED
        BY <3>1, <4>2
    <3>5. CASE s.lvl = i /\ s.at = u
      <4> DEFINE y == forward[u][i]
      <4>1. IsNext(u, i, y) /\ y # Nil /\ Compare(y, s.target) < 0
        BY <1>2, <3>1, <3>5 DEF IInv, ListInv, Chained
      <4> HIDE DEF y
      <4>2. y \in At(i) /\ After(u, y)
        BY <4>1 DEF IsNext
      <4>3. Before(n, y) /\ IsKey(n) /\ IsKey(y)
        BY <1>2, <4>2, NodeFacts DEF IInv, ListInv
      <4>4. IsKey(s.target)
        BY <2>2 DEF Proper, IterTypes, IsKey
      <4>5. Compare(n, s.target) < 0
        BY <4>1, <4>3, <4>4, BeforeTarget
      <4> QED
        BY <1>2, <3>3, <3>5, <4>5
    <3> QED
      BY <3>4, <3>5
  <2>4. Proper(s)'
    BY <1>3, <2>2, <2>3, StaysProper DEF IInv
  <2> QED
    BY <1>2, <2>1, <2>4, ProperNext
<1> QED
  BY <1>2, <1>4 DEF IInv, IterInv

\* A step of one iterator.
LEMMA IterStep ==
  ASSUME IInv, NEW x \in Iters, UNCHANGED <<forward, level, size, ins>>, NEW s, Proper(s),
         it' = [it EXCEPT ![x] = s]
  PROVE  IInv'
<1>1. ListInv' /\ \A i : At(i)' = At(i)
  BY ListSame DEF IInv
<1>2. ASSUME NEW t, Proper(t) PROVE Proper(t)'
  <2>1. t.pc = "move" => /\ forward'[t.at][t.lvl] # Nil
                         /\ Compare(forward'[t.at][t.lvl], t.target) < 0
    BY <1>2 DEF Proper, Seeking
  <2> QED
    BY <1>1, <1>2, <2>1, StaysProper DEF IInv
<1>3. ASSUME NEW y \in Iters PROVE Proper(it[y])'
  <2>1. PICK t : t = IF y = x THEN s ELSE it[y]
    OBVIOUS
  <2>2. Proper(t) /\ it'[y] = t
    BY <2>1 DEF IInv, IterInv
  <2> QED
    BY <1>2, <2>2, ProperNext
<1> QED
  BY <1>1, <1>3 DEF IInv, IterInv

\* The records whose Put has returned are on the lowest level.
LEMMA InsertedAt == ASSUME ListInv PROVE Inserted \subseteq At(0)
BY NodeFacts DEF ListInv, Inserted, Linked, Nodes, At

\* An iterator that is behind all records before its target, among those it was called
\* for, meets the next one.
LEMMA Landing ==
  ASSUME ListInv, NEW at \in At(0) \cup {HeadNode}, NEW target, IsKey(target),
         at = HeadNode \/ Compare(at, target) < 0, NEW r \in At(0), Compare(r, target) >= 0
  PROVE  /\ After(at, r)
         /\ forward[at][0] \in At(0) /\ ~Before(r, forward[at][0])
<1>1. At(0) \subseteq Nodes /\ 0 \in 0..MaxLevel - 1 /\ HeadNode \notin Nodes
  BY NodeFacts DEF ListInv
<1>2. After(at, r)
  <2> SUFFICES ASSUME at # HeadNode PROVE Before(at, r)
    BY DEF After
  <2>1. at \in Nodes /\ r \in Nodes /\ IsKey(at) /\ IsKey(r) /\ Compare(at, target) < 0
    BY <1>1, NodeFacts DEF ListInv
  <2>2. Compare(r, target) \in Int
    BY <2>1, CompareInt
  <2>3. at # r /\ ~Before(r, at)
    BY <2>1, <2>2, BeforeTarget
  <2> QED
    BY <2>1, <2>3, NodesOrdered DEF ListInv
<1> DEFINE y == forward[at][0]
<1>3. IsNext(at, 0, y)
  BY <1>1 DEF ListInv, Chained
<1> HIDE DEF y
<1>4. y \in At(0) /\ (r = y \/ Before(y, r))
  BY <1>2, <1>3 DEF IsNext
<1>5. ~Before(r, y)
  BY <1>1, <1>4, NodesOrdered DEF ListInv
<1> QED
  BY <1>2, <1>4, <1>5 DEF y

\* Memtable.Iterator.
LEMMA IteratorStep == ASSUME IInv, NEW x \in Iters, Iterator(x) PROVE IInv'
<1> DEFINE first == forward[HeadNode][0]
           t == Lookup(-1, 0)
           met == IF first = Nil THEN <<>> ELSE <<first>>
<1>1. PICK s : s = [NoIter EXCEPT !.pc = "on", !.target = t, !.curr = first, !.before = Inserted, !.met = met]
  OBVIOUS
<1>2. ins.pc = "none" /\ it' = [it EXCEPT ![x] = s] /\ UNCHANGED <<forward, level, size, ins>>
  BY <1>1, Zenon DEF Iterator
<1>3. /\ s.pc = "on" /\ s.target = t /\ s.curr = first /\ s.before = Inserted /\ s.met = met
      /\ s = [pc |-> s.pc, target |-> s.target, lvl |-> s.lvl, at |-> s.at, curr |-> s.curr,
              before |-> s.before, met |-> s.met]
  BY <1>1 DEF NoIter
<1>4. t.key = -1 /\ t.seq = 0
  BY DEF Lookup
<1>5. Inserted \subseteq At(0) /\ At(0) \subseteq Nodes /\ 0 \in 0..MaxLevel - 1
  BY InsertedAt, NodeFacts DEF IInv, ListInv
<1>6. IsNext(HeadNode, 0, first)
  BY <1>5 DEF IInv, ListInv, Chained
<1> HIDE DEF first, t
<1>7. first \in At(0) \cup {Nil}
  BY <1>6 DEF IsNext
<1>8. ASSUME NEW r \in Inserted PROVE ~(first = Nil \/ Before(r, first))
  <2>1. r \in At(0) /\ After(HeadNode, r)
    BY <1>5 DEF After
  <2>2. first \in At(0) /\ (r = first \/ Before(first, r))
    BY <1>6, <2>1 DEF IsNext
  <2> QED
    BY <1>5, <2>1, <2>2, NodeFacts, NodesOrdered DEF IInv, ListInv
<1>9. first # Nil => Compare(first, t) >= 0
  <2> SUFFICES ASSUME first # Nil PROVE Compare(first, t) >= 0
    OBVIOUS
  <2>1. first.key \in Nat
    BY <1>5, <1>7 DEF IInv, ListInv, Shape
  <2> QED
    BY <1>4, <2>1 DEF Compare
<1>10. Passing(s)
  <2>1. CASE first = Nil
    <3>1. s.met = <<>> /\ s.curr = Nil
      BY <1>3, <2>1
    <3> QED
      BY <1>3, <1>8, <2>1, <3>1 DEF Passing
  <2>2. CASE first # Nil
    <3>1. s.met = <<first>> /\ s.curr = first /\ first \in At(0)
      BY <1>3, <1>7, <2>2
    <3>2. Len(s.met) = 1 /\ s.met[1] = first /\ s.met # <<>> /\ s.met \in Seq(At(0))
      BY <3>1
    <3>3. \A i, j \in 1..Len(s.met) : ~(i < j)
      BY <3>2
    <3>4. s.met[Len(s.met)] = s.curr
      BY <3>1, <3>2
    <3> QED
      BY <1>3, <1>8, <1>9, <2>2, <3>1, <3>2, <3>3, <3>4 DEF Passing
  <2> QED
    BY <2>1, <2>2
<1>11. Proper(s)
  BY <1>3, <1>4, <1>5, <1>10 DEF Proper, IterTypes
<1> QED
  BY <1>2, <1>11, IterStep

\* The beginning of Seek.
LEMMA SeekBeginStep == ASSUME IInv, NEW x \in Iters, NEW t \in Targets, SeekBegin(x, t) PROVE IInv'
<1>1. PICK s : s = [NoIter EXCEPT !.pc = "compare", !.target = t, !.lvl = level - 1, !.before = Inserted]
  OBVIOUS
<1>2. it' = [it EXCEPT ![x] = s] /\ UNCHANGED <<forward, level, size, ins>>
  BY <1>1, Zenon DEF SeekBegin
<1>3. IsKey(t) /\ level - 1 \in 0..MaxLevel - 1
  BY MemtableConstants DEF IsKey, IInv, ListInv, Shape
<1>4. Inserted \subseteq At(0)
  BY InsertedAt DEF IInv
<1>5. s = [pc |-> "compare", target |-> t, lvl |-> level - 1, at |-> HeadNode, curr |-> Nil,
           before |-> Inserted, met |-> <<>>]
  BY <1>1 DEF NoIter
<1>6. IterTypes(s) /\ s.pc = "compare"
  BY <1>3, <1>4, <1>5 DEF IterTypes, IsKey
<1>7. Seeking(s)
  BY <1>3, <1>5 DEF Seeking
<1> QED
  BY <1>2, <1>6, <1>7, IterStep DEF Proper

\* The state of a seeking iterator.
LEMMA SeekingNow ==
  ASSUME IInv, NEW x \in Iters, NEW s, s = it[x], s.pc \in {"compare", "move", "land"}
  PROVE  /\ IterTypes(s) /\ Seeking(s) /\ IsKey(s.target) /\ x \in DOMAIN it
         /\ s.at \in DOMAIN forward /\ IsNext(s.at, s.lvl, forward[s.at][s.lvl])
         /\ s = [pc |-> s.pc, target |-> s.target, lvl |-> s.lvl, at |-> s.at, curr |-> s.curr,
                 before |-> s.before, met |-> s.met]
<1>1. IterTypes(s) /\ Seeking(s) /\ x \in DOMAIN it
  BY DEF IInv, IterInv, Proper
<1>2. IsKey(s.target)
  BY <1>1 DEF IterTypes, IsKey
<1>3. s.at \in DOMAIN forward /\ IsNext(s.at, s.lvl, forward[s.at][s.lvl])
  BY <1>1 DEF Seeking, At, Nodes, IInv, ListInv, Shape, Chained
<1> QED
  BY <1>1, <1>2, <1>3 DEF IterTypes

\* Seek looks at the next node of its level.
LEMMA SeekCompareStep == ASSUME IInv, NEW x \in Iters, SeekCompare(x) PROVE IInv'
<1>1. PICK s : s = it[x]
  OBVIOUS
<1> DEFINE y == forward[s.at][s.lvl]
<1>2. /\ s.pc = "compare" /\ UNCHANGED <<forward, level, size, ins>>
      /\ it' = IF y # Nil /\ Compare(y, s.target) < 0
               THEN [it EXCEPT ![x].pc = "move"]
               ELSE IF s.lvl = 0 THEN [it EXCEPT ![x].pc = "land"]
               ELSE [it EXCEPT ![x].lvl = s.lvl - 1]
  BY <1>1 DEF SeekCompare
<1>3. /\ IterTypes(s) /\ Seeking(s) /\ IsKey(s.target) /\ x \in DOMAIN it /\ IsNext(s.at, s.lvl, y)
      /\ s = [pc |-> s.pc, target |-> s.target, lvl |-> s.lvl, at |-> s.at, curr |-> s.curr,
              before |-> s.before, met |-> s.met]
  BY <1>1, <1>2, SeekingNow
<1>4. CASE y # Nil /\ Compare(y, s.target) < 0
  <2>1. PICK t : t = [s EXCEPT !.pc = "move"]
    OBVIOUS
  <2>2. it' = [it EXCEPT ![x] = t]
    BY <1>1, <1>2, <1>4, <2>1
  <2>3. t = [pc |-> "move", target |-> s.target, lvl |-> s.lvl, at |-> s.at, curr |-> s.curr,
             before |-> s.before, met |-> s.met]
    BY <1>3, <2>1
  <2>4. Proper(t)
    BY <1>2, <1>3, <1>4, <2>3 DEF Proper, IterTypes, Seeking
  <2> QED
    BY <1>2, <2>2, <2>4, IterStep
<1>5. CASE ~(y # Nil /\ Compare(y, s.target) < 0) /\ s.lvl = 0
  <2>1. PICK t : t = [s EXCEPT !.pc = "land"]
    OBVIOUS
  <2>2. it' = [it EXCEPT ![x] = t]
    BY <1>1, <1>2, <1>5, <2>1
  <2>3. t = [pc |-> "land", target |-> s.target, lvl |-> s.lvl, at |-> s.at, curr |-> s.curr,
             before |-> s.before, met |-> s.met]
    BY <1>3, <2>1
  <2>4. ASSUME NEW r \in s.before, After(s.at, r) PROVE Compare(r, s.target) >= 0
    <3>1. r \in At(0) /\ At(0) \subseteq Nodes /\ Nil \notin Nodes
      BY <1>3, NodeFacts DEF IterTypes, IInv, ListInv
    <3> HIDE DEF y
    <3>2. y \in At(0) /\ (r = y \/ Before(y, r))
      BY <1>3, <1>5, <2>4, <3>1 DEF IsNext
    <3>3. IsKey(r) /\ IsKey(y) /\ y # Nil /\ Compare(y, s.target) \in Int
      BY <1>3, <3>1, <3>2, NodeFacts, CompareInt DEF IInv, ListInv
    <3>4. Compare(y, s.target) >= 0
      BY <1>5, <3>3
    <3> QED
      BY <1>3, <3>2, <3>3, <3>4, BeforeTarget
  <2>5. Proper(t)
    BY <1>2, <1>3, <1>5, <2>3, <2>4 DEF Proper, IterTypes, Seeking
  <2> QED
    BY <1>2, <2>2, <2>5, IterStep
<1>6. CASE ~(y # Nil /\ Compare(y, s.target) < 0) /\ s.lvl # 0
  <2>1. PICK t : t = [s EXCEPT !.lvl = s.lvl - 1]
    OBVIOUS
  <2>2. it' = [it EXCEPT ![x] = t]
    BY <1>1, <1>2, <1>6, <2>1
  <2>3. t = [pc |-> "compare", target |-> s.target, lvl |-> s.lvl - 1, at |-> s.at, curr |-> s.curr,
             before |-> s.before, met |-> s.met]
    BY <1>2, <1>3, <2>1
  <2>4. At(s.lvl) \subseteq At(s.lvl - 1) /\ s.lvl - 1 \in 0..MaxLevel - 1
    <3>1. s.lvl \in 0..MaxLevel - 1 /\ s.lvl > 0
      BY <1>3, <1>6 DEF Seeking
    <3> QED
      BY <3>1, AtBelow DEF IInv
  <2>5. Proper(t)
    BY <1>2, <1>3, <2>3, <2>4 DEF Proper, IterTypes, Seeking
  <2> QED
    BY <1>2, <2>2, <2>5, IterStep
<1> QED
  BY <1>4, <1>5, <1>6

\* Seek moves to the next node.
LEMMA SeekMoveStep == ASSUME IInv, NEW x \in Iters, SeekMove(x) PROVE IInv'
<1>1. PICK s : s = it[x]
  OBVIOUS
<1> DEFINE y == forward[s.at][s.lvl]
<1>2. /\ s.pc = "move" /\ UNCHANGED <<forward, level, size, ins>>
      /\ it' = [it EXCEPT ![x].pc = "compare", ![x].at = y]
  BY <1>1 DEF SeekMove
<1>3. /\ IterTypes(s) /\ Seeking(s) /\ x \in DOMAIN it /\ IsNext(s.at, s.lvl, y)
      /\ s = [pc |-> s.pc, target |-> s.target, lvl |-> s.lvl, at |-> s.at, curr |-> s.curr,
              before |-> s.before, met |-> s.met]
  BY <1>1, <1>2, SeekingNow
<1>4. y # Nil /\ Compare(y, s.target) < 0
  BY <1>2, <1>3 DEF Seeking
<1>5. y \in At(s.lvl)
  BY <1>3, <1>4 DEF IsNext
<1> HIDE DEF y
<1>6. PICK t : t = [s EXCEPT !.pc = "compare", !.at = y]
  OBVIOUS
<1>7. it' = [it EXCEPT ![x] = t]
  BY <1>1, <1>2, <1>6
<1>8. t = [pc |-> "compare", target |-> s.target, lvl |-> s.lvl, at |-> y, curr |-> s.curr,
           before |-> s.before, met |-> s.met]
  BY <1>3, <1>6
<1>9. Proper(t)
  BY <1>2, <1>3, <1>4, <1>5, <1>8 DEF Proper, IterTypes, Seeking
<1> QED
  BY <1>2, <1>7, <1>9, IterStep

\* What On does to the state of an iterator.
LEMMA OnState ==
  ASSUME IInv, NEW x \in Iters, NEW s, s = it[x], NEW node, On(x, node)
  PROVE  LET t == [pc |-> "on", target |-> s.target, lvl |-> s.lvl, at |-> s.at, curr |-> node,
                   before |-> s.before, met |-> IF node = Nil THEN s.met ELSE Append(s.met, node)]
         IN it' = [it EXCEPT ![x] = t]
<1> DEFINE met == IF node = Nil THEN s.met ELSE Append(s.met, node)
<1>1. it' = [it EXCEPT ![x].pc = "on", ![x].curr = node, ![x].met = met] /\ x \in DOMAIN it
  BY DEF On, IInv, IterInv
<1> HIDE DEF met
<1>2. s = [pc |-> s.pc, target |-> s.target, lvl |-> s.lvl, at |-> s.at, curr |-> s.curr,
           before |-> s.before, met |-> s.met]
  BY DEF IInv, IterInv, Proper, IterTypes
<1>3. PICK t : t = [s EXCEPT !.pc = "on", !.curr = node, !.met = met]
  OBVIOUS
<1>4. it' = [it EXCEPT ![x] = t]
  BY <1>1, <1>3
<1>5. t = [pc |-> "on", target |-> s.target, lvl |-> s.lvl, at |-> s.at, curr |-> node,
           before |-> s.before, met |-> met]
  BY <1>2, <1>3
<1> QED
  BY <1>4, <1>5 DEF met

\* Seek lands.
LEMMA SeekLandStep == ASSUME IInv, NEW x \in Iters, SeekLand(x) PROVE IInv'
<1>1. PICK s : s = it[x]
  OBVIOUS
<1>2. PICK y : y = forward[s.at][0]
  OBVIOUS
<1>3. s.pc = "land" /\ UNCHANGED <<forward, level, size, ins>> /\ On(x, y)
  BY <1>1, <1>2 DEF SeekLand
<1>4. IterTypes(s) /\ Seeking(s) /\ IsKey(s.target) /\ s.lvl = 0 /\ IsNext(s.at, 0, y)
  <2>1. IterTypes(s) /\ Seeking(s) /\ IsKey(s.target) /\ IsNext(s.at, s.lvl, forward[s.at][s.lvl])
    BY <1>1, <1>3, SeekingNow
  <2>2. s.lvl = 0
    BY <1>3, <2>1 DEF Seeking
  <2> QED
    BY <1>2, <2>1, <2>2
<1>5. /\ s.at \in At(0) \cup {HeadNode} /\ (s.at = HeadNode \/ Compare(s.at, s.target) < 0)
      /\ s.met = <<>> /\ \A r \in s.before : After(s.at, r) => Compare(r, s.target) >= 0
  BY <1>3, <1>4 DEF Seeking
<1>6. At(0) \subseteq Nodes /\ Nil \notin Nodes /\ s.before \subseteq At(0)
  BY <1>4, NodeFacts DEF IterTypes, IInv, ListInv
<1>7. ASSUME NEW r \in s.before, Compare(r, s.target) >= 0 PROVE ~(y = Nil \/ Before(r, y))
  BY <1>2, <1>4, <1>5, <1>6, <1>7, Landing DEF IInv
<1>8. y = Nil \/ (y \in At(0) /\ y # Nil /\ After(s.at, y))
  BY <1>4, <1>6 DEF IsNext
<1> DEFINE met == IF y = Nil THEN <<>> ELSE <<y>>
<1>9. PICK t : t = [pc |-> "on", target |-> s.target, lvl |-> s.lvl, at |-> s.at, curr |-> y,
                    before |-> s.before, met |-> met]
  OBVIOUS
<1>10. it' = [it EXCEPT ![x] = t]
  <2>1. met = IF y = Nil THEN s.met ELSE Append(s.met, y)
    BY <1>5
  <2> HIDE DEF met
  <2>2. t = [pc |-> "on", target |-> s.target, lvl |-> s.lvl, at |-> s.at, curr |-> y,
             before |-> s.before, met |-> IF y = Nil THEN s.met ELSE Append(s.met, y)]
    BY <1>9, <2>1, Zenon
  <2> QED
    BY <1>1, <1>3, <2>2, OnState
<1>11. Passing(t)
  <2>1. t.curr = y /\ t.met = met /\ t.before = s.before /\ t.target = s.target
    BY <1>9
  <2>2. CASE y = Nil
    <3>1. t.met = <<>>
      BY <2>1, <2>2
    <3> QED
      BY <1>7, <2>1, <2>2, <3>1 DEF Passing
  <2>3. CASE y # Nil
    <3>1. t.met = <<y>> /\ y \in At(0)
      BY <1>8, <2>1, <2>3
    <3>2. Len(t.met) = 1 /\ t.met[1] = y /\ t.met # <<>> /\ t.met \in Seq(At(0))
      BY <3>1
    <3>3. \A i, j \in 1..Len(t.met) : ~(i < j)
      BY <3>2
    <3>4. Compare(y, t.target) >= 0 \/ y \notin t.before
      BY <1>5, <1>8, <2>1, <2>3
    <3>5. t.met[Len(t.met)] = t.curr
      BY <2>1, <3>2
    <3> QED
      BY <1>7, <2>1, <2>3, <3>1, <3>2, <3>3, <3>4, <3>5 DEF Passing
  <2> QED
    BY <2>2, <2>3
<1>12. Proper(t)
  BY <1>4, <1>9, <1>11 DEF Proper, IterTypes, IsKey
<1> QED
  BY <1>3, <1>10, <1>12, IterStep

\* MemtableIterator.Next.
LEMMA IterNextStep == ASSUME IInv, NEW x \in Iters, IterNext(x) PROVE IInv'
<1>1. PICK s : s = it[x]
  OBVIOUS
<1>2. PICK y : y = forward[s.curr][0]
  OBVIOUS
<1>3. s.pc = "on" /\ s.curr # Nil /\ UNCHANGED <<forward, level, size, ins>> /\ On(x, y)
  BY <1>1, <1>2 DEF IterNext
<1>4. IterTypes(s) /\ Passing(s)
  BY <1>1, <1>3 DEF IInv, IterInv, Proper
<1>5. /\ s.curr \in At(0) /\ s.met \in Seq(At(0)) /\ s.met # <<>> /\ s.met[Len(s.met)] = s.curr
      /\ \A i, j \in 1..Len(s.met) : i < j => Before(s.met[i], s.met[j])
      /\ \A r \in s.before : Compare(r, s.target) >= 0 /\ Before(r, s.curr) => r \in ToSet(s.met)
      /\ Compare(s.met[1], s.target) >= 0 \/ s.met[1] \notin s.before
  BY <1>3, <1>4 DEF Passing
<1>6. /\ At(0) \subseteq Nodes /\ Nil \notin Nodes /\ HeadNode \notin Nodes /\ s.before \subseteq At(0)
      /\ 0 \in 0..MaxLevel - 1
  BY <1>4, NodeFacts DEF IterTypes, IInv, ListInv
<1>7. IsNext(s.curr, 0, y)
  BY <1>2, <1>5, <1>6 DEF IInv, ListInv, Chained
<1>8. y = Nil \/ (y \in At(0) /\ y # Nil /\ Before(s.curr, y))
  BY <1>5, <1>6, <1>7 DEF IsNext, After
<1>9. /\ s.curr \in ToSet(s.met) /\ Len(s.met) \in Nat \ {0}
      /\ \A i \in 1..Len(s.met) : s.met[i] \in At(0)
  BY <1>5 DEF ToSet
<1>10. ASSUME NEW r \in s.before, Compare(r, s.target) >= 0, y = Nil \/ Before(r, y)
       PROVE  r \in ToSet(s.met)
  <2>1. CASE r = s.curr
    BY <1>9, <2>1
  <2>2. CASE Before(r, s.curr)
    BY <1>5, <1>10, <2>2
  <2>3. CASE Before(s.curr, r)
    <3>1. y # Nil /\ (r = y \/ Before(y, r))
      BY <1>6, <1>7, <2>3 DEF IsNext, After
    <3>2. y \in Nodes /\ r \in Nodes /\ Before(r, y)
      BY <1>6, <1>8, <1>10, <3>1
    <3> QED
      BY <3>1, <3>2, NodesOrdered DEF IInv, ListInv
  <2> QED
    BY <1>5, <1>6, <2>1, <2>2, <2>3, NodesOrdered DEF IInv, ListInv
<1> DEFINE met == IF y = Nil THEN s.met ELSE Append(s.met, y)
<1>11. PICK t : t = [pc |-> "on", target |-> s.target, lvl |-> s.lvl, at |-> s.at, curr |-> y,
                     before |-> s.before, met |-> met]
  OBVIOUS
<1>12. it' = [it EXCEPT ![x] = t]
  BY <1>1, <1>3, <1>11, OnState
<1>13. t.curr = y /\ t.met = met /\ t.before = s.before /\ t.target = s.target /\ t.pc = "on"
  BY <1>11
<1>14. CASE y = Nil
  <2>1. t.met = s.met
    BY <1>13, <1>14
  <2>2. Passing(t)
    BY <1>5, <1>10, <1>13, <1>14, <2>1 DEF Passing
  <2>3. Proper(t)
    BY <1>4, <1>3, <1>11, <2>2 DEF Proper, IterTypes
  <2> QED
    BY <1>3, <1>12, <2>3, IterStep
<1>15. CASE y # Nil
  <2>1. t.met = Append(s.met, y) /\ y \in At(0) /\ Before(s.curr, y)
    BY <1>8, <1>13, <1>15
  <2>2. /\ Len(t.met) = Len(s.met) + 1 /\ t.met[Len(t.met)] = y
        /\ t.met \in Seq(At(0)) /\ t.met # <<>>
        /\ \A i \in 1..Len(s.met) : t.met[i] = s.met[i]
    BY <1>5, <1>9, <2>1
  <2>3. ASSUME NEW i \in 1..Len(s.met) PROVE Before(s.met[i], y)
    <3>1. CASE i = Len(s.met)
      BY <1>5, <2>1, <3>1
    <3>2. CASE i < Len(s.met)
      <4>1. Before(s.met[i], s.curr)
        BY <1>5, <1>9, <3>2
      <4> QED
        BY <1>5, <1>6, <1>9, <2>1, <4>1, NodesOrdered DEF IInv, ListInv
    <3> QED
      BY <1>9, <3>1, <3>2
  <2>4. ASSUME NEW i \in 1..Len(t.met), NEW j \in 1..Len(t.met), i < j
        PROVE  Before(t.met[i], t.met[j])
    <3>1. i \in 1..Len(s.met)
      BY <1>9, <2>2, <2>4
    <3>2. CASE j \in 1..Len(s.met)
      BY <1>5, <2>2, <2>4, <3>1, <3>2
    <3>3. CASE j = Len(t.met)
      BY <2>2, <2>3, <3>1, <3>3
    <3> QED
      BY <1>9, <2>2, <3>2, <3>3
  <2>5. ToSet(s.met) \subseteq ToSet(t.met)
    <3>1. DOMAIN s.met = 1..Len(s.met) /\ DOMAIN t.met = 1..Len(t.met)
      BY <1>5, <2>2
    <3> QED
      BY <1>9, <2>2, <3>1 DEF ToSet
  <2>6. t.met[1] = s.met[1]
    BY <1>9, <2>2
  <2>7. /\ t.curr \in At(0) \cup {Nil} /\ t.met[Len(t.met)] = t.curr
        /\ \A r \in t.before : Compare(r, t.target) >= 0 /\ (t.curr = Nil \/ Before(r, t.curr)) => r \in ToSet(t.met)
        /\ Compare(t.met[1], t.target) >= 0 \/ t.met[1] \notin t.before
    BY <1>5, <1>10, <1>13, <2>1, <2>2, <2>5, <2>6
  <2>8. Passing(t)
    BY <2>2, <2>4, <2>7 DEF Passing
  <2>9. Proper(t)
    BY <1>3, <1>4, <1>11, <2>8 DEF Proper, IterTypes
  <2> QED
    BY <1>3, <1>12, <2>9, IterStep
<1> QED
  BY <1>14, <1>15

----------------------------------------------------------------------------
\* No iterator yet.
LEMMA IterInit == Init => IterInv
<1> SUFFICES ASSUME Init PROVE IterInv
  OBVIOUS
<1>1. it = [x \in Iters |-> NoIter]
  BY DEF Init
<1>2. PICK s : s = NoIter
  OBVIOUS
<1>3. s = [pc |-> "none", target |-> Nil, lvl |-> 0, at |-> HeadNode, curr |-> Nil, before |-> {}, met |-> <<>>]
  BY <1>2 DEF NoIter
<1>4. Proper(s)
  BY <1>3 DEF Proper, IterTypes
<1> QED
  BY <1>1, <1>2, <1>4 DEF IterInv

\* Every step.
LEMMA NextStep == IInv /\ [Next]_vars => IInv'
<1> SUFFICES ASSUME IInv, [Next]_vars PROVE IInv'
  OBVIOUS
<1>1. ASSUME NEW k \in IKeys, Insert(k) PROVE IInv'
  BY <1>1, InsertStep, InsertIter DEF IInv
<1>2. CASE Link
  BY <1>2, LinkStep, LinkIter DEF IInv
<1>3. ASSUME NEW x \in Iters,
             \/ Iterator(x) \/ SeekCompare(x) \/ SeekMove(x) \/ SeekLand(x) \/ IterNext(x)
             \/ \E t \in Targets : SeekBegin(x, t)
      PROVE  IInv'
  BY <1>3, IteratorStep, SeekCompareStep, SeekMoveStep, SeekLandStep, IterNextStep, SeekBeginStep
<1>4. CASE UNCHANGED vars
  <2>1. UNCHANGED <<forward, level, size, ins>> /\ it' = it
    BY <1>4 DEF vars
  <2>2. ListInv' /\ \A i : At(i)' = At(i)
    BY <2>1, ListSame DEF IInv
  <2>3. ASSUME NEW x \in Iters PROVE Proper(it[x])'
    <3>1. PICK s : s = it[x]
      OBVIOUS
    <3>2. Proper(s) /\ it'[x] = s
      BY <2>1, <3>1 DEF IInv, IterInv
    <3>3. s.pc = "move" => forward'[s.at][s.lvl] # Nil /\ Compare(forward'[s.at][s.lvl], s.target) < 0
      BY <2>1, <3>2 DEF Proper, Seeking
    <3>4. Proper(s)'
      BY <2>2, <3>2, <3>3, StaysProper DEF IInv
    <3> QED
      BY <3>2, <3>4, ProperNext
  <2> QED
    BY <2>1, <2>2, <2>3 DEF IInv, IterInv
<1> QED
  BY <1>1, <1>2, <1>3, <1>4 DEF Next

\* At every moment each level of the list, as far as it is linked, is the ordered list of
\* its nodes, and every iterator is where a node can still be found from: this holds
\* for every order of the stores of an insert and of the loads of the iterators.
THEOREM MemtableInvariant == Spec => []IInv
<1>1. Init => IInv
  BY ListInit, IterInit DEF IInv
<1> QED
  BY <1>1, NextStep, PTL DEF Spec

\* LevelsNested: Skiplist.insert links from the bottom, so that a level leads only to
\* nodes that the level below has, in order, at every moment an iterator may look.
THEOREM LevelsNestedHolds == Spec => []LevelsNested
<1>1. IInv => LevelsNested
  BY ListNested DEF IInv
<1> QED
  BY <1>1, MemtableInvariant, PTL

\* SearchCorrect: Skiplist.search finds through the levels the first record at or after
\* the lookup key, and the size is the number of the records.
THEOREM SearchCorrectHolds == Spec => []SearchCorrect
<1>1. IInv => SearchCorrect
  BY ListSearch DEF IInv
<1> QED
  BY <1>1, MemtableInvariant, PTL

\* IterComplete: an iterator that takes no lock leaves out no record that was there when
\* its Seek was called, and meets what it meets in order.
THEOREM IterCompleteHolds == Spec => []IterComplete
<1>1. IInv => IterComplete
  BY DEF IInv, IterInv, Proper, Passing, IterComplete
<1> QED
  BY <1>1, MemtableInvariant, PTL
=============================================================================
