------------------------------ MODULE Memtable ------------------------------
(***************************************************************************)
(* internal/memtable: the skiplist, the inserts that Memtable.Put makes    *)
(* under Memtable.mu, and the iterators, which walk the list without the   *)
(* lock.  One step is one load or one store of a forward pointer that the  *)
(* other side can see (a pointer is loaded and stored whole); what an      *)
(* insert does before its first store only it can see.                     *)
(*                                                                         *)
(* A node is its record, numbered in the order of the Puts.  Two records   *)
(* may have equal internal keys, as after a restart that hands out a       *)
(* sequence number again.                                                  *)
(***************************************************************************)
EXTENDS InternalKey, Sequences, FiniteSetsExt, SequencesExt

CONSTANTS
  IKeys,       \* the internal keys that are put
  MaxPuts,     \* bound of the model: the number of Puts
  Targets,     \* lookup keys of reads and of Seek
  MaxLevel,    \* SkiplistMaxLevel
  Iters        \* iterators in use at the same time

ASSUME MemtableConstants ==
  /\ MaxLevel \in Nat \ {0} /\ MaxPuts \in Nat
  /\ \A k \in IKeys \cup Targets : k.key \in Nat /\ k.seq \in Nat

VARIABLES
  forward,     \* [node or HeadNode -> [0..its height - 1 -> node or Nil]]
  level,       \* Skiplist.level
  size,        \* Memtable.size, in records
  ins,         \* the insert in progress: [new, update, i] or NoInsert
  it           \* the iterators

vars == <<forward, level, size, ins, it>>

HeadNode == [key |-> -1, seq |-> 0, del |-> FALSE, val |-> 0]
Nil  == [key |-> -2, seq |-> 0, del |-> FALSE, val |-> 0]
NoInsert == [pc |-> "none"]

\* The records an insert has linked, at the bottom level at least, and those whose
\* Put has returned.
Linked == DOMAIN forward \ ({HeadNode} \cup (IF ins.pc = "link" /\ ins.i = 0 THEN {ins.new} ELSE {}))
Inserted == Linked \ (IF ins.pc = "link" THEN {ins.new} ELSE {})

\* An iterator: pc, the level and the node its Seek has reached (lvl, at), the node
\* it is on, and the history of what was in the list when Seek began and what it met.
NoIter == [pc |-> "none", target |-> Nil, lvl |-> 0, at |-> HeadNode, curr |-> Nil,
           before |-> {}, met |-> <<>>]

Init ==
  /\ forward = [n \in {HeadNode} |-> [i \in 0..MaxLevel - 1 |-> Nil]]
  /\ level = 1 /\ size = 0
  /\ ins = NoInsert
  /\ it = [x \in Iters |-> NoIter]

----------------------------------------------------------------------------
\* The nodes that are high enough for a level.
OnLevel(i) == {n \in DOMAIN forward : i \in DOMAIN forward[n]}

\* Mutant: the walk goes past the nodes equal to the target.
AlongPastEquals(i, target) ==
  LET to[n \in OnLevel(i)] ==
        LET next == forward[n][i]
        IN IF next # Nil /\ Compare(next, target) <= 0 THEN to[next] ELSE n
  IN to

\* On level i, from each of its nodes: the last node before the target's key.
Along(i, target) ==
  LET to[n \in OnLevel(i)] ==
        LET next == forward[n][i]
        IN IF next # Nil /\ Compare(next, target) < 0 THEN to[next] ELSE n
  IN to

\* The walk of insert, search and Seek on an unchanging list: along each level, from
\* the top one down.  It gives the node it leaves each level at.
Walk(target) ==
  LET path[i \in 0..level] == IF i = level THEN HeadNode ELSE Along(i, target)[path[i + 1]]
  IN path

\* Skiplist.search, under the read lock: what the walk finds, if it is of the user key.
search(target) ==
  LET node == forward[Walk(target)[0]][0]
  IN IF node # Nil /\ node.key = target.key THEN {node} ELSE {}

\* Memtable.Put takes Memtable.mu; Skiplist.insert finds the predecessors, draws the
\* height and raises the list's level, which iterators may read from here on.
Insert(k) ==
  \E lvl \in 1..MaxLevel :
    LET r    == [key |-> k.key, seq |-> k.seq, del |-> FALSE, val |-> size + 1]
        walk == Walk(r)
    IN /\ ins.pc = "none" /\ size < MaxPuts
       /\ ins' = [pc |-> "link", new |-> r, i |-> 0,
                  update |-> [i \in 0..lvl - 1 |-> IF i < level THEN walk[i] ELSE HeadNode]]
       /\ level' = Max({level, lvl})
       /\ forward' = [n \in DOMAIN forward \cup {r} |->
                        IF n = r THEN [i \in 0..lvl - 1 |-> Nil] ELSE forward[n]]
       /\ UNCHANGED <<size, it>>

\* Mutant: the top level is linked first.
LinkFromTop ==
  LET n == ins.new
      i == Max(DOMAIN ins.update) - ins.i
      u == ins.update[i]
  IN /\ ins.pc = "link"
     /\ forward' = [forward EXCEPT ![n][i] = forward[u][i], ![u][i] = n]
     /\ IF ins.i + 1 \in DOMAIN ins.update
        THEN ins' = [ins EXCEPT !.i = @ + 1] /\ UNCHANGED size
        ELSE ins' = NoInsert /\ size' = size + 1
     /\ UNCHANGED <<level, it>>

\* The new node is linked, level by level from the bottom; after the last one Put
\* adds to the size and unlocks.
Link ==
  LET n == ins.new
      i == ins.i
      u == ins.update[i]
  IN /\ ins.pc = "link"
     /\ forward' = [forward EXCEPT ![n][i] = forward[u][i], ![u][i] = n]
     /\ IF i + 1 \in DOMAIN ins.update
        THEN ins' = [ins EXCEPT !.i = i + 1] /\ UNCHANGED size
        ELSE ins' = NoInsert /\ size' = size + 1
     /\ UNCHANGED <<level, it>>

----------------------------------------------------------------------------
\* The iterator x comes to stand on a node, or on none.
On(x, node) ==
  it' = [it EXCEPT ![x].pc = "on", ![x].curr = node,
                   ![x].met = IF node = Nil THEN @ ELSE Append(@, node)]

\* Memtable.Iterator: made under the lock, on the first node.  This is the iterator
\* of a flush, and the one a scan goes on to Seek with.
Iterator(x) ==
  /\ it[x].pc = "none" /\ ins.pc = "none"
  /\ LET first == forward[HeadNode][0]
     IN it' = [it EXCEPT ![x] = [NoIter EXCEPT
                 !.pc = "on", !.target = Lookup(-1, 0), !.curr = first, !.before = Inserted,
                 !.met = IF first = Nil THEN <<>> ELSE <<first>>]]
  /\ UNCHANGED <<forward, level, size, ins>>

\* MemtableIterator.Seek, without the lock: the list's level is read ...
SeekBegin(x, target) ==
  /\ it[x].pc = "on"
  /\ it' = [it EXCEPT ![x] = [NoIter EXCEPT !.pc = "compare", !.target = target,
                                            !.lvl = level - 1, !.before = Inserted]]
  /\ UNCHANGED <<forward, level, size, ins>>

\* ... the next node of the level is looked at ...
SeekCompare(x) ==
  LET i == it[x].lvl
      next == forward[it[x].at][i]
  IN /\ it[x].pc = "compare"
     /\ it' = IF next # Nil /\ Compare(next, it[x].target) < 0
              THEN [it EXCEPT ![x].pc = "move"]
              ELSE IF i = 0 THEN [it EXCEPT ![x].pc = "land"]
              ELSE [it EXCEPT ![x].lvl = i - 1]
     /\ UNCHANGED <<forward, level, size, ins>>

\* ... the pointer is read again to move there ...
SeekMove(x) ==
  /\ it[x].pc = "move"
  /\ it' = [it EXCEPT ![x].pc = "compare", ![x].at = forward[@][it[x].lvl]]
  /\ UNCHANGED <<forward, level, size, ins>>

\* Mutant: the iterator stays on the last node before the target.
LandOnPredecessor(x) ==
  /\ it[x].pc = "land"
  /\ On(x, IF it[x].at = HeadNode THEN forward[HeadNode][0] ELSE it[x].at)
  /\ UNCHANGED <<forward, level, size, ins>>

\* ... and once more at the end, to stand on the node after it.
SeekLand(x) ==
  /\ it[x].pc = "land"
  /\ On(x, forward[it[x].at][0])
  /\ UNCHANGED <<forward, level, size, ins>>

\* MemtableIterator.Next.
IterNext(x) ==
  /\ it[x].pc = "on" /\ it[x].curr # Nil
  /\ On(x, forward[it[x].curr][0])
  /\ UNCHANGED <<forward, level, size, ins>>

Next ==
  \/ \E k \in IKeys : Insert(k)
  \/ Link
  \/ \E x \in Iters : \/ Iterator(x) \/ SeekCompare(x) \/ SeekMove(x) \/ SeekLand(x) \/ IterNext(x)
                      \/ \E t \in Targets : SeekBegin(x, t)

Spec == Init /\ [][Next]_vars

----------------------------------------------------------------------------
\* r comes before q in the list: by internal key, the younger of equals first.
Before(r, q) == Compare(r, q) < 0 \/ (Compare(r, q) = 0 /\ r.val > q.val)

\* At every moment, also between the stores of an insert, every level of the list is
\* in order, and a node that a level leads to is on the level below: a walk without
\* the lock can step down anywhere and never meets a node twice.
LevelsNested ==
  \A n \in DOMAIN forward : \A i \in DOMAIN forward[n] :
    LET next == forward[n][i]
    IN n \in Linked \cup {HeadNode} /\ next # Nil =>
         /\ n = HeadNode \/ Before(n, next)
         /\ i > 0 => \E m \in DOMAIN forward : i - 1 \in DOMAIN forward[m] /\ forward[m][i - 1] = next

\* Memtable.Get finds, through the levels, the record that a search of the set of
\* records finds, and the size that IsFull compares with the limit counts them all:
\* the memtable of the engine's model is that set.
SearchCorrect ==
  ins.pc = "none" =>
    /\ size = Cardinality(Inserted)
    /\ \A t \in Targets : search(t) = Search(Inserted, t)

\* An iterator passes every record whose Put had returned when Seek was called, from
\* the target to where it stands, in order, whatever is inserted meanwhile; and it
\* begins before the target only on a record that was inserted while Seek ran.
IterComplete ==
  \A x \in Iters : it[x].pc = "on" =>
    /\ \A i, j \in 1..Len(it[x].met) : i < j => Before(it[x].met[i], it[x].met[j])
    /\ \A r \in it[x].before :
         Compare(r, it[x].target) >= 0 /\ (it[x].curr = Nil \/ Before(r, it[x].curr)) =>
           r \in ToSet(it[x].met)
    /\ it[x].met # <<>> =>
         Compare(it[x].met[1], it[x].target) >= 0 \/ it[x].met[1] \notin it[x].before

\* Seek ends at or after its target.
SeekAtTarget ==
  \A x \in Iters : it[x].pc = "on" /\ it[x].met # <<>> =>
    Compare(it[x].met[1], it[x].target) >= 0
=============================================================================
