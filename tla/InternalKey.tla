---------------------------- MODULE InternalKey ----------------------------
(***************************************************************************)
(* Records and the order of their internal keys (internal/record).         *)
(*                                                                         *)
(* A record is [key, seq, del, val]: a user key, the sequence number the   *)
(* engine gave the write, whether it is a tombstone (TypeDel), and the     *)
(* value.  Keys are integers, their order is bytes.Compare.  A value is    *)
(* the identity of the write that produced it: the engine numbers writes   *)
(* 1, 2, ..., so that two writes are never confused, not even when a       *)
(* sequence number is used twice.                                          *)
(***************************************************************************)
EXTENDS Integers, FiniteSets

\* math.MaxUint64, the sequence number of a read that is not a snapshot read:
\* any number above every sequence number of the model.
MaxUint64 == 1000000

Lookup(k, s) == [key |-> k, seq |-> s]

\* Mutant: sequence numbers ascending.
CompareAscending(a, b) == IF a.key # b.key THEN a.key - b.key ELSE a.seq - b.seq

\* InternalKey.Compare: user keys ascending, then sequence numbers descending.
\* Negative, zero or positive, as in the code.
Compare(a, b) == IF a.key # b.key THEN a.key - b.key ELSE b.seq - a.seq

\* The record of a non-empty set of records that an ordered scan of them meets
\* first, and the one it meets last.  Of two records with equal internal keys
\* the younger comes first: the skiplist inserts a node in front of its equals.
FirstOf(S) == CHOOSE r \in S : \A q \in S \ {r} :
                 Compare(r, q) < 0 \/ (Compare(r, q) = 0 /\ r.val > q.val)
LastOf(S)  == CHOOSE r \in S : \A q \in S \ {r} :
                 Compare(r, q) > 0 \/ (Compare(r, q) = 0 /\ r.val < q.val)

\* Skiplist.search and TableReader.Get: the first record at or after the lookup
\* key in internal-key order, provided it is of the same user key.  The result
\* is a set of at most one record; a tombstone is a result.
Search(S, lookup) ==
  LET after == {r \in S : Compare(r, lookup) >= 0}
  IN IF after = {} THEN {} ELSE {r \in {FirstOf(after)} : r.key = lookup.key}

\* What the caller of Get sees of a search result: a tombstone is "not found".
UserView(res) == {r \in res : ~r.del}
=============================================================================
