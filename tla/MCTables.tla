------------------------------ MODULE MCTables ------------------------------
(***************************************************************************)
(* Values for the constants of Tables in the TLC configuration.            *)
(***************************************************************************)
EXTENDS Tables

Rec(k, s, d, v) == [key |-> k, seq |-> s, del |-> d, val |-> v]

\* Two tables of two and of three blocks; key 3 has versions in two blocks.
SmallTables ==
  [f \in Files |->
     IF f = Min(Files)
     THEN <<Rec(1, 4, FALSE, 1), Rec(3, 7, TRUE, 0), Rec(3, 5, FALSE, 2), Rec(3, 2, FALSE, 3)>>
     ELSE <<Rec(2, 6, FALSE, 4), Rec(2, 1, FALSE, 5), Rec(3, 9, FALSE, 6), Rec(4, 3, TRUE, 0), Rec(6, 8, FALSE, 0)>>]

\* Key 2 passes the filter of the first table and key 5 that of the second, without
\* being there.
SmallHash1 == (1 :> 0) @@ (2 :> 0) @@ (3 :> 1) @@ (4 :> 5) @@ (5 :> 1) @@ (6 :> 6)
SmallHash2 == (1 :> 3) @@ (2 :> 4) @@ (3 :> 3) @@ (4 :> 2) @@ (5 :> 6) @@ (6 :> 3)

\* Newest versions, versions of snapshots, keys between the others.
SmallLookups ==
  {Lookup(2, MaxUint64), Lookup(3, MaxUint64), Lookup(3, 7), Lookup(3, 1), Lookup(5, 9)}
=============================================================================
