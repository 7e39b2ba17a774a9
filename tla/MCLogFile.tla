----------------------------- MODULE MCLogFile -----------------------------
(***************************************************************************)
(* Values for the constants of LogFile in the TLC configuration.           *)
(***************************************************************************)
EXTENDS LogFile

Rec(k, s, d, v) == [key |-> k, seq |-> s, del |-> d, val |-> v]
\* A put, a batch of a delete and a put, a put of an empty value.
SmallRequests ==
  <<<<Rec(1, 1, FALSE, 9)>>, <<Rec(2, 2, TRUE, 0), Rec(1, 3, FALSE, 7)>>, <<Rec(3, 4, FALSE, 0)>>>>
=============================================================================
