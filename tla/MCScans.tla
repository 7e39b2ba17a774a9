------------------------------- MODULE MCScans -------------------------------
(***************************************************************************)
(* Values for the constants of Scans in the TLC configuration.             *)
(***************************************************************************)
EXTENDS Scans

SharedKeys == [c \in Clients |-> Keys]
\* All keys, and all but the first.
SmallRanges == {<<1, 4>>, <<2, 3>>}
=============================================================================
