----------------------------- MODULE MCMemtable -----------------------------
(***************************************************************************)
(* Values for the constants of Memtable in the TLC configuration.          *)
(***************************************************************************)
EXTENDS Memtable

\* Two keys, and two versions of one of them.
SmallIKeys   == {Lookup(1, 1), Lookup(2, 2), Lookup(2, 3)}
\* Before, at, between and after the versions of a key.
SmallTargets == {Lookup(2, MaxUint64), Lookup(2, 2), Lookup(3, 4)}
=============================================================================
