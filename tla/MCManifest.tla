----------------------------- MODULE MCManifest -----------------------------
(***************************************************************************)
(* Values for the constants of Manifest in the TLC configuration.          *)
(***************************************************************************)
EXTENDS Manifest

T(level, num, min, max) ==
  [level |-> level, num |-> num, size |-> 9, min |-> Lookup(min, 2), max |-> Lookup(max, 1)]

\* Two flushes, a compaction of the second table, whose number has two bytes and
\* the first table's number for its low byte, and a flush.
SmallEdits ==
  <<[NoEdit EXCEPT !.adds = <<T(0, 1, 1, 2)>>, !.log = {2}, !.lastSeq = {2}, !.next = {3}],
    [NoEdit EXCEPT !.adds = <<T(0, 257, 5, 6)>>, !.log = {3}, !.lastSeq = {4}, !.next = {258}],
    [NoEdit EXCEPT !.adds = <<T(1, 258, 5, 5), T(1, 259, 6, 6)>>, !.dels = {<<0, 257>>}, !.next = {260}],
    [NoEdit EXCEPT !.adds = <<T(0, 260, 1, 1)>>, !.log = {4}, !.lastSeq = {5}, !.next = {261}]>>
=============================================================================
