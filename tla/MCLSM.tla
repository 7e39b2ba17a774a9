-------------------------------- MODULE MCLSM --------------------------------
(***************************************************************************)
(* A small instance of LSM: three keys, so that a table can lie between    *)
(* two others, and a second version of two of them, of either kind.        *)
(***************************************************************************)
EXTENDS LSM

SmallRecords ==
  [key : 1..3, seq : {1}, del : {FALSE}] \cup [key : 1..2, seq : {2}, del : BOOLEAN]
=============================================================================
