------------------------------- MODULE KVStore -------------------------------
(***************************************************************************)
(* What a key-value store promises: a dictionary that changes by writes    *)
(* only.  An entry is the set of the values its key has, at most one.      *)
(***************************************************************************)
CONSTANTS Keys, Values

VARIABLE dict

Init == dict = [k \in Keys |-> {}]

Put(k, v) == dict' = [dict EXCEPT ![k] = {v}]
Delete(k) == dict' = [dict EXCEPT ![k] = {}]

Next == \E k \in Keys : Delete(k) \/ \E v \in Values : Put(k, v)

Spec == Init /\ [][Next]_dict
=============================================================================
