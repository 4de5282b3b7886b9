----------------------------- MODULE Dictionary -----------------------------
(***************************************************************************)
(* What a map of the language promises: a partial function from keys to    *)
(* values, with assignment and removal. None stands for a missing key.     *)
(***************************************************************************)
CONSTANTS DKeys, DValues, None

VARIABLE dict

DInit == dict = [k \in DKeys |-> None]

Assign(k, v) == dict' = [dict EXCEPT ![k] = v]
Forget(k)    == dict' = [dict EXCEPT ![k] = None]

DNext == \E k \in DKeys : Forget(k) \/ \E v \in DValues : Assign(k, v)

DSpec == DInit /\ [][DNext]_dict
=============================================================================
