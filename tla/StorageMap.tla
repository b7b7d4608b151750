----------------------------- MODULE StorageMap -----------------------------
(***************************************************************************)
(* What a Storage of the SDK promises (the Protocol in storage.py): a map  *)
(* from keys to values in which set and delete take effect at once.        *)
(* FileStorage implements it for the threads of one process.               *)
(***************************************************************************)
CONSTANTS Keys, Values, NoValue

VARIABLE map

Init == map = [k \in Keys |-> NoValue]

Set(k, v) == map' = [map EXCEPT ![k] = v]
Delete(k) == map' = [map EXCEPT ![k] = NoValue]

Next == \E k \in Keys : Delete(k) \/ \E v \in Values : Set(k, v)

Spec == Init /\ [][Next]_map
=============================================================================
