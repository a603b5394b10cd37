-------------------------------- MODULE KeySet --------------------------------
(***************************************************************************)
(* What the sorting test's tree promises: a set of keys.  insert of a key  *)
(* that is there takes it out, so that a stream of random keys keeps the   *)
(* tree from growing; delete of one that is not there does nothing.        *)
(***************************************************************************)
CONSTANT Keys
VARIABLE keys

Init == keys = {}

Insert(k) == keys' = IF k \in keys THEN keys \ {k} ELSE keys \cup {k}
Delete(k) == keys' = keys \ {k}

Next == \E k \in Keys : Insert(k) \/ Delete(k)

Spec == Init /\ [][Next]_keys
===============================================================================
