------------------------------ MODULE Dictionary ------------------------------
(* What an index on a file promises: records with different keys, and calls *)
(* that say whether they did something.                                     *)

CONSTANTS Keys, Values

VARIABLES dict, done

vars == <<dict, done>>

Init == dict = {} /\ done = TRUE

At(k) == {e \in dict : e.key = k}

Insert(k, v) ==
  /\ dict' = IF At(k) = {} THEN dict \cup {[key |-> k, value |-> v]} ELSE dict
  /\ done' = (At(k) = {})

Update(k, v) ==
  /\ dict' = IF At(k) = {} THEN dict ELSE (dict \ At(k)) \cup {[key |-> k, value |-> v]}
  /\ done' = (At(k) # {})

Remove(k) ==
  /\ dict' = dict \ At(k)
  /\ done' = (At(k) # {})

Next == \E k \in Keys : Remove(k) \/ \E v \in Values : Insert(k, v) \/ Update(k, v)

Spec == Init /\ [][Next]_vars
===============================================================================
