------------------------------ MODULE DictMap ------------------------------
(***************************************************************************)
(* What dict.c promises its callers, with no hash table in sight: a finite *)
(* map from keys to values, kept as the set of its entries.  Dict.tla      *)
(* implements it (Dict!MapSpec).                                           *)
(***************************************************************************)
CONSTANTS Keys,     \* keys a caller may use
          Vals      \* values a caller may store

VARIABLE map        \* the entries, a set of [key, val] records

Entry == [key : Keys, val : Vals]

At(k) == {e \in map : e.key = k}

Init == map = {}

\* dictAdd succeeds only when the key is absent.
Add(k, v) == /\ At(k) = {}
             /\ map' = map \cup {[key |-> k, val |-> v]}

\* dictReplace adds the key or overwrites its value.
Replace(k, v) == map' = (map \ At(k)) \cup {[key |-> k, val |-> v]}

Delete(k) == map' = map \ At(k)

Clear == map' = {}

Next == \/ \E k \in Keys, v \in Vals : Add(k, v) \/ Replace(k, v)
        \/ \E k \in Keys : Delete(k)
        \/ Clear

Spec == Init /\ [][Next]_map
=============================================================================
