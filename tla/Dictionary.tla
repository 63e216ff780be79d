----------------------------- MODULE Dictionary -----------------------------
(***************************************************************************)
(* What a hash table promises: a key keeps the data it was first put with, *)
(* and a lookup answers with it.                                           *)
(***************************************************************************)
CONSTANTS Keys, Data, Nothing

VARIABLES
    map,                \* the data of each key that was put
    answer              \* the answer to the last lookup, or Nothing

vars == <<map, answer>>

Init == map = [k \in {} |-> Nothing] /\ answer = Nothing

Put(k, d) ==
    /\ map' = [x \in DOMAIN map \cup {k} |-> IF x \in DOMAIN map THEN map[x] ELSE d]
    /\ answer' = Nothing

Get(k) ==
    /\ answer' = IF k \in DOMAIN map THEN map[k] ELSE Nothing
    /\ UNCHANGED map

Release == map' = [k \in {} |-> Nothing] /\ answer' = Nothing

Next == Release \/ \E k \in Keys : Get(k) \/ \E d \in Data : Put(k, d)

Spec == Init /\ [][Next]_vars
=============================================================================
