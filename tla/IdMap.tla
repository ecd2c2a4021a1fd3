------------------------------- MODULE IdMap --------------------------------
(***************************************************************************)
(* What OrderBook asks of the id index: a map from live ids to values.     *)
(***************************************************************************)
CONSTANTS
    Ids,
    Values,
    Absent          \* the value of an id that is not there (nullptr)

VARIABLES
    map,            \* map[id], as find() answers
    taken           \* what the last take() answered

Init == map = [id \in Ids |-> Absent] /\ taken = Absent

Insert(id, value) == /\ map[id] = Absent
                     /\ map' = [map EXCEPT ![id] = value]
                     /\ UNCHANGED taken

Take(id) == /\ taken' = map[id]
            /\ map' = [map EXCEPT ![id] = Absent]

Next == \E id \in Ids : Take(id) \/ \E value \in Values : Insert(id, value)

Spec == Init /\ [][Next]_<<map, taken>>
=============================================================================
