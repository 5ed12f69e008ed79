------------------------------ MODULE ItemMap -------------------------------
(***************************************************************************)
(* What slicemap.Map promises: a map from ids to items in which the first  *)
(* item of an id stays until the id is deleted.                            *)
(***************************************************************************)
CONSTANTS
    Items,      \* what can be stored
    ItemID(_)   \* the id of an item

VARIABLE stored  \* the item of each id there is

Init == stored = [id \in {} |-> id]

Put(item) ==
    /\ ItemID(item) \notin DOMAIN stored
    /\ stored' = [id \in DOMAIN stored \cup {ItemID(item)} |->
                    IF id = ItemID(item) THEN item ELSE stored[id]]

Remove(id) ==
    /\ id \in DOMAIN stored
    /\ stored' = [other \in DOMAIN stored \ {id} |-> stored[other]]

Next == \/ \E item \in Items : Put(item)
        \/ \E id \in DOMAIN stored : Remove(id)

Spec == Init /\ [][Next]_stored

=============================================================================
