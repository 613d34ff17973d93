---------------------------- MODULE AbstractMap ----------------------------
(***************************************************************************)
(* What hashmap.c promises its callers: a partial function from keys to    *)
(* values.  A value leaves it only by being freed, and an operation that   *)
(* runs out of memory changes nothing.                                     *)
(***************************************************************************)
CONSTANTS
    Key,    \* the keys, up to keyEqFunc
    Value,  \* the values, none of them NULL
    NULL    \* what hashmap_get returns for a key that is not there

VARIABLES
    map,    \* map[k]: the value stored for k
    freed   \* the values passed to freeValueFunc

Init == map = [k \in Key |-> NULL] /\ freed = {}

Frees(values) == freed' = freed \cup (values \ {NULL})

\* hashmap_put
Put(k, v) == map' = [map EXCEPT ![k] = v] /\ Frees({map[k]})

\* hashmap_remove
Remove(k) == map' = [map EXCEPT ![k] = NULL] /\ Frees({map[k]})

\* hashmap_destroy
Destroy == map' = [k \in Key |-> NULL] /\ Frees({map[k] : k \in Key})

Next ==
    \/ \E k \in Key : Remove(k) \/ \E v \in Value : Put(k, v)
    \/ Destroy

Spec == Init /\ [][Next]_<<map, freed>>
=============================================================================
