------------------------------ MODULE HashMap ------------------------------
(***************************************************************************)
(* The hash map of hashmap.c: chains of nodes in an array of buckets that  *)
(* doubles when the load factor would exceed 3/4.                          *)
(*                                                                         *)
(* Its callers use a map from one thread, or under conn_mutex, so that the *)
(* steps of an operation are not interleaved with another operation.  An   *)
(* operation is one action, except for the rehashing of hashmap_put, which *)
(* relinks one node per action.                                            *)
(***************************************************************************)
EXTENDS Naturals, Sequences

CONSTANTS
    Key,            \* the keys, up to keyEqFunc
    Value,          \* the pointers that are stored, each of them once
    NULL,           \* the NULL pointer
    Hash,           \* Hash[k]: what hashFunc returns
    InitialCapacity \* the argument of hashmap_create

ASSUME HashMapAssumption ==
    /\ NULL \notin Value
    /\ NULL \notin Key
    /\ Hash \in [Key -> Nat]
    /\ InitialCapacity \in Nat \ {0}

VARIABLES
    buckets,        \* buckets[i]: the chain of bucket i, its head first
    capacity,       \* the length of buckets
    size,           \* map->size
    newBuckets,     \* the array that resize_if_needed fills
    row,            \* the bucket that resize_if_needed empties
    op,             \* the call under way: where it is, its key and its value
    freed,          \* the values passed to freeValueFunc (history)
    stored          \* the values that hashmap_put has accepted (history)

tableVars  == <<buckets, capacity, size>>
rehashVars == <<newBuckets, row>>
vars == <<tableVars, rehashVars, op, freed, stored>>

Node == [key : Key, value : Value]

Idle == [pc |-> "idle", key |-> NULL, value |-> NULL]

EmptyTable(n) == [i \in 0..(n - 1) |-> <<>>]

\* hashmap_create.
Init ==
    /\ buckets = EmptyTable(InitialCapacity)
    /\ capacity = InitialCapacity
    /\ size = 0
    /\ newBuckets = EmptyTable(0)
    /\ row = 0
    /\ op = Idle
    /\ freed = {}
    /\ stored = {}

Index(k, n) == Hash[k] % n

\* The positions of a chain whose key equals k, and the one a walk meets first.
Matches(chain, k) == {i \in DOMAIN chain : chain[i].key = k}
First(S) == CHOOSE i \in S : \A j \in S : i <= j

hashmap_get(k) ==
    LET chain == buckets[Index(k, capacity)] IN
    IF Matches(chain, k) = {} THEN NULL ELSE chain[First(Matches(chain, k))].value

-----------------------------------------------------------------------------
(* hashmap_put *)

\* Mutant: the number of entries is compared with the capacity.
FitsUntilFull == size + 1 <= capacity

\* The test of resize_if_needed: (size + 1) / capacity <= 0.75.
Fits == 4 * (size + 1) <= 3 * capacity

\* A call, up to the rehashing.  The new array may be impossible to allocate:
\* the call returns -1, and the caller keeps the key and the value.
PutBegins(k, v) ==
    /\ op.pc = "idle"
    /\ v \notin stored
    /\ \/ /\ Fits
          /\ op' = [pc |-> "link", key |-> k, value |-> v]
          /\ UNCHANGED rehashVars
       \/ /\ ~Fits
          /\ op' = [pc |-> "rehash", key |-> k, value |-> v]
          /\ newBuckets' = EmptyTable(2 * capacity)
          /\ row' = 0
       \/ /\ ~Fits
          /\ UNCHANGED <<op, rehashVars>>
    /\ UNCHANGED <<tableVars, freed, stored>>

\* Mutant: the bucket is chosen with the old capacity.
RehashByOldCapacity ==
    /\ op.pc = "rehash" /\ row < capacity
    /\ buckets[row] # <<>>
    /\ LET node == Head(buckets[row]) IN
       newBuckets' = [newBuckets EXCEPT ![Index(node.key, capacity)] = <<node>> \o @]
    /\ buckets' = [buckets EXCEPT ![row] = Tail(@)]
    /\ UNCHANGED <<capacity, size, row, op, freed, stored>>

\* Mutant: next is read after the node has been relinked, so that the rest of
\* the chain is left behind.
RehashLosesRest ==
    /\ op.pc = "rehash" /\ row < capacity
    /\ buckets[row] # <<>>
    /\ LET node == Head(buckets[row]) IN
       newBuckets' = [newBuckets EXCEPT ![Index(node.key, 2 * capacity)] = <<node>> \o @]
    /\ buckets' = [buckets EXCEPT ![row] = <<>>]
    /\ UNCHANGED <<capacity, size, row, op, freed, stored>>

\* The inner loop: the first node that is left of the row becomes the head of
\* its new chain.  buckets[row] stands for what the local variable node leads to.
RehashNode ==
    /\ op.pc = "rehash" /\ row < capacity
    /\ buckets[row] # <<>>
    /\ LET node == Head(buckets[row]) IN
       newBuckets' = [newBuckets EXCEPT ![Index(node.key, 2 * capacity)] = <<node>> \o @]
    /\ buckets' = [buckets EXCEPT ![row] = Tail(@)]
    /\ UNCHANGED <<capacity, size, row, op, freed, stored>>

RehashNextRow ==
    /\ op.pc = "rehash" /\ row < capacity
    /\ buckets[row] = <<>>
    /\ row' = row + 1
    /\ UNCHANGED <<tableVars, newBuckets, op, freed, stored>>

\* The new array replaces the old one.
RehashEnds ==
    /\ op.pc = "rehash" /\ row = capacity
    /\ buckets' = newBuckets
    /\ capacity' = 2 * capacity
    /\ newBuckets' = EmptyTable(0)
    /\ row' = 0
    /\ op' = [op EXCEPT !.pc = "link"]
    /\ UNCHANGED <<size, freed, stored>>

\* The key is there: its value is freed and replaced.
PutReplaces ==
    LET i == Index(op.key, capacity)
        m == Matches(buckets[i], op.key) IN
    /\ op.pc = "link" /\ m # {}
    /\ freed' = freed \cup {buckets[i][First(m)].value}
    /\ buckets' = [buckets EXCEPT ![i][First(m)].value = op.value]
    /\ stored' = stored \cup {op.value}
    /\ op' = Idle
    /\ UNCHANGED <<capacity, size, rehashVars>>

\* The key is not there: a new node becomes the head of the chain.
PutAdds ==
    LET i == Index(op.key, capacity) IN
    /\ op.pc = "link" /\ Matches(buckets[i], op.key) = {}
    /\ buckets' = [buckets EXCEPT ![i] = <<[key |-> op.key, value |-> op.value]>> \o @]
    /\ size' = size + 1
    /\ stored' = stored \cup {op.value}
    /\ op' = Idle
    /\ UNCHANGED <<capacity, rehashVars, freed>>

\* The node cannot be allocated: -1.  A rehashing stays.
PutFails ==
    /\ op.pc = "link" /\ Matches(buckets[Index(op.key, capacity)], op.key) = {}
    /\ op' = Idle
    /\ UNCHANGED <<tableVars, rehashVars, freed, stored>>

-----------------------------------------------------------------------------

\* Mutant: the size is decremented although the key was not found.
RemoveAlwaysCounts(k) ==
    LET i == Index(k, capacity)
        m == Matches(buckets[i], k) IN
    /\ op.pc = "idle"
    /\ size' = size - 1
    /\ IF m = {}
       THEN UNCHANGED <<buckets, freed>>
       ELSE /\ freed' = freed \cup {buckets[i][First(m)].value}
            /\ buckets' = [buckets EXCEPT ![i] =
                 SubSeq(@, 1, First(m) - 1) \o SubSeq(@, First(m) + 1, Len(@))]
    /\ UNCHANGED <<capacity, rehashVars, op, stored>>

\* The node is unlinked, its key and its value are freed.
hashmap_remove(k) ==
    LET i == Index(k, capacity)
        m == Matches(buckets[i], k) IN
    /\ op.pc = "idle" /\ m # {}
    /\ freed' = freed \cup {buckets[i][First(m)].value}
    /\ buckets' = [buckets EXCEPT ![i] =
         SubSeq(@, 1, First(m) - 1) \o SubSeq(@, First(m) + 1, Len(@))]
    /\ size' = size - 1
    /\ UNCHANGED <<capacity, rehashVars, op, stored>>

Chained(table) ==
    UNION {{table[i][j] : j \in DOMAIN table[i]} : i \in DOMAIN table}

\* Everything is freed; the map is not used any more.
hashmap_destroy ==
    /\ op.pc = "idle"
    /\ freed' = freed \cup {n.value : n \in Chained(buckets)}
    /\ buckets' = EmptyTable(capacity)
    /\ size' = 0
    /\ op' = [op EXCEPT !.pc = "destroyed"]
    /\ UNCHANGED <<capacity, rehashVars, stored>>

hashmap_put ==
    \/ \E k \in Key, v \in Value : PutBegins(k, v)
    \/ RehashNode \/ RehashNextRow \/ RehashEnds
    \/ PutReplaces \/ PutAdds \/ PutFails

Next == hashmap_put \/ (\E k \in Key : hashmap_remove(k)) \/ hashmap_destroy

Spec == Init /\ [][Next]_vars
-----------------------------------------------------------------------------
(* Properties *)

\* Every variable has its type.
TypeOK ==
    /\ capacity \in Nat \ {0}
    /\ buckets \in [0..(capacity - 1) -> Seq(Node)]
    /\ size \in Nat
    /\ op \in [pc : {"idle", "rehash", "link", "destroyed"},
               key : Key \cup {NULL}, value : Value \cup {NULL}]
    /\ newBuckets \in [0..((IF op.pc = "rehash" THEN 2 * capacity ELSE 0) - 1) -> Seq(Node)]
    /\ row \in 0..capacity
    /\ freed \subseteq Value
    /\ stored \subseteq Value

\* All the nodes, also in the middle of a rehashing.
Nodes == Chained(buckets) \cup Chained(newBuckets)

\* The value that some node holds for a key.
Held(k) == IF \E n \in Nodes : n.key = k
           THEN (CHOOSE n \in Nodes : n.key = k).value
           ELSE NULL

\* The map that the chains stand for.
Map == INSTANCE AbstractMap WITH map <- [k \in Key |-> Held(k)]

\* Every operation does to the chains what it should do to a map, whatever
\* collides, and a rehashing does nothing to it: no node is lost, doubled or
\* changed while the chains are relinked, also when memory runs out.  Replacing,
\* removing and destroying free exactly the values that leave the map.
ImplementsMap == Map!Spec

\* A lookup finds what is stored: between two operations every key is in the
\* chain that hashmap_get searches, for the capacity of the moment.
GetFindsStored == op.pc = "idle" => \A k \in Key : hashmap_get(k) = Held(k)

\* One doubling is enough: between two operations at most 3/4 of the buckets
\* would be used, however full the map was when it grew.
LoadBounded == op.pc = "idle" => 4 * size <= 3 * capacity
=============================================================================
