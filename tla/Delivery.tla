------------------------------ MODULE Delivery ------------------------------
(***************************************************************************)
(* What the whole system promises for warnings, seen from outside: a       *)
(* warning that is accepted is pending until it is delivered, once and to  *)
(* its destination, or lost; one may be lost before it is accepted.        *)
(* Nothing is said about the order in which warnings are delivered, and    *)
(* there is none: the workers of a thread pool overtake each other.        *)
(***************************************************************************)
EXTENDS Sequences

CONSTANTS
    Destination,    \* the Data Destinations
    Warning         \* records with an id and, in dest_node, a destination

VARIABLES
    pending,        \* the warnings that are accepted and on their way
    delivered,      \* delivered[d]: what d has logged
    lost            \* the warnings that will not be delivered

vars == <<pending, delivered, lost>>

Init ==
    /\ pending = {}
    /\ delivered = [d \in Destination |-> <<>>]
    /\ lost = {}

\* No other warning has had this number.
Fresh(w) ==
    /\ \A v \in pending \cup lost : v.id # w.id
    /\ \A d \in Destination :
          \A i \in DOMAIN delivered[d] : delivered[d][i].id # w.id

\* The generator enqueues a warning.
Accept(w) ==
    /\ Fresh(w)
    /\ pending' = pending \cup {w}
    /\ UNCHANGED <<delivered, lost>>

\* The generator has made a warning and has no memory to enqueue it.
Refuse(w) ==
    /\ Fresh(w)
    /\ lost' = lost \cup {w}
    /\ UNCHANGED <<pending, delivered>>

\* A destination logs a warning that is addressed to it.
Deliver(w) ==
    /\ pending' = pending \ {w}
    /\ delivered' = [delivered EXCEPT ![w.dest_node] = Append(@, w)]
    /\ UNCHANGED lost

\* A failing call loses a warning, or with a connection all that it carried.
Lose(S) ==
    /\ pending' = pending \ S
    /\ lost' = lost \cup S
    /\ UNCHANGED delivered

Next ==
    \/ \E w \in Warning : Accept(w) \/ Refuse(w)
    \/ \E w \in pending : Deliver(w)
    \/ \E S \in SUBSET pending : Lose(S)

Spec == Init /\ [][Next]_vars
=============================================================================
