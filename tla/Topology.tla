------------------------------ MODULE Topology ------------------------------
(***************************************************************************)
(* The node tree that nodes.csv describes, as node_load_all leaves it in   *)
(* memory: every node knows its parent, and from the parents follow the    *)
(* children, the node types and the subtree map a Central Propagator       *)
(* routes with.  A node stands for its id, address and port: the file is   *)
(* taken to give every node an id and an endpoint of its own.              *)
(***************************************************************************)

CONSTANTS
    Node,       \* the nodes of nodes.csv
    NoNode,     \* the NULL NodeInfo pointer
    Parent      \* Parent[n]: the node named in the parent column, or NoNode

ASSUME NodeAssumption ==
    /\ NoNode \notin Node
    /\ Parent \in [Node -> Node \cup {NoNode}]

\* The nodes whose parent pointer is n.
Children(n) == {m \in Node : Parent[m] = n}

\* The last pass of node_load_all.
NodeType(n) ==
    CASE Parent[n] = NoNode                      -> "ROOT"
      [] Parent[n] # NoNode /\ Children(n) # {}  -> "CENTRAL"
      [] Parent[n] # NoNode /\ Children(n) = {}  -> "DESTINATION"

Destination == {n \in Node : NodeType(n) = "DESTINATION"}

\* The nodes run by a CentralPropagator process (cp_launch_all).
Central == Node \ Destination

\* A set of nodes that holds the children of all of its members.
ChildClosed(S) == \A n \in Node : Parent[n] \in S => n \in S

\* The keys that collect_subtree(map, n) has put in the map when it returns:
\* the least set that holds n and, with a node, that node's children.
collect_subtree(n) ==
    {m \in Node : \A S \in SUBSET Node : n \in S /\ ChildClosed(S) => m \in S}

Subtree == [n \in Node |-> collect_subtree(n)]

\* nodes.csv defines a tree (or several): climbing from any node ends at a root.
IsTree == \A n \in Node : \E r \in Node : Parent[r] = NoNode /\ n \in Subtree[r]

ASSUME TreeAssumption == IsTree

\* Mutant: the climb does not look for the node me.
ClimbToTheRoot(x, me) == Parent[x] = NoNode

(***************************************************************************)
(* The loop of dispatch_job_fn climbs from the destination; it stops at a  *)
(* node without a parent or right below the node me.                       *)
(***************************************************************************)
ClimbStops(x, me) == Parent[x] = NoNode \/ Parent[x] = me
=============================================================================
