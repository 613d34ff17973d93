----------------------------- MODULE NodeLoader -----------------------------
(***************************************************************************)
(* node_load_all of node.c: from the text of nodes.csv to the array of     *)
(* NodeInfo.  A file is a sequence of lines, a line the sequence of the    *)
(* fields between its commas, a field a sequence of characters and white   *)
(* space, and a NodeInfo pointer the index of a row, with 0 for NULL.      *)
(* Addresses and ports are copied and not looked at.                       *)
(***************************************************************************)
EXTENDS Naturals, Sequences, FiniteSets, FiniteSetsExt

CONSTANT SPACE     \* white space, in the sense of isspace

EMPTY == <<>>

\* strtok skips empty fields.
Tokens(line) == SelectSeq(line, LAMBDA field : field # EMPTY)

trim(s) ==
    LET text == {k \in DOMAIN s : s[k] # SPACE}
    IN  IF text = {} THEN EMPTY ELSE SubSeq(s, Min(text), Max(text))

\* A parent id is NULL if there is none and if it is the empty string.
Row(tokens) ==
    [id        |-> trim(tokens[1]),
     parent_id |-> IF Len(tokens) < 4 THEN EMPTY ELSE trim(tokens[4])]

\* The first loop.  A line of fewer than three tokens is not a node; row i is
\* the line that makes the count i.
Rows(file) ==
    LET kept == {l \in DOMAIN file : Len(Tokens(file[l])) >= 3}
        LineOf(i) == CHOOSE l \in kept : Cardinality({m \in kept : m <= l}) = i
    IN  [i \in 1..Cardinality(kept) |-> Row(Tokens(file[LineOf(i)]))]

\* hashmap_get after every row was put in order: the last row of that id.
Lookup(rows, id) == Max({0} \cup {i \in DOMAIN rows : rows[i].id = id})

ParentOf(rows, i) ==
    IF rows[i].parent_id = EMPTY THEN 0 ELSE Lookup(rows, rows[i].parent_id)

\* The passes that count, allocate and fill children: the rows whose parent is i.
ChildrenOf(rows, i) ==
    SelectSeq([j \in DOMAIN rows |-> j], LAMBDA j : ParentOf(rows, j) = i)

\* Mutant: a node with children is taken for a propagator before it is known
\* whether it has a parent.
TypeByChildren(rows, i) ==
    IF Len(ChildrenOf(rows, i)) > 0 THEN "CENTRAL"
    ELSE IF ParentOf(rows, i) = 0 THEN "ROOT" ELSE "DESTINATION"

\* The last pass.
TypeOf(rows, i) ==
    IF ParentOf(rows, i) = 0 THEN "ROOT"
    ELSE IF Len(ChildrenOf(rows, i)) > 0 THEN "CENTRAL" ELSE "DESTINATION"

node_load_all(file) ==
    LET rows == Rows(file) IN
    [i \in DOMAIN rows |-> [id       |-> rows[i].id,
                            parent   |-> ParentOf(rows, i),
                            children |-> ChildrenOf(rows, i),
                            type     |-> TypeOf(rows, i)]]

-----------------------------------------------------------------------------
(* What a nodes.csv should look like *)

Text(field) == trim(field) # EMPTY

Id(line) == trim(line[1])
HasParent(line) == Len(line) = 4 /\ Text(line[4])
ParentId(line) == trim(line[4])

\* Id, address and port are there, ids differ, and the parent column is left
\* blank or leads, from line to line, to a line where it is left blank.
WellFormed(file) ==
    /\ \A l \in DOMAIN file :
          Len(file[l]) \in {3, 4} /\ \A c \in 1..3 : Text(file[l][c])
    /\ \A l, m \in DOMAIN file : Id(file[l]) = Id(file[m]) => l = m
    /\ \A l \in DOMAIN file : HasParent(file[l]) =>
          \E m \in DOMAIN file : Id(file[m]) = ParentId(file[l])
    /\ \A S \in SUBSET DOMAIN file : S # {} =>
          \E l \in S : HasParent(file[l]) => \A m \in S : Id(file[m]) # ParentId(file[l])

Tree(nodes) == INSTANCE Topology
    WITH Node <- DOMAIN nodes, NoNode <- 0, Parent <- [i \in DOMAIN nodes |-> nodes[i].parent]

\* The array describes the tree that the file describes.
Represents(nodes, file) ==
    /\ [i \in DOMAIN nodes |-> nodes[i].id] = [l \in DOMAIN file |-> Id(file[l])]
    /\ \A i \in DOMAIN nodes :
          /\ HasParent(file[i]) <=> nodes[i].parent # 0
          /\ HasParent(file[i]) => nodes[nodes[i].parent].id = ParentId(file[i])
          /\ {nodes[i].children[j] : j \in DOMAIN nodes[i].children}
                = Tree(nodes)!Children(i)
          /\ nodes[i].type = Tree(nodes)!NodeType(i)
    /\ Tree(nodes)!IsTree
=============================================================================
