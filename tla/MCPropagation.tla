--------------------------- MODULE MCPropagation ---------------------------
(* A small tree for module Propagation. *)
EXTENDS Propagation, TLC

CONSTANTS root, mid, low, leafA, leafB

\* The longest branch of nodes.csv (Belgrade, Novi Sad, Cacak, Test) and a
\* destination right below the root: the root's workers climb twice for leafA
\* and not at all for leafB.
TreeNode == {root, mid, low, leafA, leafB}
TreeParent == (root :> NoNode) @@ (mid :> root) @@ (low :> mid)
              @@ (leafA :> low) @@ (leafB :> root)
=============================================================================
