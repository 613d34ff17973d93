----------------------------- MODULE MCHashMap -----------------------------
(* Keys whose hashes collide at one capacity and part at the next. *)
EXTENDS HashMap, TLC

CONSTANTS k1, k2, k3, k4

\* All four share the bucket of capacity 1; k1, k2 and k3 share one at capacity
\* 2, k1 and k2 at capacity 4, and nothing parts k1 and k2 before capacity 8.
Hashes == (k1 :> 0) @@ (k2 :> 4) @@ (k3 :> 2) @@ (k4 :> 1)
=============================================================================
