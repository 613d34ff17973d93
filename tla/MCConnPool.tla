----------------------------- MODULE MCConnPool -----------------------------
(* Small sets of threads, endpoints and handles for module ConnPool. *)
EXTENDS ConnPool, TLC

Symmetry == Permutations(Thread) \cup Permutations(Node) \cup Permutations(Handle)
=============================================================================
