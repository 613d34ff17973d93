-------------------------- MODULE MCDataDestination --------------------------
(* Small sets of warnings for module DataDestination. *)
EXTENDS DataDestination, TLC

Symmetry == Permutations(Warning)
=============================================================================
