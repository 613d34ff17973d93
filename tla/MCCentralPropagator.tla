------------------------ MODULE MCCentralPropagator ------------------------
(* Small sets of workers and warnings for module CentralPropagator. *)
EXTENDS CentralPropagator, TLC

Symmetry == Permutations(Worker)
=============================================================================
