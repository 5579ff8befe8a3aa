------------------------------- MODULE MCSetup -------------------------------
(* Instances of Setup for TLC. *)
EXTENDS Setup, TLC

Symmetry == Permutations(Operator) \cup Permutations(Version)
=============================================================================
