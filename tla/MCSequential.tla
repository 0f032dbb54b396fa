---------------------------- MODULE MCSequential -----------------------------
(* Model of Sequential for TLC. *)
EXTENDS Sequential

Symmetry == Permutations(YamlKeys)
=============================================================================
