------------------------------- MODULE MCGpool -------------------------------
(* Gpool.tla for TLC: callers and connections are interchangeable.         *)
EXTENDS Gpool, TLC

Symmetry == Permutations(Callers) \cup Permutations(Conns)
=============================================================================
