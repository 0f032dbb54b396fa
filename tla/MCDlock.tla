------------------------------- MODULE MCDlock -------------------------------
(* Model of Dlock for TLC: two instances, one of them shared. *)
EXTENDS Dlock, TLC

CONSTANTS i1, i2, g1, g2, g3

MCUses == [g \in Goroutines |-> IF g = g3 THEN i2 ELSE i1]

TokenSymmetry == Permutations(Tokens)
=============================================================================
