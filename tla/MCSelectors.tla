----------------------------- MODULE MCSelectors -----------------------------
(* Model of Selectors for TLC. *)
EXTENDS Selectors, TLC

\* Callers are interchangeable, and so are closers; servers are not.
Symmetry == Permutations(Callers) \cup Permutations(Closers)
=============================================================================
