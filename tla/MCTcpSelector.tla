---------------------------- MODULE MCTcpSelector ----------------------------
(* Model of TcpSelector for TLC. *)
EXTENDS TcpSelector, TLC

\* Callers are interchangeable, and so are closers; servers are not.
Symmetry == Permutations(Callers) \cup Permutations(Closers)
=============================================================================
