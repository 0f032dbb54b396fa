----------------------------- MODULE MCServices ------------------------------
(* Model of Services for TLC. *)
EXTENDS Services, TLC

\* A negative setting and one retry.
MCRetrySettings == {-1, 1}

\* Below, inside and above the range of two one-bit identifiers.
MCIds == -1..4

CONSTANTS i1, i2, g1, g2, g3

\* Two instances of the lock, one of them shared by two goroutines.
MCUses == [g \in Goroutines |-> IF g = g3 THEN i2 ELSE i1]

\* The components share the names of interchangeable calls, callers, writers and
\* tokens, so one exchange of names is a symmetry of all of them.
Symmetry == Permutations(RpcCalls)
=============================================================================
