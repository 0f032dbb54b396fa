---------------------------- MODULE MCTaskQueues -----------------------------
(* Model of TaskQueues for TLC. *)
EXTENDS TaskQueues
=============================================================================
