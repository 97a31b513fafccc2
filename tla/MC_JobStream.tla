---------------------------- MODULE MC_JobStream ----------------------------
(* Instances of JobStream for TLC. *)
EXTENDS JobStream

CONSTANTS t1, t2
=============================================================================
