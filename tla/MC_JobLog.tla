----------------------------- MODULE MC_JobLog -----------------------------
(* Instances of JobLog for TLC. *)
EXTENDS JobLog

OddLines == {i \in Line : i % 2 = 1}
=============================================================================
