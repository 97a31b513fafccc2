------------------------------ MODULE MC_Jobs ------------------------------
(* Instances of Jobs for TLC. *)
EXTENDS Jobs

CONSTANTS c1, c2, a1
=============================================================================
