------------------------------ MODULE MCCycle ------------------------------
(* Instances of Cycle for TLC. *)
EXTENDS Cycle

CONSTANTS a, m
=============================================================================
