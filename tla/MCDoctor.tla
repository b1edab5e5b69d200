----------------------------- MODULE MCDoctor -----------------------------
(* The External Doctor on small instances: one incident, two strategies,   *)
(* the classes and verdicts a run asks about.                              *)
EXTENDS Doctor, TLC

CONSTANTS a, b

MCSymmetry == Permutations({a, b})
=============================================================================
