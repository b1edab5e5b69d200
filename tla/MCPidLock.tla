----------------------------- MODULE MCPidLock -----------------------------
(* Lock files with a few processes.                                        *)
EXTENDS PidLock, TLC

CONSTANTS a, b, c

MCSymmetry == Permutations({a, b, c})
=============================================================================
