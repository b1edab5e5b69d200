------------------------------ MODULE MCWatch -------------------------------
(* The watch of one target on small instances.                             *)
EXTENDS Watch

CONSTANTS w, o

MCChain == [i \in Items |-> IF i = 1 THEN {} ELSE {i - 1}]
MCNoDepends == [i \in Items |-> {}]
MCJobs == [a \in Actors |->
             IF a = Watcher THEN {"transaction", "run", "retry", "republish", "merge", "shelve"}
             ELSE {"finish", "push"}]

(* The instances are of the kind the theorems about the watch speak of.   *)
ASSUME MCByTurns == Turns
=============================================================================
