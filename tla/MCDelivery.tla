----------------------------- MODULE MCDelivery -----------------------------
(* Commands over one target on small instances: a watch and an operator.   *)
EXTENDS Delivery

CONSTANTS watcher, operator

(* The item that comes first by priority needs the other.                  *)
MCNeeds == [i \in Items |-> IF i = 1 THEN {2} ELSE {}]
MCJobs == [a \in Actors |-> IF a = watcher THEN {"transaction", "merge"} ELSE {"run", "finish", "shelve"}]
MCPublishJobs == [a \in Actors |-> IF a = watcher THEN {"transaction", "retry", "merge"} ELSE {"push", "retry", "republish"}]
=============================================================================
