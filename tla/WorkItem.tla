------------------------------ MODULE WorkItem ------------------------------
(***************************************************************************)
(* What the delivery of backlog items promises, whoever works on them and  *)
(* whatever breaks off: an item is accepted once, after the items it       *)
(* depends on; its work is committed once, after theirs; the origin gets   *)
(* committed work only, never an item before those it depends on; and an   *)
(* item that was set aside is not accepted any more.                       *)
(***************************************************************************)
CONSTANTS Items, Depends

VARIABLE stage

Stages == {"open", "accepted", "committed", "integrated", "shelved"}

In(S) == {i \in Items : stage[i] \in S}
Set(S, s) == stage' = [i \in Items |-> IF i \in S THEN s ELSE stage[i]]

Init == stage = [i \in Items |-> "open"]

Accept(i) ==
  /\ i \in In({"open"})
  /\ Depends[i] \subseteq In({"accepted", "committed", "integrated"})
  /\ Set({i}, "accepted")

Commit(i) ==
  /\ i \in In({"accepted"})
  /\ Depends[i] \subseteq In({"committed", "integrated"})
  /\ Set({i}, "committed")

(* A merge or a push brings in every ancestor, so several items at once.   *)
Integrate(S) ==
  /\ S # {} /\ S \subseteq In({"committed"})
  /\ \A i \in S : Depends[i] \subseteq In({"integrated"}) \cup S
  /\ Set(S, "integrated")

Shelve(i) ==
  /\ i \in In({"open"})
  /\ Set({i}, "shelved")

Next ==
  \/ \E i \in Items : Accept(i) \/ Commit(i) \/ Shelve(i)
  \/ \E S \in SUBSET Items : Integrate(S)

Spec == Init /\ [][Next]_stage
=============================================================================
