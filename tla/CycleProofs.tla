---------------------------- MODULE CycleProofs ----------------------------
(* Theorems about Cycle, for any items, bounds and people.                 *)
EXTENDS Cycle, TLAPS

Works == [kind : {"none", "execute", "propose", "note", "apply"},
          subject : Subjects \cup {NoSubject}, proposal : {0} \cup Cycles]

InLanes  == {"planner", "manager", "lanes"}
AfterLand == {"publish", "align", "promote", "report"}

-----------------------------------------------------------------------------
(* Types. *)

(* What is selected has a kind, and a proposal that is applied is one.     *)
LEMMA Picked ==
  ASSUME NEW B, NEW pick \in Selections(B) \ {Idle}
  PROVE  /\ pick \in Works /\ pick.kind # "none"
         /\ pick.kind = "execute" => pick.subject \notin Done(B)
         /\ pick.kind = "apply" => /\ pick.proposal \in Proposals(B)
                                   /\ work[pick.proposal].subject \notin Changed(B)
<1>1. CASE Executable(B) # {}
  BY <1>1 DEF Selections, Pick, Executable, Works, Subjects
<1>2. CASE Executable(B) = {} /\ ReadyProposals(B) # {}
  <2>1. PICK p \in ReadyProposals(B) : pick = Pick("apply", NoSubject, p)
    BY <1>2 DEF Selections, First
  <2>2. p \in Proposals(B) /\ p \in Cycles /\ work[p].subject \notin Changed(B)
    BY <2>1 DEF ReadyProposals, Ready, Proposals, Ran
  <2> QED
    BY <2>1, <2>2 DEF Pick, Works
<1>3. CASE Executable(B) = {} /\ ReadyProposals(B) = {}
  <2>1. \/ \E i \in Items : pick = Pick("propose", i, 0)
        \/ pick = Pick("propose", Closeout, 0)
        \/ pick = Pick("note", NoSubject, 0)
    BY <1>3 DEF Selections
  <2> QED
    BY <2>1 DEF Pick, Works, Subjects
<1> QED
  BY <1>1, <1>2, <1>3

(* An age that is counted on stays under its cap.                          *)
LEMMA Ages ==
  ASSUME TypeOK, NEW B
  PROVE  Refreshed(B) \in [Cycles -> -1 .. MinVisibility]
<1>1. ASSUME NEW p \in Cycles PROVE Min({age[p] + 1, MinVisibility}) \in -1 .. MinVisibility
  <2> DEFINE x == age[p] + 1
  <2>1. x \in Int /\ -1 <= x /\ MinVisibility \in Nat \ {0}
    BY CycleAssumption DEF TypeOK, CycleAssumption
  <2>2. \E y \in {x, MinVisibility} : \A z \in {x, MinVisibility} : y <= z
    BY <2>1
  <2>3. Min({x, MinVisibility}) \in {x, MinVisibility} /\ Min({x, MinVisibility}) <= MinVisibility
    BY <2>2 DEF Min
  <2> QED
    BY <2>1, <2>3
<1> QED
  BY <1>1, CycleAssumption DEF Refreshed, CycleAssumption

LEMMA InitTyped == Init => TypeOK
BY CycleAssumption DEF CycleAssumption, Init, TypeOK, Nothing, Commits, Root, Places, Cycles, Waiting

(* The steps that move branches.                                           *)
LEMMA BranchTyped ==
  ASSUME TypeOK, InStep \/ Behind \/ Ahead \/ Diverged \/ Land \/ Publish \/ Align \/ Promote
  PROVE  TypeOK'
<1> USE DEF TypeOK, Runs, Bucket, At, Go, Places, Waiting
<1>1. CASE InStep
  BY <1>1 DEF InStep
<1>2. CASE Behind
  BY <1>2 DEF Behind
<1>3. CASE Ahead
  BY <1>3 DEF Ahead, Aligned
<1>4. CASE Diverged
  BY <1>4 DEF Diverged, Merged
<1>5. CASE Land
  <2>1. Mine \in SUBSET Commits
    BY <1>5 DEF Land, Mine
  <2> QED
    BY <1>5, <2>1 DEF Land
<1>6. CASE Publish
  BY <1>6 DEF Publish
<1>7. CASE Align
  BY <1>7 DEF Align, Aligned
<1>8. CASE Promote
  BY <1>8 DEF Promote
<1> QED
  BY <1>1, <1>2, <1>3, <1>4, <1>5, <1>6, <1>7, <1>8

(* The steps that refresh the control plane.                               *)
LEMMA RefreshTyped ==
  ASSUME TypeOK, Prepare \/ CreateWorktree
  PROVE  TypeOK'
<1>1. \A B : Refreshed(B) \in [Cycles -> -1 .. MinVisibility]
  BY Ages
<1>2. ASSUME NEW S, NEW ws PROVE Sorted(S, ws) \in [Cycles -> {"none", "pending", "kept", "orphaned"}]
  BY DEF Sorted, TypeOK
<1>3. Pending \in SUBSET Cycles
  BY DEF Pending
<1>4. CASE Prepare
  BY <1>1, <1>2, <1>3, <1>4 DEF TypeOK, Prepare, Runs, At, Places, Waiting
<1>5. CASE CreateWorktree
  <2>1. PICK c \in Cycles : /\ trees' = [trees EXCEPT ![c] = local.persistent]
                            /\ recorded' = c
                            /\ loop' = [loop EXCEPT !.pc = "select", !.cycle = c]
    BY <1>5 DEF CreateWorktree, First
  <2>2. age' \in [Cycles -> -1 .. MinVisibility] /\ veto' \in [Cycles -> {"none", "pending", "kept", "orphaned"}]
    BY <1>1, <1>2, <1>5 DEF CreateWorktree
  <2> QED
    BY <1>5, <2>1, <2>2 DEF TypeOK, CreateWorktree, Places, Waiting
<1> QED
  BY <1>4, <1>5

(* The steps of a cycle over its worktree.                                 *)
LEMMA CycleTyped ==
  ASSUME TypeOK, Rest \/ Select \/ SelectNothing \/ PlannerDone \/ ManagerDone \/ CommitRun \/ Report
  PROVE  TypeOK'
<1> USE DEF TypeOK, Runs, Bucket, At, Go, Back, Places, Waiting
<1>1. CASE Rest
  BY <1>1 DEF Rest
<1>2. CASE Select
  <2>1. PICK pick \in Selections(Mine) \ {Idle} : work' = [work EXCEPT ![loop.cycle] = pick]
    BY <1>2 DEF Select
  <2>2. pick \in Works
    BY <2>1, Picked
  <2>3. Pending \in SUBSET Cycles
    BY DEF Pending
  <2> QED
    BY <1>2, <2>1, <2>2, <2>3 DEF Select, Works
<1>3. CASE SelectNothing
  BY <1>3 DEF SelectNothing
<1>4. CASE PlannerDone
  BY <1>4 DEF PlannerDone
<1>5. CASE ManagerDone
  BY <1>5 DEF ManagerDone
<1>6. CASE CommitRun
  BY <1>6 DEF CommitRun, Commits
<1>7. CASE Report
  BY <1>7 DEF Report
<1> QED
  BY <1>1, <1>2, <1>3, <1>4, <1>5, <1>6, <1>7

(* A cycle that raises, or a process that dies.                            *)
LEMMA GiveUpTyped ==
  ASSUME TypeOK, loop.cycle \in Cycles, NEW undo \in BOOLEAN, GiveUp(undo),
         trouble' \in 0 .. MaxTrouble
  PROVE  TypeOK'
BY DEF TypeOK, GiveUp, Bucket, Back, Places, Waiting

LEMMA TroubleTyped ==
  ASSUME TypeOK, LandRefused \/ PromoteRefused \/ Fail \/ Crash
  PROVE  TypeOK'
<1>1. Applies \in BOOLEAN /\ MaxTrouble \in Nat
  BY CycleAssumption DEF Applies, CycleAssumption
<1>2. CASE LandRefused
  BY <1>1, <1>2, GiveUpTyped DEF LandRefused, At, TypeOK, Waiting
<1>3. CASE PromoteRefused
  BY <1>1, <1>3, GiveUpTyped DEF PromoteRefused, At, TypeOK, Waiting
<1>4. CASE Fail
  <2>1. trouble' \in 0 .. MaxTrouble /\ loop.cycle \in Cycles
    BY <1>1, <1>4 DEF Fail, TypeOK, Waiting
  <2>2. GiveUp(FALSE) \/ GiveUp(Applies)
    BY <1>4 DEF Fail, At
  <2> QED
    BY <1>1, <2>1, <2>2, GiveUpTyped
<1>5. CASE Crash
  <2>1. trees' \in [Cycles -> SUBSET Commits]
    BY <1>5 DEF Crash, TypeOK, At, Waiting
  <2>2. trouble' \in 0 .. MaxTrouble
    BY <1>1, <1>5 DEF Crash, TypeOK
  <2> QED
    BY <1>5, <2>1, <2>2 DEF Crash, TypeOK, Back, Bucket, Places, Waiting
<1> QED
  BY <1>2, <1>3, <1>4, <1>5

(* What people do.                                                         *)
LEMMA PeopleTyped ==
  ASSUME TypeOK, \/ PeoplePush \/ PeoplePull \/ PeopleMerge \/ PeopleResolve
                 \/ PeopleCommit \/ \E p \in Cycles : Veto(p)
  PROVE  TypeOK'
<1> USE DEF TypeOK, Runs, Bucket, At, Back, Places, Waiting
<1>1. CASE PeoplePush
  BY <1>1 DEF PeoplePush, Fresh, Commits
<1>2. CASE PeoplePull
  BY <1>2 DEF PeoplePull
<1>3. CASE PeopleMerge
  BY <1>3 DEF PeopleMerge, Merged
<1>4. CASE PeopleResolve
  BY <1>4 DEF PeopleResolve, Merged
<1>5. CASE PeopleCommit
  BY <1>5 DEF PeopleCommit, Fresh, Commits
<1>6. ASSUME NEW p \in Cycles, Veto(p) PROVE TypeOK'
  BY <1>6 DEF Veto
<1> QED
  BY <1>1, <1>2, <1>3, <1>4, <1>5, <1>6

LEMMA NextTyped ==
  ASSUME TypeOK, [Next]_vars
  PROVE  TypeOK'
<1>1. CASE UNCHANGED vars
  BY <1>1 DEF vars, TypeOK
<1>2. CASE Next
  BY <1>2, BranchTyped, RefreshTyped, CycleTyped, TroubleTyped, PeopleTyped DEF Next, Pass
<1> QED
  BY <1>1, <1>2

(* Whatever fails or dies and whatever people do, branches, worktrees and  *)
(* the control plane hold what may be stored there, and from its worktree  *)
(* on a pass has a cycle (run_cycle).                                      *)
THEOREM TypeCorrect == Spec => []TypeOK
<1>1. TypeOK /\ [Next]_vars => TypeOK'
  BY NextTyped
<1> QED
  BY InitTyped, <1>1, PTL DEF Spec

-----------------------------------------------------------------------------
(* What lands, lands once.                                                 *)

(* The cycles of every other branch are in the persistent one.             *)
Lag == Cycles \cap (local.base \cup origin.base \cup origin.persistent)
           \subseteq local.persistent

(* A worktree was taken of the persistent branch, and holds at most its    *)
(* own cycle's commit besides.                                             *)
Snapshots == \A c \in Cycles : trees[c] \cap Cycles \subseteq local.persistent \cup {c}

(* What has a commit was selected for something.                           *)
Begun == \A c \in Cycles : c \in local.persistent \cup trees[c] => work[c].kind # "none"

(* What is applied is a proposal.                                          *)
Sourced == \A c \in Cycles : work[c].kind = "apply" =>
               work[c].proposal \in Ran(Cycles, "propose")

(* The cycle of the pass repeats nothing its worktree holds.               *)
Working ==
    /\ loop.pc = "select" => work[loop.cycle] = Nothing
    /\ loop.pc \in InLanes \cup {"land"} => work[loop.cycle].kind # "none"
    /\ loop.pc \in InLanes => Once(Mine \cup {loop.cycle})
    /\ loop.pc = "land" => Once(Mine)

BranchInv == Lag /\ Snapshots /\ Begun /\ Sourced /\ Once(local.persistent) /\ Working

LEMMA OnceDown ==
  ASSUME NEW B, NEW D, B \cap Cycles \subseteq D, Once(D)
  PROVE  Once(B)
BY DEF Once

LEMMA OnceKept ==
  ASSUME NEW B, Once(B), UNCHANGED work
  PROVE  Once(B)'
BY DEF Once

LEMMA InitBranch == Init => BranchInv
BY CycleAssumption DEF CycleAssumption, Init, BranchInv, Lag, Snapshots, Begun, Sourced,
   Working, Once, Nothing, InLanes, Cycles

(* The cycles of the persistent branch stay, no run gets more commits and  *)
(* nothing is selected.                                                    *)
LEMMA Steady ==
  ASSUME BranchInv, UNCHANGED work, Lag', Working',
         local'.persistent \cap Cycles = local.persistent \cap Cycles,
         \A c \in Cycles : trees'[c] \cap Cycles \subseteq trees[c]
  PROVE  BranchInv'
<1>1. Snapshots' /\ Begun' /\ Sourced'
  BY DEF BranchInv, Snapshots, Begun, Sourced, Ran
<1>2. Once(local'.persistent)
  BY OnceDown DEF BranchInv
<1>3. Once(local.persistent)'
  BY <1>2, OnceKept
<1> QED
  BY <1>1, <1>3 DEF BranchInv

(* Where a pass works no longer on its run there is nothing to show for it.*)
LEMMA Loose ==
  ASSUME loop'.pc \notin InLanes \cup {"select", "land"}
  PROVE  Working'
BY DEF Working, InLanes

(* Nothing of the cycle at work changes.                                   *)
LEMMA WorkingKept ==
  ASSUME Working, UNCHANGED <<work, trees, loop>>
  PROVE  Working'
<1>1. Mine' = Mine
  BY DEF Mine
<1> QED
  BY <1>1, OnceKept DEF Working

(* The steps that move the loop's branches, but for landing.               *)
LEMMA BranchSteps ==
  ASSUME TypeOK, BranchInv,
         InStep \/ Behind \/ Ahead \/ Diverged \/ Prepare \/ Publish \/ Align \/ Promote
  PROVE  BranchInv'
<1>1. Lag
  BY DEF BranchInv
<1>2. UNCHANGED Runs /\ Working'
  BY Loose DEF InStep, Behind, Ahead, Diverged, Prepare, Publish, Align, Promote, Go, InLanes, TypeOK
<1>3. /\ Lag'
      /\ local'.persistent \cap Cycles = local.persistent \cap Cycles
  <2>1. CASE InStep \/ Publish \/ Promote
    BY <1>1, <2>1 DEF InStep, Publish, Promote, Lag, TypeOK
  <2>2. CASE Behind
    BY <1>1, <2>2 DEF Behind, Lag, TypeOK
  <2>3. CASE Ahead \/ Align
    BY <1>1, <2>3 DEF Ahead, Align, Aligned, Lag, TypeOK
  <2>4. CASE Diverged
    BY <1>1, <2>4 DEF Diverged, Merged, Lag, TypeOK
  <2>5. CASE Prepare
    BY <1>1, <2>5 DEF Prepare, Lag, TypeOK
  <2> QED
    BY <2>1, <2>2, <2>3, <2>4, <2>5
<1> QED
  BY <1>2, <1>3, Steady DEF Runs

(* What people do to the branches and the inbox.                           *)
LEMMA PeopleSteps ==
  ASSUME TypeOK, BranchInv,
         \/ PeoplePush \/ PeoplePull \/ PeopleMerge \/ PeopleResolve
         \/ PeopleCommit \/ \E p \in Cycles : Veto(p)
  PROVE  BranchInv'
<1>1. Lag
  BY DEF BranchInv
<1>2. \A x \in Fresh : x \notin Cycles
  BY CycleAssumption DEF CycleAssumption, Fresh, Outside, Cycles
<1>3. UNCHANGED <<work, trees>>
  BY DEF PeoplePush, PeoplePull, PeopleMerge, PeopleResolve, PeopleCommit, Veto, Runs
<1>4. Working'
  <2>1. CASE PeopleResolve
    BY <2>1, Loose DEF PeopleResolve, Back, InLanes
  <2>2. CASE UNCHANGED loop
    BY <2>2, <1>3, WorkingKept DEF BranchInv
  <2> QED
    BY <2>1, <2>2 DEF PeoplePush, PeoplePull, PeopleMerge, PeopleCommit, Veto
<1>5. /\ Lag'
      /\ local'.persistent \cap Cycles = local.persistent \cap Cycles
  <2>1. CASE PeoplePush \/ PeopleCommit
    BY <1>1, <1>2, <2>1 DEF PeoplePush, PeopleCommit, Lag, TypeOK
  <2>2. CASE PeoplePull
    BY <1>1, <2>2 DEF PeoplePull, Lag, TypeOK
  <2>3. CASE PeopleMerge \/ PeopleResolve
    BY <1>1, <2>3 DEF PeopleMerge, PeopleResolve, Merged, Lag, TypeOK
  <2>4. ASSUME NEW p \in Cycles, Veto(p)
        PROVE  Lag' /\ local'.persistent \cap Cycles = local.persistent \cap Cycles
    BY <1>1, <2>4 DEF Veto, Lag
  <2> QED
    BY <2>1, <2>2, <2>3, <2>4
<1> QED
  BY <1>3, <1>4, <1>5, Steady

(* A cycle selects from its own worktree, which holds all its cycle will   *)
(* land on.                                                                *)
LEMMA SelectStep ==
  ASSUME TypeOK, BranchInv, Select
  PROVE  BranchInv'
<1> DEFINE cycle == loop.cycle
<1>1. cycle \in Cycles /\ work[cycle] = Nothing /\ UNCHANGED <<local, origin, trees>>
  BY DEF Select, BranchInv, Working, At, TypeOK, Waiting
<1>2. PICK pick \in Selections(Mine) \ {Idle} : work' = [work EXCEPT ![cycle] = pick]
  BY DEF Select
<1>3. /\ pick \in Works /\ pick.kind # "none"
      /\ pick.kind = "execute" => pick.subject \notin Done(Mine)
      /\ pick.kind = "apply" => /\ pick.proposal \in Proposals(Mine)
                                /\ work[pick.proposal].subject \notin Changed(Mine)
  BY <1>2, Picked
<1>4. work'[cycle] = pick /\ \A c \in Cycles \ {cycle} : work'[c] = work[c]
  BY <1>1, <1>2 DEF TypeOK
<1>5. cycle \notin local.persistent \cup trees[cycle]
  BY <1>1 DEF BranchInv, Begun, Nothing
<1>6. /\ Mine' = trees[cycle] /\ Mine = trees[cycle]
      /\ trees[cycle] \cap Cycles \subseteq local.persistent
      /\ cycle \notin Mine
  BY <1>1, <1>5 DEF BranchInv, Snapshots, Select, Mine
<1>7. \A p \in Ran(Cycles, "propose") : p \in Cycles /\ p # cycle /\ work'[p] = work[p]
  BY <1>1, <1>4 DEF Ran, Nothing
<1>8. \A c \in Cycles \ {cycle} : work[c].kind = "apply" =>
          work[c].proposal \in Ran(Cycles, "propose")
  BY DEF BranchInv, Sourced
<1>9. Lag' /\ Snapshots'
  BY <1>1 DEF BranchInv, Lag, Snapshots
<1>10. Begun'
  BY <1>1, <1>3, <1>4 DEF BranchInv, Begun
<1>11. Sourced'
  <2>1. pick.kind = "apply" => pick.proposal \in Ran(Cycles, "propose")
    BY <1>3 DEF Proposals, Ran
  <2>2. \A p \in Ran(Cycles, "propose") : p \in Ran(Cycles, "propose")'
    BY <1>7 DEF Ran
  <2> QED
    BY <1>4, <1>8, <2>1, <2>2 DEF Sourced
<1>12. Once(local.persistent)'
  <2>1. Once(local.persistent)
    BY DEF BranchInv
  <2> QED
    BY <1>1, <2>1, <1>4, <1>5, <1>7, <1>8 DEF Once
<1>13. Once(Mine \cup {cycle})'
  <2>1. Once(Mine)
    BY <1>6, OnceDown DEF BranchInv
  <2>2. \A d \in Mine \cap Cycles : work[d].kind = "execute" /\ pick.kind = "execute" =>
            work[d].subject # pick.subject
    BY <1>3 DEF Done, Ran
  <2>3. \A d \in Mine \cap Cycles : work[d].kind = "apply" /\ pick.kind = "apply" =>
            work[work[d].proposal].subject # work[pick.proposal].subject
    BY <1>3 DEF Changed, Applied, Ran
  <2>4. pick.kind = "apply" => pick.proposal \in Ran(Cycles, "propose")
    BY <1>3 DEF Proposals, Ran
  <2>5. ASSUME NEW c \in (trees[cycle] \cup {cycle}) \cap Cycles,
               NEW d \in (trees[cycle] \cup {cycle}) \cap Cycles, c # d
        PROVE  /\ ~(work'[c].kind = "execute" /\ work'[c] = work'[d])
               /\ ~(/\ work'[c].kind = "apply" /\ work'[d].kind = "apply"
                    /\ work'[work'[c].proposal].subject = work'[work'[d].proposal].subject)
    <3>1. CASE c # cycle /\ d # cycle
      BY <1>4, <1>6, <1>7, <1>8, <2>1, <2>5, <3>1 DEF Once
    <3>2. CASE c = cycle /\ d # cycle
      BY <1>4, <1>6, <1>7, <1>8, <2>2, <2>3, <2>4, <2>5, <3>2
    <3>3. CASE c # cycle /\ d = cycle
      BY <1>4, <1>6, <1>7, <1>8, <2>2, <2>3, <2>4, <2>5, <3>3
    <3> QED
      BY <2>5, <3>1, <3>2, <3>3
  <2>6. cycle' = cycle
    BY DEF Select
  <2> QED
    BY <1>6, <2>5, <2>6 DEF Once
<1>14. Working'
  <2>1. loop'.pc = "planner" /\ loop'.cycle = cycle
    BY DEF Select, TypeOK
  <2> QED
    BY <1>3, <1>4, <1>13, <2>1 DEF Working, InLanes
<1> QED
  BY <1>9, <1>10, <1>11, <1>12, <1>14 DEF BranchInv

(* A worktree starts as a copy of the persistent branch.                   *)
LEMMA WorktreeStep ==
  ASSUME TypeOK, BranchInv, CreateWorktree
  PROVE  BranchInv'
<1>1. PICK c \in Cycles : /\ work[c] = Nothing
                          /\ trees' = [trees EXCEPT ![c] = local.persistent]
                          /\ loop' = [loop EXCEPT !.pc = "select", !.cycle = c]
  BY DEF CreateWorktree, First
<1>2. UNCHANGED <<local, origin, work>>
  BY DEF CreateWorktree
<1>3. Lag' /\ Sourced' /\ Once(local.persistent)'
  BY <1>2, OnceKept DEF BranchInv, Lag, Sourced, Ran
<1>4. Snapshots' /\ Begun'
  BY <1>1, <1>2 DEF BranchInv, Snapshots, Begun, TypeOK
<1>5. Working'
  BY <1>1, <1>2 DEF Working, InLanes, TypeOK
<1> QED
  BY <1>3, <1>4, <1>5 DEF BranchInv

LEMMA CommitStep ==
  ASSUME TypeOK, BranchInv, CommitRun
  PROVE  BranchInv'
<1>1. /\ loop.cycle \in Cycles /\ work[loop.cycle].kind # "none"
      /\ Once(Mine \cup {loop.cycle})
      /\ UNCHANGED <<local, origin, work>>
      /\ trees' = [trees EXCEPT ![loop.cycle] = @ \cup {loop.cycle}]
      /\ loop' = [loop EXCEPT !.pc = "land"]
  BY DEF CommitRun, BranchInv, Working, InLanes, At, Go, TypeOK, Waiting
<1>2. Lag' /\ Sourced' /\ Once(local.persistent)'
  BY <1>1, OnceKept DEF BranchInv, Lag, Sourced, Ran
<1>3. Snapshots' /\ Begun'
  BY <1>1 DEF BranchInv, Snapshots, Begun, TypeOK
<1>4. Mine' = Mine \cup {loop.cycle} /\ loop'.pc = "land" /\ loop'.cycle = loop.cycle
  BY <1>1 DEF Mine, TypeOK
<1>5. Once(Mine)'
  BY <1>1, <1>4 DEF Once
<1>6. Working'
  BY <1>1, <1>4, <1>5 DEF Working, InLanes
<1> QED
  BY <1>2, <1>3, <1>6 DEF BranchInv

LEMMA LandStep ==
  ASSUME TypeOK, BranchInv, Land
  PROVE  BranchInv'
<1>1. /\ loop.cycle \in Cycles /\ work[loop.cycle].kind # "none" /\ Once(Mine)
      /\ local.persistent \subseteq Mine
      /\ UNCHANGED <<origin, work, trees>>
      /\ local' = [local EXCEPT !.persistent = Mine]
      /\ loop' = [loop EXCEPT !.pc = "publish"]
  BY DEF Land, FastForwards, BranchInv, Working, InLanes, At, Go, Runs, TypeOK, Waiting
<1>2. local'.persistent = Mine /\ local'.base = local.base
  BY <1>1 DEF TypeOK
<1>3. Lag' /\ Snapshots' /\ Sourced'
  BY <1>1, <1>2 DEF BranchInv, Lag, Snapshots, Sourced, Ran
<1>4. Begun'
  BY <1>1, <1>2 DEF BranchInv, Begun, Snapshots, Mine
<1>5. Once(local.persistent)'
  BY <1>1, <1>2 DEF Once
<1>6. Working'
  BY <1>1, Loose DEF InLanes, TypeOK
<1> QED
  BY <1>3, <1>4, <1>5, <1>6 DEF BranchInv

LEMMA LaneSteps ==
  ASSUME TypeOK, BranchInv, PlannerDone \/ ManagerDone
  PROVE  BranchInv'
<1>1. /\ UNCHANGED <<local, origin, work, trees>> /\ loop'.cycle = loop.cycle
      /\ loop.pc \in InLanes /\ loop'.pc \in InLanes
  BY DEF PlannerDone, ManagerDone, At, Go, Runs, InLanes, TypeOK
<1>2. Once(Mine \cup {loop.cycle})'
  BY <1>1 DEF BranchInv, Working, Once, Mine
<1>3. Working'
  BY <1>1, <1>2 DEF BranchInv, Working, InLanes
<1>4. Lag'
  BY <1>1 DEF BranchInv, Lag
<1> QED
  BY <1>1, <1>3, <1>4, Steady

(* The steps after which no cycle is at work.                              *)
LEMMA EndSteps ==
  ASSUME TypeOK, BranchInv,
         Rest \/ SelectNothing \/ Report \/ LandRefused \/ PromoteRefused \/ Fail \/ Crash
  PROVE  BranchInv'
<1>1. UNCHANGED <<local, origin, work>> /\ Back
  BY DEF Rest, SelectNothing, Report, LandRefused, PromoteRefused, Fail, Crash, GiveUp, Runs, At
<1>2. Working'
  BY <1>1, Loose DEF Back, InLanes
<1>3. \A c \in Cycles : trees'[c] \cap Cycles \subseteq trees[c]
  <2>1. ASSUME NEW undo, GiveUp(undo) PROVE \A c \in Cycles : trees'[c] \subseteq trees[c]
    BY <2>1 DEF GiveUp, TypeOK
  <2>2. CASE LandRefused \/ PromoteRefused \/ Fail
    BY <2>1, <2>2 DEF LandRefused, PromoteRefused, Fail, At
  <2>3. CASE Rest \/ SelectNothing \/ Report \/ Crash
    BY <2>3 DEF Rest, SelectNothing, Report, Crash, Runs, TypeOK
  <2> QED
    BY <2>2, <2>3
<1>4. Lag'
  BY <1>1 DEF BranchInv, Lag
<1> QED
  BY <1>1, <1>2, <1>3, <1>4, Steady

LEMMA NextBranch ==
  ASSUME TypeOK, BranchInv, [Next]_vars
  PROVE  BranchInv'
<1>1. CASE UNCHANGED vars
  <2>1. Lag' /\ Working'
    BY <1>1, WorkingKept DEF vars, BranchInv, Lag
  <2> QED
    BY <1>1, <2>1, Steady DEF vars
<1>2. CASE Next
  BY <1>2, BranchSteps, PeopleSteps, SelectStep, WorktreeStep, CommitStep, LandStep,
     LaneSteps, EndSteps DEF Next, Pass
<1> QED
  BY <1>1, <1>2

(* Wherever the branches are, no item is executed by two commits and no    *)
(* subject is changed by two applies, whatever people push, pull and merge *)
(* and wherever cycles fail (run_cycle, _merge_cycle_branch).              *)
THEOREM LandedOnce == Spec => []LandsOnce
<1>1. TypeOK /\ [Next]_vars => TypeOK'
  BY NextTyped
<1>2. TypeOK /\ BranchInv /\ [Next]_vars => BranchInv'
  BY NextBranch
<1>3. BranchInv => LandsOnce
  <2> SUFFICES ASSUME BranchInv,
                      NEW B \in {local.persistent, local.base, origin.persistent, origin.base}
               PROVE  Once(B)
    BY DEF LandsOnce
  <2> QED
    BY OnceDown DEF BranchInv, Lag
<1> QED
  BY InitTyped, InitBranch, <1>1, <1>2, <1>3, PTL DEF Spec

-----------------------------------------------------------------------------
(* What becomes of a veto.                                                 *)

(* The outbox shows proposals that have landed.                            *)
Told == announced \subseteq Ran(local.persistent, "propose")

(* The owner answers what the outbox has shown.                            *)
Vetoed == \A p \in Cycles : veto[p] # "none" => p \in announced

Landed == loop.pc \in AfterLand => loop.cycle \in local.persistent

(* The control plane names the root before there is a worktree, then the   *)
(* worktree of the cycle, which holds every proposal shown until it is     *)
(* removed.                                                                *)
Remembered ==
    /\ loop.pc = "worktree" => recorded = Root
    /\ loop.pc \notin Waiting => recorded = loop.cycle /\ announced \subseteq trees[recorded]
    /\ loop.pc \in AfterLand \cup {"land"} => loop.cycle \in trees[loop.cycle]
    /\ recorded # Root => announced \subseteq trees[recorded] \/ trees[recorded] = {}

VetoInv == Told /\ Vetoed /\ Landed /\ Remembered

LEMMA InitVeto == Init => VetoInv
BY DEF Init, VetoInv, Told, Vetoed, Landed, Remembered, AfterLand, Waiting

(* Nothing leaves the persistent branch.                                   *)
LEMMA Grows ==
  ASSUME TypeOK, [Next]_vars
  PROVE  local.persistent \subseteq local'.persistent
<1> USE DEF TypeOK
<1>1. CASE Behind \/ Ahead \/ Diverged \/ Prepare \/ Align
  BY <1>1 DEF Behind, Ahead, Diverged, Prepare, Align, Aligned, Merged
<1>2. CASE Land
  BY <1>2 DEF Land, FastForwards
<1>3. CASE PeoplePull \/ PeopleMerge \/ PeopleResolve \/ PeopleCommit
  BY <1>3 DEF PeoplePull, PeopleMerge, PeopleResolve, PeopleCommit, Merged
<1>4. CASE LandRefused \/ PromoteRefused \/ Fail \/ Crash
  BY <1>4 DEF LandRefused, PromoteRefused, Fail, Crash, GiveUp, At
<1>5. CASE \/ InStep \/ Rest \/ CreateWorktree \/ Select \/ SelectNothing \/ PlannerDone
           \/ ManagerDone \/ CommitRun \/ Publish \/ Promote \/ Report \/ PeoplePush
           \/ \E p \in Cycles : Veto(p)
  BY <1>5 DEF InStep, Rest, CreateWorktree, Select, SelectNothing, PlannerDone, ManagerDone,
     CommitRun, Publish, Promote, Report, PeoplePush, Veto
<1>6. CASE UNCHANGED vars
  BY <1>6 DEF vars
<1> QED
  BY <1>1, <1>2, <1>3, <1>4, <1>5, <1>6 DEF Next, Pass

(* A pass goes on with its cycle, or back to where it has none.            *)
OnwardWith ==
    \/ loop'.pc \in Waiting \ {"worktree"}
    \/ UNCHANGED loop
    \/ /\ loop.pc \notin Waiting /\ loop'.cycle = loop.cycle /\ loop'.pc # "worktree"
       /\ loop'.pc \in AfterLand => loop.pc \in AfterLand
       /\ loop'.pc = "land" => loop.pc = "land"

(* Neither the runs, nor what is shown of them, change.                    *)
LEMMA Unmoved ==
  ASSUME TypeOK, VetoInv, [Next]_vars, OnwardWith, Vetoed',
         UNCHANGED <<work, trees, recorded, announced>>
  PROVE  VetoInv'
<1>1. Told'
  BY Grows DEF VetoInv, Told, Ran
<1>2. Landed'
  BY Grows DEF VetoInv, Landed, OnwardWith, Waiting, AfterLand
<1>3. Remembered'
  <2>1. CASE loop'.pc \in Waiting \ {"worktree"}
    BY <2>1 DEF VetoInv, Remembered, Waiting, AfterLand
  <2>2. CASE UNCHANGED loop
    BY <2>2 DEF VetoInv, Remembered
  <2>3. CASE /\ loop.pc \notin Waiting /\ loop'.cycle = loop.cycle /\ loop'.pc # "worktree"
             /\ loop'.pc \in AfterLand => loop.pc \in AfterLand
             /\ loop'.pc = "land" => loop.pc = "land"
    BY <2>3 DEF VetoInv, Remembered, Waiting
  <2> QED
    BY <2>1, <2>2, <2>3 DEF OnwardWith
<1> QED
  BY <1>1, <1>2, <1>3 DEF VetoInv

LEMMA UnmovedSteps ==
  ASSUME TypeOK, VetoInv, [Next]_vars,
         \/ InStep \/ Behind \/ Ahead \/ Diverged \/ Rest \/ PlannerDone \/ ManagerDone
         \/ Publish \/ Align \/ Promote \/ PeoplePush \/ PeoplePull \/ PeopleMerge
         \/ PeopleResolve \/ PeopleCommit \/ \E p \in Cycles : Veto(p)
  PROVE  VetoInv'
<1> USE DEF Runs, Bucket, At, Go, Back
<1>1. CASE InStep \/ Behind \/ Ahead \/ Diverged \/ Rest \/ PeopleResolve
  <2>1. UNCHANGED <<Runs, Bucket>> /\ OnwardWith
    BY <1>1 DEF TypeOK, InStep, Behind, Ahead, Diverged, Rest, PeopleResolve, OnwardWith, Waiting
  <2> QED
    BY <2>1, Unmoved DEF VetoInv, Vetoed
<1>2. CASE Publish \/ Align \/ Promote \/ ManagerDone
  <2>1. UNCHANGED <<Runs, Bucket>> /\ OnwardWith
    BY <1>2 DEF TypeOK, Publish, Align, Promote, ManagerDone, OnwardWith, Waiting, AfterLand
  <2> QED
    BY <2>1, Unmoved DEF VetoInv, Vetoed
<1>3. CASE PeoplePush \/ PeoplePull \/ PeopleMerge \/ PeopleCommit
  <2>1. UNCHANGED <<Runs, Bucket>> /\ OnwardWith
    BY <1>3 DEF PeoplePush, PeoplePull, PeopleMerge, PeopleCommit, OnwardWith
  <2> QED
    BY <2>1, Unmoved DEF VetoInv, Vetoed
<1>4. CASE PlannerDone
  <2>1. UNCHANGED <<work, trees, recorded, announced>> /\ OnwardWith
    BY <1>4 DEF TypeOK, PlannerDone, OnwardWith, Waiting, AfterLand
  <2>2. Vetoed'
    BY <1>4 DEF PlannerDone, VetoInv, Vetoed
  <2> QED
    BY <2>1, <2>2, Unmoved
<1>5. ASSUME NEW p \in Cycles, Veto(p)
      PROVE  VetoInv'
  <2>1. UNCHANGED <<work, trees, recorded, announced>> /\ OnwardWith
    BY <1>5 DEF Veto, OnwardWith
  <2>2. Vetoed'
    BY <1>5 DEF Veto, VetoInv, Vetoed, TypeOK
  <2> QED
    BY <2>1, <2>2, Unmoved
<1> QED
  BY <1>1, <1>2, <1>3, <1>4, <1>5

(* The steps that rebuild the control plane.                               *)
LEMMA RefreshSteps ==
  ASSUME TypeOK, VetoInv, [Next]_vars, Prepare \/ CreateWorktree
  PROVE  VetoInv'
<1>1. UNCHANGED <<work, announced>> /\ Told'
  BY Grows DEF Prepare, CreateWorktree, Runs, VetoInv, Told, Ran
<1>2. Vetoed'
  <2>1. \A p \in Cycles : veto'[p] # "none" => veto[p] # "none"
    BY DEF Prepare, CreateWorktree, Sorted, Pending
  <2> QED
    BY <1>1, <2>1 DEF VetoInv, Vetoed
<1>3. CASE Prepare
  BY <1>1, <1>2, <1>3 DEF Prepare, VetoInv, Landed, Remembered, Waiting, AfterLand, TypeOK
<1>4. CASE CreateWorktree
  <2>1. PICK c \in Cycles : /\ trees' = [trees EXCEPT ![c] = local.persistent]
                            /\ recorded' = c
                            /\ loop' = [loop EXCEPT !.pc = "select", !.cycle = c]
    BY <1>4 DEF CreateWorktree, First
  <2>2. announced \subseteq trees'[c]
    BY <2>1 DEF VetoInv, Told, Ran, TypeOK
  <2> QED
    BY <1>1, <1>2, <2>1, <2>2 DEF VetoInv, Landed, Remembered, Waiting, AfterLand, TypeOK
<1> QED
  BY <1>3, <1>4

(* The steps of the cycle that change its run.                             *)
LEMMA RunSteps ==
  ASSUME TypeOK, BranchInv, VetoInv, [Next]_vars, Select \/ CommitRun \/ Land \/ Report
  PROVE  VetoInv'
<1>1. loop.cycle \in Cycles /\ recorded = loop.cycle /\ announced \subseteq trees[recorded]
  BY DEF Select, CommitRun, Land, Report, At, TypeOK, Waiting, VetoInv, Remembered
<1>2. CASE Select
  <2>1. /\ work[loop.cycle] = Nothing
        /\ UNCHANGED <<local, trees, recorded, announced, veto>>
        /\ loop'.pc = "planner" /\ loop'.cycle = loop.cycle
    BY <1>2 DEF Select, Bucket, BranchInv, Working, At, TypeOK
  <2>2. \A c \in Cycles \ {loop.cycle} : work'[c] = work[c]
    BY <1>2 DEF Select, TypeOK
  <2>3. Told'
    BY <2>1, <2>2 DEF VetoInv, Told, Ran, Nothing
  <2> QED
    BY <1>1, <2>1, <2>3 DEF VetoInv, Vetoed, Landed, Remembered, Waiting, AfterLand
<1>3. CASE CommitRun
  <2>1. /\ UNCHANGED <<local, work, recorded, announced, veto>>
        /\ loop'.pc = "land" /\ loop'.cycle = loop.cycle
        /\ trees'[loop.cycle] = trees[loop.cycle] \cup {loop.cycle}
    BY <1>1, <1>3 DEF CommitRun, Bucket, Go, TypeOK
  <2> QED
    BY <1>1, <2>1 DEF VetoInv, Told, Ran, Vetoed, Landed, Remembered, Waiting, AfterLand
<1>4. CASE Land
  <2>1. /\ UNCHANGED <<work, trees, recorded, announced, veto>>
        /\ loop'.pc = "publish" /\ loop'.cycle = loop.cycle
        /\ local'.persistent = trees[loop.cycle]
        /\ loop.cycle \in trees[loop.cycle]
    BY <1>4 DEF Land, Runs, Bucket, Go, Mine, At, VetoInv, Remembered, TypeOK
  <2>2. Told'
    BY Grows, <2>1 DEF VetoInv, Told, Ran
  <2> QED
    BY <1>1, <2>1, <2>2 DEF VetoInv, Vetoed, Landed, Remembered, Waiting, AfterLand
<1>5. CASE Report
  <2>1. /\ UNCHANGED <<local, work, trees, recorded, veto>>
        /\ announced' = announced \cup ({loop.cycle} \cap Ran({loop.cycle}, "propose"))
        /\ loop'.pc = "idle"
        /\ loop.cycle \in trees[loop.cycle] /\ loop.cycle \in local.persistent
    BY <1>5 DEF Report, Runs, Back, At, VetoInv, Remembered, Landed, AfterLand
  <2>2. Told'
    BY <2>1 DEF VetoInv, Told, Ran
  <2> QED
    BY <1>1, <2>1, <2>2 DEF VetoInv, Vetoed, Landed, Remembered, Waiting, AfterLand
<1> QED
  BY <1>2, <1>3, <1>4, <1>5

(* The steps that end a cycle at its worktree's expense.                   *)
LEMMA LossSteps ==
  ASSUME TypeOK, VetoInv, [Next]_vars,
         SelectNothing \/ LandRefused \/ PromoteRefused \/ Fail \/ Crash
  PROVE  VetoInv'
<1>1. /\ UNCHANGED <<local, work, recorded, announced, veto>>
      /\ loop'.pc = "idle"
  BY DEF SelectNothing, LandRefused, PromoteRefused, Fail, Crash, GiveUp, Bucket, Back, At
<1>2. recorded # Root => announced \subseteq trees'[recorded] \/ trees'[recorded] = {}
  <2>1. CASE SelectNothing
    <3>1. loop.cycle \in Cycles /\ recorded = loop.cycle
      BY <2>1 DEF SelectNothing, At, TypeOK, Waiting, VetoInv, Remembered
    <3> QED
      BY <2>1, <3>1 DEF SelectNothing, TypeOK
  <2>2. CASE Crash /\ loop.pc = "select"
    <3>1. loop.cycle \in Cycles /\ recorded = loop.cycle
      BY <2>2 DEF TypeOK, Waiting, VetoInv, Remembered
    <3> QED
      BY <2>2, <3>1 DEF Crash, At, TypeOK
  <2>3. CASE Crash /\ loop.pc # "select"
    BY <2>3 DEF Crash, At, VetoInv, Remembered
  <2>4. CASE LandRefused \/ PromoteRefused \/ Fail
    <3>1. /\ loop.cycle \in Cycles /\ recorded = loop.cycle
          /\ announced \subseteq trees[loop.cycle]
      BY <2>4 DEF LandRefused, PromoteRefused, Fail, At, TypeOK, Waiting, VetoInv, Remembered
    <3>2. GiveUp(FALSE) \/ GiveUp(Applies)
      BY <2>4 DEF LandRefused, PromoteRefused, Fail, At
    <3>3. Applies => loop.cycle \notin announced
      BY DEF Applies, VetoInv, Told, Ran
    <3>4. announced \subseteq trees'[loop.cycle]
      BY <3>1, <3>2, <3>3 DEF GiveUp, TypeOK
    <3> QED
      BY <3>1, <3>4
  <2> QED
    BY <2>1, <2>2, <2>3, <2>4
<1> QED
  BY <1>1, <1>2 DEF VetoInv, Told, Ran, Vetoed, Landed, Remembered, Waiting, AfterLand

LEMMA NextVeto ==
  ASSUME TypeOK, BranchInv, VetoInv, [Next]_vars
  PROVE  VetoInv'
<1>1. CASE UNCHANGED vars
  BY <1>1, Unmoved DEF vars, OnwardWith, VetoInv, Vetoed
<1>2. CASE Next
  BY <1>2, UnmovedSteps, RefreshSteps, RunSteps, LossSteps DEF Next, Pass
<1> QED
  BY <1>1, <1>2

(* What a proposal is dropped for, when the root does not show it or when  *)
(* the remembered workspace does not.                                      *)
LEMMA Orphaned ==
  ASSUME TypeOK, VetoInv, NEW p \in Cycles, veto[p] = "pending", NEW ws,
         ~Matches(p, ws), recorded = Root \/ ws = trees
  PROVE  \/ ClosedAnywhere(p)
         \/ p \notin Proposals(local.base)
         \/ ~Latest(p, {q \in Cycles : work[q].kind = "propose"})
         \/ recorded # Root /\ trees[recorded] = {}
<1>1. ClosedAnywhere(p) \/ ~OpenIn(p, recorded, ws)
  BY DEF Matches
<1>2. ASSUME NEW B, ~Latest(p, B)
      PROVE  ~Latest(p, {q \in Cycles : work[q].kind = "propose"})
  BY <1>2 DEF Latest, Proposals, Ran
<1>3. CASE recorded = Root
  BY <1>1, <1>2, <1>3 DEF OpenIn, Open, ClosedAnywhere
<1>4. CASE recorded # Root
  <2>1. recorded \in Cycles /\ ws = trees
    BY <1>4 DEF TypeOK
  <2>2. p \in Ran(local.persistent, "propose")
    BY DEF VetoInv, Vetoed, Told
  <2>3. p \in Proposals(trees[recorded]) \/ trees[recorded] = {}
    BY <1>4, <2>2 DEF VetoInv, Vetoed, Remembered, Proposals, Ran
  <2> QED
    BY <1>1, <1>2, <1>4, <2>1, <2>3 DEF OpenIn, Open, ClosedAnywhere
<1> QED
  BY <1>3, <1>4

(* A veto is archived as an orphan only when its proposal is closed or     *)
(* replaced, when the root does not show it, or when the workspace the     *)
(* control plane remembers is gone (refresh_control_plane).                *)
THEOREM VetoHeeded == Spec => VetoKept
<1> DEFINE Inv == TypeOK /\ BranchInv /\ VetoInv
<1>1. Init => Inv
  BY InitTyped, InitBranch, InitVeto
<1>2. Inv /\ [Next]_vars => Inv'
  BY NextTyped, NextBranch, NextVeto
<1>3. ASSUME Inv, Next
      PROVE  \A p \in Cycles :
                veto[p] = "pending" /\ veto'[p] = "orphaned" =>
                \/ ClosedAnywhere(p)
                \/ p \notin Proposals(local.base)
                \/ ~Latest(p, {q \in Cycles : work[q].kind = "propose"})
                \/ recorded # Root /\ trees[recorded] = {}
  <2> SUFFICES ASSUME NEW p \in Cycles, veto[p] = "pending", veto'[p] = "orphaned"
               PROVE  \/ ClosedAnywhere(p)
                      \/ p \notin Proposals(local.base)
                      \/ ~Latest(p, {q \in Cycles : work[q].kind = "propose"})
                      \/ recorded # Root /\ trees[recorded] = {}
    OBVIOUS
  <2>1. Prepare \/ CreateWorktree
    BY <1>3 DEF Next, Pass, InStep, Behind, Ahead, Diverged, Rest, Select, SelectNothing,
       PlannerDone, ManagerDone, CommitRun, Land, LandRefused, Publish, Align, Promote,
       PromoteRefused, Report, Fail, Crash, GiveUp, PeoplePush, PeoplePull, PeopleMerge,
       PeopleResolve, PeopleCommit, Veto, Bucket, At, TypeOK
  <2>2. CASE Prepare
    <3>1. ~Matches(p, trees)
      BY <1>3, <2>2 DEF Prepare, Sorted
    <3> QED
      BY <1>3, <3>1, Orphaned
  <2>3. CASE CreateWorktree
    <3>1. ~Matches(p, trees')
      BY <1>3, <2>3 DEF CreateWorktree, Sorted
    <3>2. recorded = Root
      BY <1>3, <2>3 DEF CreateWorktree, At, VetoInv, Remembered
    <3> QED
      BY <1>3, <3>1, <3>2, Orphaned
  <2> QED
    BY <2>1, <2>2, <2>3
<1>4. Inv /\ [Next]_vars =>
        [ \A p \in Cycles :
             veto[p] = "pending" /\ veto'[p] = "orphaned" =>
             \/ ClosedAnywhere(p)
             \/ p \notin Proposals(local.base)
             \/ ~Latest(p, {q \in Cycles : work[q].kind = "propose"})
             \/ recorded # Root /\ trees[recorded] = {} ]_vars
  BY <1>3
<1> QED
  BY <1>1, <1>2, <1>4, PTL DEF Spec, VetoKept
=============================================================================
