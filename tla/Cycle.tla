------------------------------- MODULE Cycle -------------------------------
(***************************************************************************)
(* One loop that works in cycles (run_cycle of harness_autonomy/core.py)   *)
(* with a persistent branch and state carried forward: every cycle takes a *)
(* worktree of the persistent branch, executes a backlog item, proposes a  *)
(* change of state or applies a proposal the owner has not vetoed, and     *)
(* lands its commit on the persistent branch, then on the base branch,     *)
(* locally and at the origin.  People push, pull, merge and veto meanwhile,*)
(* and a cycle may fail or die between any two steps.                      *)
(*                                                                         *)
(* A branch is the set of the commits it holds: 0 is where everything      *)
(* starts, a cycle makes the commit of its number, and the numbers after   *)
(* MaxCycles are commits of people.  A merge is the union.  Run evidence   *)
(* is tracked, so a cycle that gets to its end always has a commit.        *)
(***************************************************************************)
EXTENDS Integers, FiniteSets, FiniteSetsExt

CONSTANTS Items,           \* backlog items linked to the active goal
          Manual,          \* those that wait for an operator's decision
          Closeout,        \* the goal itself, as the subject of a proposal
          NoSubject,
          MinVisibility,   \* refreshes a proposal has to be seen for
          CheckedOut,      \* the persistent branch has a worktree of its own
          MaxCycles, MaxOutside, MaxTrouble, MaxVetoes,  \* bounds
          PeopleOps        \* what people do to the branches

ASSUME CycleAssumption ==
    /\ Manual \subseteq Items
    /\ Closeout \notin Items /\ NoSubject \notin Items \cup {Closeout}
    /\ CheckedOut \in BOOLEAN
    /\ MinVisibility \in Nat \ {0} /\ MaxCycles \in Nat \ {0}
    /\ {MaxOutside, MaxTrouble, MaxVetoes} \subseteq Nat
    /\ PeopleOps \subseteq {"push", "pull", "merge", "commit"}

Cycles   == 1 .. MaxCycles
Outside  == MaxCycles + 1 .. MaxCycles + MaxOutside
Commits  == {0} \cup Cycles \cup Outside
Subjects == Items \cup {Closeout}
Root     == 0                     \* the repository's own checkout, of base

VARIABLES
    local, origin,  \* the branches here and at the origin
    work,           \* what each cycle was selected to do
    trees,          \* commits and finished runs in each cycle's worktree
    failed,         \* cycles whose worktree holds a failure of their apply
    age,            \* refreshes since a proposal was first seen, or -1
    recorded,       \* the workspace the control plane's bucket names
    announced,      \* proposals with an entry in the outbox
    veto,           \* the owner's message about a proposal
    loop,           \* where the loop is
    trouble         \* failures and crashes so far

vars == <<local, origin, work, trees, failed, age, recorded, announced, veto,
          loop, trouble>>

Nothing == [kind |-> "none", subject |-> NoSubject, proposal |-> 0]
Idle    == [kind |-> "idle", subject |-> NoSubject, proposal |-> 0]

Places == {"idle", "paused", "prepare", "worktree", "select", "planner",
           "manager", "lanes", "land", "publish", "align", "promote",
           "report"}

----------------------------------------------------------------------------
(* What the files of a tree say. *)

Ran(B, kind) == {c \in B \cap Cycles : work[c].kind = kind}

Done(B)      == {work[c].subject : c \in Ran(B, "execute")}
Proposals(B) == Ran(B, "propose")
Applied(B)   == {work[c].proposal : c \in Ran(B, "apply")}
Changed(B)   == {work[p].subject : p \in Applied(B)}

(* Mutant: an item is taken off the list when a cycle takes it.            *)
ExecutableOnce(B) ==
    ((Items \ Manual) \cup Changed(B)) \cap (Items \ {work[c].subject : c \in Cycles})

Executable(B) == ((Items \ Manual) \cup Changed(B)) \cap (Items \ Done(B))

Latest(p, B) ==
    \A q \in Proposals(B) : work[q].subject = work[p].subject => q <= p

Durable(p) == veto[p] \in {"pending", "kept"}

(* The state machine of a proposal comes to ready-auto-apply. *)
Ready(p, B) ==
    /\ p \notin Applied(B)
    /\ work[p].subject \notin Changed(B)      \* already-satisfied
    /\ Latest(p, B)                           \* superseded
    /\ ~Durable(p)                            \* vetoed
    /\ p \in announced                        \* waiting-outbox
    /\ age[p] >= MinVisibility                \* waiting-visibility

ReadyProposals(B) == {p \in Proposals(B) : Ready(p, B)}

First(P) == {p \in P : \A q \in P : p <= q}

Pick(kind, subject, proposal) ==
    [kind |-> kind, subject |-> subject, proposal |-> proposal]

(* Mutant: a closeout that waits is looked at before the ready proposals.  *)
SelectionsWaitFirst(B) ==
    IF Executable(B) # {}
    THEN {Pick("execute", i, 0) : i \in Executable(B)}
    ELSE IF Closeout \in {work[p].subject : p \in Proposals(B)}
    THEN {Idle}
    ELSE IF ReadyProposals(B) # {}
    THEN {Pick("apply", NoSubject, p) : p \in First(ReadyProposals(B))}
    ELSE {Pick("propose", i, 0) : i \in (Items \ Done(B)) \cup
             (IF Items \subseteq Done(B) THEN {Closeout} ELSE {})}

(* select_task: executable items, then a ready proposal, then the strategy *)
(* for the goal: its closeout, or an item that waits for an operator. A    *)
(* closeout that is waiting or was vetoed leaves nothing to do.            *)
Selections(B) ==
    IF Executable(B) # {}
    THEN {Pick("execute", i, 0) : i \in Executable(B)}
    ELSE IF ReadyProposals(B) # {}
    THEN {Pick("apply", NoSubject, p) : p \in First(ReadyProposals(B))}
    ELSE IF ~(Items \subseteq Done(B))
    THEN {Pick("propose", i, 0) : i \in Items \ Done(B)}
         \cup {Pick("note", NoSubject, 0)}
    ELSE IF Closeout \in {work[p].subject : p \in Proposals(B)}
    THEN {Idle}
    ELSE {Pick("propose", Closeout, 0), Pick("note", NoSubject, 0)}

----------------------------------------------------------------------------
(* The control plane. *)

(* Every refresh that advances rebuilds the bucket from one tree: what the *)
(* tree lacks is forgotten.                                                *)
Refreshed(B) ==
    [p \in Cycles |-> IF p \notin Proposals(B) THEN -1
                      ELSE Min({age[p] + 1, MinVisibility})]

Open(p, B) == p \in Proposals(B) \ Applied(B) /\ Latest(p, B)

OpenIn(p, w, ws) ==
    IF w = Root THEN Open(p, local.base)
    ELSE Open(p, ws[w]) /\ ~(failed[w] /\ work[w].proposal = p)

ClosedAnywhere(p) ==
    \/ p \in Applied(local.base)
    \/ CheckedOut /\ p \in Applied(local.persistent)
    \/ \E c \in Cycles : \/ p \in Applied(trees[c])
                         \/ failed[c] /\ work[c].proposal = p

(* The worktrees that show a proposal: those of cycles, and the checkout   *)
(* of the persistent branch, without which none of them counts.            *)
Shown(p, ws) ==
    Cardinality({w \in Cycles : OpenIn(p, w, ws)})
    + (IF Open(p, local.persistent) THEN 1 ELSE 0)

(* Mutant: the workspace the bucket names does not count.                  *)
MatchesByTail(p, ws) == ~ClosedAnywhere(p) /\ CheckedOut /\ Shown(p, ws) = 1

(* A veto stays when its proposal is open in the workspace the bucket last *)
(* named, or in exactly one of the worktrees there are.                    *)
Matches(p, ws) ==
    /\ ~ClosedAnywhere(p)
    /\ \/ OpenIn(p, recorded, ws)
       \/ CheckedOut /\ Shown(p, ws) = 1

Pending == {p \in Cycles : veto[p] = "pending"}

(* The pending messages of a snapshot that match nothing are archived.     *)
Sorted(snapshot, ws) ==
    [p \in Cycles |-> IF p \in snapshot \cap Pending /\ ~Matches(p, ws)
                      THEN "orphaned" ELSE veto[p]]

----------------------------------------------------------------------------
Init ==
    /\ local = [persistent |-> {}, base |-> {0}]
    /\ origin = [persistent |-> {}, base |-> {0}]
    /\ work = [c \in Cycles |-> Nothing]
    /\ trees = [c \in Cycles |-> {}]
    /\ failed = [c \in Cycles |-> FALSE]
    /\ age = [p \in Cycles |-> -1]
    /\ recorded = Root
    /\ announced = {}
    /\ veto = [p \in Cycles |-> "none"]
    /\ loop = [pc |-> "idle", cycle |-> 0, inbox |-> {}]
    /\ trouble = 0

At(pc) == loop.pc = pc
Go(pc) == loop' = [loop EXCEPT !.pc = pc]
Back   == loop' = [pc |-> "idle", cycle |-> 0, inbox |-> {}]

Bucket == <<age, recorded, announced, veto>>
Runs   == <<work, trees, failed>>

(* run_persistent_branch_preflight compares with the origin's base. *)
InStep ==
    /\ At("idle")
    /\ local.persistent \in {{}, origin.base}
    /\ Go("prepare")
    /\ UNCHANGED <<local, origin, Runs, Bucket, trouble>>

Behind ==
    /\ At("idle")
    /\ local.persistent # {}
    /\ local.persistent \subseteq origin.base /\ local.persistent # origin.base
    /\ local' = [local EXCEPT !.persistent = origin.base]
    /\ Go("prepare")
    /\ UNCHANGED <<origin, Runs, Bucket, trouble>>

(* align_promotion_base_ref, which leaves a base that is no ancestor alone. *)
Aligned ==
    IF local.base \subseteq local.persistent
    THEN [local EXCEPT !.base = local.persistent] ELSE local

Merged == [local EXCEPT !.persistent = @ \cup origin.base]

Ahead ==
    /\ At("idle")
    /\ origin.base \subseteq local.persistent /\ local.persistent # origin.base
    /\ local' = Aligned
    /\ Go("prepare")
    /\ UNCHANGED <<origin, Runs, Bucket, trouble>>

(* A merge without conflict, in the checkout of the branch if it has one;  *)
(* otherwise the loop pauses.                                              *)
Diverged ==
    /\ At("idle")
    /\ local.persistent # {}
    /\ ~(local.persistent \subseteq origin.base)
    /\ ~(origin.base \subseteq local.persistent)
    /\ \/ /\ CheckedOut
          /\ local' = Merged
          /\ Go("prepare")
       \/ Go("paused") /\ UNCHANGED local
    /\ UNCHANGED <<origin, Runs, Bucket, trouble>>

(* Branches, the root's refresh and the selection there, which may end the *)
(* cycle when the root shows what the persistent branch holds.             *)
Prepare ==
    /\ At("prepare")
    /\ LET persistent == IF local.persistent # {} THEN local.persistent
                         ELSE IF origin.persistent # {} THEN origin.persistent
                         ELSE local.base
       IN /\ local' = [local EXCEPT !.persistent = persistent]
          /\ loop' = [loop EXCEPT !.pc = "worktree", !.inbox = Pending]
    /\ age' = Refreshed(local.base)
    /\ veto' = Sorted(Pending, trees)
    /\ recorded' = Root
    /\ UNCHANGED <<origin, Runs, announced, trouble>>

Rest ==
    /\ At("worktree")
    /\ Idle \in Selections(local.base)
    /\ local.base = local.persistent
    /\ Back
    /\ UNCHANGED <<local, origin, Runs, Bucket, trouble>>

(* The worktree of the persistent branch, and the refresh over it. *)
CreateWorktree ==
    /\ At("worktree")
    /\ ~(Idle \in Selections(local.base) /\ local.base = local.persistent)
    /\ \E c \in First({b \in Cycles : work[b] = Nothing}) :
          /\ trees' = [trees EXCEPT ![c] = local.persistent]
          /\ recorded' = c
          /\ loop' = [loop EXCEPT !.pc = "select", !.cycle = c]
    /\ age' = Refreshed(local.persistent)
    /\ veto' = Sorted(loop.inbox, trees')
    /\ UNCHANGED <<local, origin, work, failed, announced, trouble>>

Mine == trees[loop.cycle]

(* Mutant: the cycle selects what the root shows.                          *)
SelectsFromRoot ==
    /\ At("select")
    /\ \E pick \in Selections(local.base) \ {Idle} :
          work' = [work EXCEPT ![loop.cycle] = pick]
    /\ loop' = [loop EXCEPT !.pc = "planner", !.inbox = Pending]
    /\ UNCHANGED <<local, origin, trees, failed, Bucket, trouble>>

(* The selection in the worktree, and the activation of what it found. *)
Select ==
    /\ At("select")
    /\ \E pick \in Selections(Mine) \ {Idle} :
          work' = [work EXCEPT ![loop.cycle] = pick]
    /\ loop' = [loop EXCEPT !.pc = "planner", !.inbox = Pending]
    /\ UNCHANGED <<local, origin, trees, failed, Bucket, trouble>>

SelectNothing ==
    /\ At("select")
    /\ Idle \in Selections(Mine)
    /\ trees' = [trees EXCEPT ![loop.cycle] = {}]
    /\ Back
    /\ UNCHANGED <<local, origin, work, failed, Bucket, trouble>>

(* The planner's lane archives the messages it was shown. *)
PlannerDone ==
    /\ At("planner")
    /\ veto' = [p \in Cycles |-> IF p \in loop.inbox /\ veto[p] = "pending"
                                 THEN "kept" ELSE veto[p]]
    /\ Go("manager")
    /\ UNCHANGED <<local, origin, Runs, age, recorded, announced, trouble>>

(* The manager approves; a proposal is applied to the worktree's files. *)
ManagerDone ==
    /\ At("manager")
    /\ Go("lanes")
    /\ UNCHANGED <<local, origin, Runs, Bucket, trouble>>

(* Implementer, reviewer and verifier; the guard, the receipt of an apply, *)
(* the item moved to completed, the commit and the push of its branch.     *)
CommitRun ==
    /\ At("lanes")
    /\ trees' = [trees EXCEPT ![loop.cycle] = @ \cup {loop.cycle}]
    /\ Go("land")
    /\ UNCHANGED <<local, origin, work, failed, Bucket, trouble>>

FastForwards == local.persistent \subseteq Mine

Land ==
    /\ At("land")
    /\ FastForwards
    /\ local' = [local EXCEPT !.persistent = Mine]
    /\ Go("publish")
    /\ UNCHANGED <<origin, Runs, Bucket, trouble>>

Publish ==
    /\ At("publish")
    /\ origin.persistent \subseteq local.persistent
    /\ origin' = [origin EXCEPT !.persistent = local.persistent]
    /\ Go("align")
    /\ UNCHANGED <<local, Runs, Bucket, trouble>>

Align ==
    /\ At("align")
    /\ local' = Aligned
    /\ Go(IF Aligned = local THEN "report" ELSE "promote")
    /\ UNCHANGED <<origin, Runs, Bucket, trouble>>

Promote ==
    /\ At("promote")
    /\ origin.base \subseteq local.base
    /\ origin' = [origin EXCEPT !.base = local.base]
    /\ Go("report")
    /\ UNCHANGED <<local, Runs, Bucket, trouble>>

(* The report and the outbox entry, which names the proposal made. *)
Report ==
    /\ At("report")
    /\ announced' = announced \cup ({loop.cycle} \cap Ran({loop.cycle}, "propose"))
    /\ Back
    /\ UNCHANGED <<local, origin, Runs, age, recorded, veto, trouble>>

(* The cycle raises. From the apply on, until it has landed everywhere, a  *)
(* cycle that applies undoes its change, drops its receipt and leaves the  *)
(* reason in its worktree.                                                 *)
GiveUp(undo) ==
    /\ failed' = [failed EXCEPT ![loop.cycle] = undo]
    /\ trees' = [trees EXCEPT ![loop.cycle] = IF undo THEN @ \ {loop.cycle} ELSE @]
    /\ Back
    /\ UNCHANGED <<local, origin, work, Bucket>>

Applies == work[loop.cycle].kind = "apply"

LandRefused ==
    /\ At("land")
    /\ ~FastForwards
    /\ GiveUp(Applies)
    /\ UNCHANGED trouble

PromoteRefused ==
    /\ At("promote")
    /\ ~(origin.base \subseteq local.base)
    /\ GiveUp(Applies)
    /\ UNCHANGED trouble

Fail ==
    /\ loop.pc \in {"planner", "manager", "lanes", "land", "publish", "align",
                    "promote", "report"}
    /\ trouble < MaxTrouble
    /\ trouble' = trouble + 1
    /\ CASE loop.pc \in {"planner", "report"} -> GiveUp(FALSE)
         [] At("manager") -> GiveUp(FALSE) \/ GiveUp(Applies)
         [] OTHER -> GiveUp(Applies)

(* The process dies. A worktree in which no run had begun is clean, and    *)
(* the next cycle removes it before it does anything else.                 *)
Crash ==
    /\ ~At("idle") /\ ~At("paused")
    /\ trouble < MaxTrouble
    /\ trouble' = trouble + 1
    /\ trees' = IF At("select") THEN [trees EXCEPT ![loop.cycle] = {}] ELSE trees
    /\ Back
    /\ UNCHANGED <<local, origin, work, failed, Bucket>>

----------------------------------------------------------------------------
(* People, at the origin, in the root checkout and in the inbox. *)

Fresh == Outside \ (origin.base \cup local.base \cup local.persistent)

PeoplePush ==
    /\ "push" \in PeopleOps
    /\ \E x \in Fresh : origin' = [origin EXCEPT !.base = @ \cup {x}]
    /\ UNCHANGED <<local, Runs, Bucket, loop, trouble>>

PeoplePull ==
    /\ "pull" \in PeopleOps
    /\ ~(origin.base \subseteq local.base)
    /\ local' = [local EXCEPT !.base = @ \cup origin.base]
    /\ UNCHANGED <<origin, Runs, Bucket, loop, trouble>>

PeopleMerge ==
    /\ "merge" \in PeopleOps
    /\ local.persistent # {} /\ ~(origin.base \subseteq local.persistent)
    /\ local' = Merged
    /\ UNCHANGED <<origin, Runs, Bucket, loop, trouble>>

(* What the loop asks for when it pauses; it resumes by itself. *)
PeopleResolve ==
    /\ At("paused")
    /\ local' = Merged
    /\ Back
    /\ UNCHANGED <<origin, Runs, Bucket, trouble>>

PeopleCommit ==
    /\ "commit" \in PeopleOps
    /\ \E x \in Fresh : local' = [local EXCEPT !.base = @ \cup {x}]
    /\ UNCHANGED <<origin, Runs, Bucket, loop, trouble>>

Veto(p) ==
    /\ p \in announced
    /\ veto[p] = "none"
    /\ Cardinality({q \in Cycles : veto[q] # "none"}) < MaxVetoes
    /\ veto' = [veto EXCEPT ![p] = "pending"]
    /\ UNCHANGED <<local, origin, Runs, age, recorded, announced, loop, trouble>>

----------------------------------------------------------------------------
Pass ==
    \/ InStep \/ Behind \/ Ahead \/ Diverged \/ Prepare \/ Rest
    \/ CreateWorktree \/ Select \/ SelectNothing \/ PlannerDone \/ ManagerDone
    \/ CommitRun \/ Land \/ LandRefused \/ Publish \/ Align \/ Promote
    \/ PromoteRefused \/ Report

Next ==
    \/ Pass \/ Fail \/ Crash
    \/ PeoplePush \/ PeoplePull \/ PeopleMerge \/ PeopleResolve
    \/ PeopleCommit
    \/ \E p \in Cycles : Veto(p)

Spec == Init /\ [][Next]_vars

(* The loop goes on, and people clear up what it has stopped for. *)
FairSpec == Spec /\ WF_vars(Pass) /\ WF_vars(PeopleResolve)

----------------------------------------------------------------------------
Waiting == {"idle", "paused", "prepare", "worktree"}

(* Types: every variable holds what the loop and people may store there,   *)
(* and from its worktree on a pass has a cycle.                            *)
TypeOK ==
    /\ local \in [persistent : SUBSET Commits, base : SUBSET Commits]
    /\ origin \in [persistent : SUBSET Commits, base : SUBSET Commits]
    /\ work \in [Cycles -> [kind : {"none", "execute", "propose", "note", "apply"},
                           subject : Subjects \cup {NoSubject}, proposal : {0} \cup Cycles]]
    /\ trees \in [Cycles -> SUBSET Commits]
    /\ failed \in [Cycles -> BOOLEAN]
    /\ age \in [Cycles -> -1 .. MinVisibility]
    /\ recorded \in {Root} \cup Cycles
    /\ announced \subseteq Cycles
    /\ veto \in [Cycles -> {"none", "pending", "kept", "orphaned"}]
    /\ loop.pc \notin Waiting => loop.cycle \in Cycles
    /\ loop \in [pc : Places, cycle : {0} \cup Cycles, inbox : SUBSET Cycles]
    /\ trouble \in 0 .. MaxTrouble

(* No two commits of a branch execute one item, and no two of them apply a *)
(* proposal on one subject.                                                *)
Once(B) ==
    \A c, d \in B \cap Cycles :
        c # d =>
        /\ ~(work[c].kind = "execute" /\ work[c] = work[d])
        /\ ~(/\ work[c].kind = "apply" /\ work[d].kind = "apply"
             /\ work[work[c].proposal].subject = work[work[d].proposal].subject)

(* Wherever the branches are, no item is executed by two commits and no    *)
(* subject is changed by two applies: a cycle selects from the tree it     *)
(* will land on, not from the root's.                                      *)
LandsOnce ==
    \A B \in {local.persistent, local.base, origin.persistent, origin.base} : Once(B)

(* A veto is dropped as an orphan only when its proposal is closed or      *)
(* replaced, when the root does not show it, or when the workspace the     *)
(* control plane remembers is gone.                                        *)
VetoKept ==
    [][ \A p \in Cycles :
          veto[p] = "pending" /\ veto'[p] = "orphaned" =>
          \/ ClosedAnywhere(p)
          \/ p \notin Proposals(local.base)
          \/ ~Latest(p, {q \in Cycles : work[q].kind = "propose"})
          \/ recorded # Root /\ trees[recorded] = {} ]_vars

(* An item that waits for nobody reaches the persistent branch. *)
EveryItemLands ==
    \A i \in Items \ Manual : <>[](i \in Done(local.persistent))

(* The bound on cycles is reached. *)
Spent == \A c \in Cycles : work[c] # Nothing

(* A proposal the outbox has shown is applied in the end, unless the owner *)
(* vetoes it, a later proposal on its subject replaces it, its apply fails *)
(* or the base holds a commit of its own: the root then never shows the    *)
(* proposal, and each refresh there forgets how long it has been seen.     *)
ProposalSettles ==
    \A p \in Cycles :
        p \in announced ~>
        \/ p \in Applied(local.persistent) \/ veto[p] # "none" \/ Spent
        \/ ~Latest(p, local.persistent) \/ ClosedAnywhere(p)
        \/ ~(local.base \subseteq local.persistent \cup origin.base)
=============================================================================
