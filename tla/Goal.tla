-------------------------------- MODULE Goal --------------------------------
(***************************************************************************)
(* The goal store of one target and everybody who writes it: the owner who *)
(* registers and replaces goals, the watch that splits the active goal     *)
(* into tasks, verifies its gates and finishes it, and the status commands *)
(* that refresh it too.  pointer, goals, progress, backlog, published and  *)
(* proofs are files; the rest of the store follows from them.              *)
(***************************************************************************)
EXTENDS Naturals, Sequences, FiniteSets

CONSTANTS
  Goals, NoGoal,
  Production,   \* the goals with completion gates; the others are prototypes
  Roadmap,      \* the keys of a roadmap's tasks, in order
  MaxPackets,   \* bound: task packets of all goals together
  MaxTrouble    \* bound: killed commands, status commands, setbacks together

Verify == "task-verify-gates"
Repair == "task-repair-gates"
Fallback == "task-repair-scope"

ASSUME GoalAssumption ==
  /\ NoGoal \notin Goals /\ IsFiniteSet(Goals)
  /\ Production \subseteq Goals
  /\ Roadmap \in Seq(STRING) /\ Roadmap # <<>>
  /\ \A i \in DOMAIN Roadmap : Roadmap[i] \notin {Verify, Repair, Fallback}
  /\ \A n \in {MaxPackets, MaxTrouble} : n \in Nat

VARIABLES
  pointer,    \* goals/active.json
  goals,      \* goals/<id>/goal.json
  progress,   \* goals/<id>/progress.json: the tasks it knows
  backlog,    \* task packets of a goal, and what became of their backlog items
  published,  \* items with a publication receipt
  proofs,     \* published items whose request checks have a receipt
  product,    \* the checkout: its commit, and whether the audit passes there
  evidence,   \* the commit the last passing gate evidence is bound to; 0: none
  report,     \* the last report of the gate verifier
  act,        \* where the watch and the status command stand, and what they read
  owner,      \* where `harness goal` stands
  faults, reads, setbacks   \* killed commands, status commands, bad verdicts and replaced goals

store == <<pointer, goals, progress>>
work == <<backlog, published, proofs, product>>
gates == <<evidence, report>>
bounds == <<faults, reads, setbacks>>
vars == <<store, work, gates, act, owner, bounds>>

-----------------------------------------------------------------------------
Actors == {"watch", "status"}
Keys == {Roadmap[i] : i \in DOMAIN Roadmap} \cup {Verify, Repair, Fallback}
Payload == [status : {"none", "active", "completed", "archived"},
            unpublished : BOOLEAN, pending : BOOLEAN]
NoPayload == [status |-> "none", unpublished |-> FALSE, pending |-> FALSE]
Task == [key : Keys, packet : 1..MaxPackets, linked : BOOLEAN,
         status : {"", "draft", "queued", "completed", "blocked"}]
Idle == [pc |-> "idle", goal |-> NoGoal, tasks |-> <<>>, payload |-> NoPayload]
NoOwner == [pc |-> "idle", new |-> NoGoal, old |-> NoGoal, from |-> "text"]
NoReport == [head |-> 0, outcome |-> "none"]

Init ==
  /\ pointer = NoGoal
  /\ goals = [g \in Goals |-> NoPayload]
  /\ progress = [g \in Goals |-> <<>>]
  /\ backlog = [g \in Goals |-> <<>>]
  /\ published = {} /\ proofs = {}
  /\ product = [head |-> 1, sound |-> TRUE]
  /\ evidence = [g \in Goals |-> 0]
  /\ report = [g \in Goals |-> NoReport]
  /\ act = [a \in Actors |-> Idle]
  /\ owner = NoOwner
  /\ faults = 0 /\ reads = 0 /\ setbacks = 0

-----------------------------------------------------------------------------
(* What a task of the roadmap waits for, in the words of its two readers:  *)
(* the watch looks for the key among the completed items of every goal,    *)
(* the planner only among the tasks of its own.                            *)
Needs(g, key) ==
  IF g \in Production
  THEN {Roadmap[i - 1] : i \in {j \in 2..Len(Roadmap) : Roadmap[j] = key}}
  ELSE {}

Completed(g) == {n \in DOMAIN backlog[g] : backlog[g][n].status = "completed"}

Ready(g, n) ==
  /\ backlog[g][n].status = "queued"
  /\ Needs(g, backlog[g][n].key)
       \subseteq UNION {{backlog[h][m].key : m \in Completed(h)} : h \in Goals}

AnyReady == \E g \in Goals : \E n \in DOMAIN backlog[g] : Ready(g, n)
AnyRepair == \E g \in Goals : \E n \in DOMAIN backlog[g] : Ready(g, n) /\ backlog[g][n].key = Repair
HasGoal == pointer # NoGoal /\ goals[pointer].status = "active"

(* Tasks that carry request checks: the last of the roadmap, and those the *)
(* gates bring about.                                                      *)
Checked(key) == key \in {Roadmap[Len(Roadmap)], Verify, Repair}

In(tasks, S) == {i \in DOMAIN tasks : tasks[i].key \in S}
Done(tasks) == {i \in DOMAIN tasks : tasks[i].linked /\ tasks[i].status = "completed"}
Required(tasks) == DOMAIN tasks \ In(tasks, {Fallback})
Unresolved(tasks) == Required(tasks) \ Done(tasks)
Undelivered(g, tasks) ==
  {i \in Done(tasks) \ In(tasks, {Verify}) : <<g, tasks[i].packet>> \notin published}
Open(tasks, key) == {i \in In(tasks, {key}) : tasks[i].status \notin {"completed", "blocked"}}

(* _request_verification_progress_status: with no task that carries checks *)
(* among the completed ones, the last completed one stands for the goal.   *)
RequestsPending(g, tasks) ==
  LET proven(i) == <<g, tasks[i].packet>> \in published \cap proofs
      linked == {i \in Done(tasks) : Checked(tasks[i].key)}
      last == {i \in Done(tasks) : \A j \in Done(tasks) : j <= i}
  IN  \/ \E i \in linked : ~proven(i)
      \/ linked = {} /\ Unresolved(tasks) = {} /\ \E i \in last : ~proven(i)

(* Mutant: once the gates have passed they pass on every later commit.     *)
GatesPendingOnce(g) == g \in Production /\ ~(product.sound /\ evidence[g] # 0)

(* Mutant: an audit that passes stands for the evidence.                   *)
GatesPendingAudit(g) == g \in Production /\ ~product.sound

GatesPending(g) == g \in Production /\ ~(product.sound /\ evidence[g] = product.head)

(* The goal payload that refresh_progress makes of what it reads.          *)
Judged(g, tasks) ==
  LET unpublished == Undelivered(g, tasks) # {}
      reached == /\ Required(tasks) # {} /\ Unresolved(tasks) = {}
                 /\ ~unpublished /\ ~GatesPending(g) /\ ~RequestsPending(g, tasks)
      before == goals[g].status
  IN  [status |-> IF reached THEN "completed" ELSE IF before = "completed" THEN "active" ELSE before,
       unpublished |-> unpublished, pending |-> GatesPending(g)]

(* The status that every task's backlog item has now.                      *)
Refreshed(g) ==
  [i \in DOMAIN progress[g] |->
     LET t == progress[g][i]
     IN  IF t.linked THEN [t EXCEPT !.status = backlog[g][t.packet].status] ELSE t]

Move(a, pc) == act' = [act EXCEPT ![a].pc = pc]
Leave(a) == act' = [act EXCEPT ![a] = Idle]

Calm == faults + reads + setbacks < MaxTrouble
Setback(bad) == /\ bad => Calm
                /\ setbacks' = IF bad THEN setbacks + 1 ELSE setbacks
                /\ UNCHANGED <<faults, reads>>

-----------------------------------------------------------------------------
(* refresh_progress, by the watch before it plans or repairs gates, and by *)
(* `watch --status`, `fleet status` and `goal` at any time.                *)
LoadProgress(a) ==
  /\ act[a].pc = "idle" /\ HasGoal
  /\ \/ a = "watch" /\ (AnyReady => AnyRepair) /\ UNCHANGED reads
     \/ a = "status" /\ Calm /\ reads' = reads + 1
  /\ act' = [act EXCEPT ![a] = [Idle EXCEPT !.pc = "progress", !.goal = pointer,
                                            !.tasks = Refreshed(pointer)]]
  /\ UNCHANGED <<store, work, gates, owner, faults, setbacks>>

SaveProgress(a) ==
  /\ act[a].pc = "progress"
  /\ progress' = [progress EXCEPT ![act[a].goal] = act[a].tasks]
  /\ Move(a, "judge")
  /\ UNCHANGED <<pointer, goals, work, gates, owner, bounds>>

Judge(a) ==
  LET g == act[a].goal
      payload == Judged(g, act[a].tasks)
  IN  /\ act[a].pc = "judge"
      /\ pointer' = IF payload.status = "completed"
                    THEN IF pointer = g THEN NoGoal ELSE pointer
                    ELSE IF goals[g].status = "completed" THEN g ELSE pointer
      /\ act' = [act EXCEPT ![a].pc = "save", ![a].payload = payload]
      /\ UNCHANGED <<goals, progress, work, gates, owner, bounds>>

SaveGoal(a) ==
  /\ act[a].pc = "save"
  /\ goals' = [goals EXCEPT ![act[a].goal] = act[a].payload]
  /\ IF a = "status" THEN Leave(a) ELSE Move(a, IF AnyReady THEN "select" ELSE "refill")
  /\ UNCHANGED <<pointer, progress, work, gates, owner, bounds>>

Refresh == \E a \in Actors : LoadProgress(a) \/ SaveProgress(a) \/ Judge(a) \/ SaveGoal(a)

-----------------------------------------------------------------------------
(* refill_goal_tasks, from the tasks that its refresh read.                *)
Here == act["watch"]
At(pc) == Here.pc = pc
Planning == UNCHANGED <<pointer, published, proofs, product, gates, owner>>

New(g, key, s) == [key |-> key, packet |-> Len(backlog[g]) + 1, linked |-> s = "queued", status |-> ""]
Packet(key, s) == [key |-> key, status |-> s]

Packets == UNION {{<<g, n>> : n \in DOMAIN backlog[g]} : g \in Goals}
Room(n) == Cardinality(Packets) + n <= MaxPackets

(* A packet that passes the review is queued, one that does not is left to *)
(* the operator.                                                           *)
Review == {"queued", "draft"}

RefillEnds ==
  /\ At("refill") /\ goals[Here.goal].status # "active"
  /\ Leave("watch")
  /\ UNCHANGED <<store, work, gates, owner, bounds>>

(* The roadmap's tasks are reviewed in order up to the first one queued.   *)
RefillRoadmap ==
  LET g == Here.goal
  IN  /\ At("refill") /\ goals[g].status = "active" /\ Here.tasks = <<>>
      /\ \E n \in 1..Len(Roadmap), s \in Review :
           LET verdict(i) == IF i = n THEN s ELSE "draft"
               first == Len(backlog[g])
           IN  /\ s = "draft" => n = Len(Roadmap)
               /\ Room(n)
               /\ Setback(n > 1 \/ s = "draft")
               /\ backlog' = [backlog EXCEPT ![g] = @ \o [i \in 1..n |-> Packet(Roadmap[i], verdict(i))]]
               /\ act' = [act EXCEPT
                    !["watch"].pc = "fill",
                    !["watch"].tasks = [i \in 1..n |-> [New(g, Roadmap[i], verdict(i)) EXCEPT !.packet = first + i]]]
      /\ UNCHANGED <<goals, progress>> /\ Planning

SaveRoadmap ==
  /\ At("fill")
  /\ progress' = [progress EXCEPT ![Here.goal] = Here.tasks]
  /\ Leave("watch")
  /\ UNCHANGED <<goals, backlog>> /\ Planning /\ UNCHANGED bounds

(* _retry_manual_goal_tasks: the drafts that pass a review by now are      *)
(* queued, unless one of them was already and ends the watch with an error.*)
Drafts(tasks) == {i \in DOMAIN tasks : ~tasks[i].linked}

RetryDrafts ==
  LET g == Here.goal
      packet(i) == Here.tasks[i].packet
  IN  /\ At("refill") /\ goals[g].status = "active" /\ Here.tasks # <<>>
      /\ \E fit \in SUBSET Drafts(Here.tasks) :
           LET twice == {i \in fit : backlog[g][packet(i)].status # "draft"}
               queue == {i \in fit : \A j \in twice : i < j}
           IN  /\ backlog' = [backlog EXCEPT ![g] =
                    [n \in DOMAIN @ |-> IF \E i \in queue : packet(i) = n
                                        THEN [@[n] EXCEPT !.status = "queued"] ELSE @[n]]]
               /\ act' = [act EXCEPT !["watch"] =
                    IF twice # {} THEN Idle
                    ELSE [@ EXCEPT
                      !.pc = IF fit = {} THEN "plan" ELSE "retry",
                      !.tasks = [i \in DOMAIN Here.tasks |->
                        IF i \in fit THEN [Here.tasks[i] EXCEPT !.linked = TRUE] ELSE Here.tasks[i]],
                      !.payload = goals[g]]]
      /\ UNCHANGED <<goals, progress>> /\ Planning /\ UNCHANGED bounds

SaveRetried ==
  /\ At("retry")
  /\ progress' = [progress EXCEPT ![Here.goal] = Here.tasks]
  /\ Move("watch", "retried")
  /\ UNCHANGED <<goals, backlog>> /\ Planning /\ UNCHANGED bounds

SaveRetriedGoal ==
  /\ At("retried")
  /\ goals' = [goals EXCEPT ![Here.goal] = Here.payload]
  /\ Leave("watch")
  /\ UNCHANGED <<progress, backlog>> /\ Planning /\ UNCHANGED bounds

-----------------------------------------------------------------------------
(* _goal_executable_progress_tasks                                         *)
Executable(g, tasks) ==
  LET now(i) == backlog[g][tasks[i].packet].status
      done == {tasks[i].key : i \in {j \in DOMAIN tasks : tasks[j].linked /\ now(j) = "completed"}}
  IN  {i \in DOMAIN tasks : tasks[i].linked /\ now(i) = "queued" /\ Needs(g, tasks[i].key) \subseteq done}

(* _latest_gate_verifier_block_report; a report is believed for some time. *)
Blocks(g, kinds) == report[g].head = product.head /\ report[g].outcome \in kinds

(* What the refill adds to a goal whose tasks are all spent.               *)
Wanted(fresh) ==
  LET g == Here.goal
      spent == Executable(g, Here.tasks) = {}
      blocked == fresh /\ Blocks(g, {"blocked", "external"})
      ask == spent /\ Here.payload.pending /\ Open(Here.tasks, Verify) = {}
  IN  IF Here.payload.unpublished THEN {}
      ELSE IF ask /\ ~blocked THEN {Verify}
      ELSE IF ask THEN {k \in {Repair} : Blocks(g, {"blocked"}) /\ Open(Here.tasks, Repair) = {}}
      ELSE {k \in {Fallback} : spent /\ In(Here.tasks, {Fallback}) = {}}

PlanTask ==
  LET g == Here.goal
  IN  /\ At("plan") /\ Room(1)
      /\ \E fresh \in BOOLEAN, s \in Review : \E key \in Wanted(fresh) :
           /\ Setback(s = "draft")
           /\ backlog' = [backlog EXCEPT ![g] = Append(@, Packet(key, s))]
           /\ act' = [act EXCEPT !["watch"].pc = "append", !["watch"].tasks = <<New(g, key, s)>>]
      /\ UNCHANGED <<goals, progress>> /\ Planning

(* Mutant: the task takes the place of the tasks before it.                *)
SaveTaskAlone ==
  /\ At("append")
  /\ progress' = [progress EXCEPT ![Here.goal] = Here.tasks]
  /\ Leave("watch")
  /\ UNCHANGED <<goals, backlog>> /\ Planning /\ UNCHANGED bounds

SaveTask ==
  /\ At("append")
  /\ progress' = [progress EXCEPT ![Here.goal] = @ \o Here.tasks]
  /\ Leave("watch")
  /\ UNCHANGED <<goals, backlog>> /\ Planning /\ UNCHANGED bounds

(* Nothing to add; with a setup that is missing the watch then verifies    *)
(* the gates itself, for a report that lists what is missing.              *)
PlanNothing ==
  LET g == Here.goal
  IN  /\ At("plan")
      /\ \E fresh \in BOOLEAN :
           /\ Wanted(fresh) = {} \/ ~Room(1)
           /\ \/ UNCHANGED report
              \/ /\ GatesPending(g) /\ goals[g].status = "active"
                 /\ (fresh /\ Blocks(g, {"external"})) \/ Drafts(Here.tasks) = DOMAIN Here.tasks
                 /\ report' = [report EXCEPT ![g] = [head |-> product.head, outcome |-> "external"]]
      /\ Leave("watch")
      /\ UNCHANGED <<store, work, evidence, owner, bounds>>

Refill ==
  \/ RefillEnds \/ RefillRoadmap \/ SaveRoadmap
  \/ RetryDrafts \/ SaveRetried \/ SaveRetriedGoal
  \/ PlanTask \/ SaveTask \/ PlanNothing

-----------------------------------------------------------------------------
(* Before the watch repairs gates of the active goal it sets the repair    *)
(* aside if the last report blames nothing but the setup: first the files, *)
(* then the store (the refill would do so too, but runs only when nothing  *)
(* is ready).                                                              *)
Quarantine ==
  LET g == Here.goal
      hit == {i \in Open(Here.tasks, Repair) :
                Here.tasks[i].linked /\ backlog[g][Here.tasks[i].packet].status = "queued"}
  IN  /\ At("select") /\ hit # {} /\ goals[g].pending /\ Blocks(g, {"external"})
      /\ backlog' = [backlog EXCEPT ![g] =
           [n \in DOMAIN @ |-> IF \E i \in hit : Here.tasks[i].packet = n THEN Packet(@[n].key, "blocked") ELSE @[n]]]
      /\ act' = [act EXCEPT !["watch"] =
           [@ EXCEPT !.pc = "retry", !.payload = goals[g],
                     !.tasks = [i \in DOMAIN Here.tasks |->
                       IF i \in hit THEN [Here.tasks[i] EXCEPT !.status = "blocked"] ELSE Here.tasks[i]]]]
      /\ UNCHANGED <<goals, progress>> /\ Planning /\ UNCHANGED bounds

(* The watch works on a ready item; what it does to it is Delivery.        *)
Settle(g, n, s) == backlog' = [backlog EXCEPT ![g][n].status = s]

Implement(g, n) ==
  /\ Ready(g, n) /\ backlog[g][n].key # Verify
  /\ IF backlog[g][n].key = Repair /\ HasGoal THEN At("select") ELSE At("idle")
  /\ \/ /\ Settle(g, n, "completed")
        /\ \E sound \in BOOLEAN : /\ product' = [head |-> product.head + 1, sound |-> sound]
                                 /\ Setback(~sound)
     \/ /\ Settle(g, n, "blocked")
        /\ Setback(TRUE)
        /\ UNCHANGED product
  /\ Leave("watch")
  /\ UNCHANGED <<store, published, proofs, gates, owner>>

Publish(g, n) ==
  /\ At("idle")
  /\ n \in Completed(g) /\ backlog[g][n].key # Verify /\ <<g, n>> \notin published
  /\ published' = published \cup {<<g, n>>}
  /\ UNCHANGED <<store, backlog, proofs, product, gates, act, owner, bounds>>

(* The receipts of request checks are written by nobody in the repository. *)
Prove(g, n) ==
  /\ <<g, n>> \in published \ proofs
  /\ proofs' = proofs \cup {<<g, n>>}
  /\ UNCHANGED <<store, backlog, published, product, gates, act, owner, bounds>>

(* Mutant: the evidence is bound to the commit that is yet to come.        *)
VerifyGatesNext(g, n) ==
  /\ At("idle") /\ Ready(g, n) /\ backlog[g][n].key = Verify
  /\ report' = [report EXCEPT ![g] = [head |-> product.head, outcome |-> "passed"]]
  /\ evidence' = [evidence EXCEPT ![g] = product.head + 1]
  /\ act' = [act EXCEPT !["watch"] = [Idle EXCEPT !.pc = "verified", !.goal = g,
                                                  !.tasks = <<[New(g, Verify, "queued") EXCEPT !.packet = n]>>]]
  /\ UNCHANGED <<store, work, owner, bounds>>

(* verify_goal_gates binds its report to the commit it found first; then   *)
(* the item is completed with the report as evidence.                      *)
VerifyGates(g, n) ==
  /\ At("idle") /\ Ready(g, n) /\ backlog[g][n].key = Verify
  /\ \E outcome \in {"passed", "blocked", "external"} :
       /\ report' = [report EXCEPT ![g] = [head |-> product.head, outcome |-> outcome]]
       /\ evidence' = [evidence EXCEPT ![g] = IF outcome = "passed" THEN product.head ELSE @]
  /\ act' = [act EXCEPT !["watch"] = [Idle EXCEPT !.pc = "verified", !.goal = g,
                                                  !.tasks = <<[New(g, Verify, "queued") EXCEPT !.packet = n]>>]]
  /\ UNCHANGED <<store, work, owner, bounds>>

CompleteVerified ==
  /\ At("verified")
  /\ Settle(Here.goal, Here.tasks[1].packet, "completed")
  /\ Leave("watch")
  /\ UNCHANGED <<store, published, proofs, product, gates, owner, bounds>>

Work ==
  \/ Quarantine \/ CompleteVerified
  \/ \E g \in Goals : \E n \in DOMAIN backlog[g] :
       Implement(g, n) \/ VerifyGates(g, n)

-----------------------------------------------------------------------------
(* `harness goal "text"` archives the goal it replaces before the new one  *)
(* exists, `harness goal from spec.md` afterwards.                         *)
Register(g, from) ==
  LET active == IF HasGoal THEN pointer ELSE NoGoal
  IN  /\ owner.pc = "idle" /\ goals[g].status = "none"
      /\ owner' = [pc |-> IF active # NoGoal /\ from = "text" THEN "archive" ELSE "create",
                   new |-> g, old |-> active, from |-> from]
      /\ Setback(\E h \in Goals : goals[h].status # "none")
      /\ UNCHANGED <<store, work, gates, act>>

Archive ==
  /\ owner.pc = "archive"
  /\ goals' = [goals EXCEPT ![owner.old].status = "archived"]
  /\ owner' = [owner EXCEPT !.pc = "clear"]
  /\ UNCHANGED <<pointer, progress, work, gates, act, bounds>>

Clear ==
  /\ owner.pc = "clear"
  /\ pointer' = IF pointer = owner.old THEN NoGoal ELSE pointer
  /\ owner' = [owner EXCEPT !.pc = IF owner.from = "text" THEN "create" ELSE "point"]
  /\ UNCHANGED <<goals, progress, work, gates, act, bounds>>

Create ==
  /\ owner.pc = "create"
  /\ goals' = [goals EXCEPT ![owner.new] = [status |-> "active", unpublished |-> FALSE, pending |-> FALSE]]
  /\ owner' = [owner EXCEPT !.pc = IF owner.from = "spec" /\ owner.old # NoGoal THEN "archive" ELSE "point"]
  /\ UNCHANGED <<pointer, progress, work, gates, act, bounds>>

Point ==
  /\ owner.pc = "point"
  /\ pointer' = owner.new
  /\ owner' = NoOwner
  /\ UNCHANGED <<goals, progress, work, gates, act, bounds>>

Registers == \E g \in Goals, from \in {"text", "spec"} : Register(g, from)
Owner == Archive \/ Clear \/ Create \/ Point

-----------------------------------------------------------------------------
Kill ==
  /\ Calm /\ faults' = faults + 1
  /\ \/ act["watch"].pc # "idle" /\ Leave("watch") /\ UNCHANGED owner
     \/ owner.pc # "idle" /\ owner' = NoOwner /\ UNCHANGED act
  /\ UNCHANGED <<store, work, gates, reads, setbacks>>

Watch == Work \/ Refill \/ LoadProgress("watch") \/ SaveProgress("watch") \/ Judge("watch") \/ SaveGoal("watch")

Publication(step(_, _)) == \E g \in Goals : \E n \in DOMAIN backlog[g] : step(g, n)

Next == Refresh \/ Refill \/ Work \/ Publication(Publish) \/ Publication(Prove) \/ Registers \/ Owner \/ Kill

Spec == Init /\ [][Next]_vars

(* The watch is kept running, and retries what it could not publish; the   *)
(* receipts of request checks and the owner promise nothing.               *)
FairSpec == Spec /\ WF_vars(Watch) /\ SF_vars(Publication(Publish))
-----------------------------------------------------------------------------
Places == {"idle", "progress", "judge", "save", "select", "refill", "fill", "retry", "retried", "plan",
           "append", "verified"}

(* Types: what the files of the store hold and what the commands carry.    *)
TypeOK ==
  /\ pointer \in Goals \cup {NoGoal}
  /\ goals \in [Goals -> Payload]
  /\ progress \in [Goals -> Seq(Task)]
  /\ backlog \in [Goals -> Seq([key : Keys, status : {"draft", "queued", "completed", "blocked"}])]
  /\ published \subseteq Goals \X (1..MaxPackets) /\ proofs \subseteq published
  /\ product \in [head : Nat, sound : BOOLEAN]
  /\ evidence \in [Goals -> 0..product.head]
  /\ report \in [Goals -> [head : 0..product.head, outcome : {"none", "passed", "blocked", "external"}]]
  /\ act \in [Actors -> [pc : Places, goal : Goals \cup {NoGoal}, tasks : Seq(Task), payload : Payload]]
  /\ owner \in [pc : {"idle", "archive", "clear", "create", "point"}, new : Goals \cup {NoGoal},
                old : Goals \cup {NoGoal}, from : {"text", "spec"}]
  /\ faults \in Nat /\ reads \in Nat /\ setbacks \in Nat /\ faults + reads + setbacks <= MaxTrouble

(* A goal that is completed, by whomever and however stale what that       *)
(* command had read, has an item whose work was published and whose        *)
(* request checks are proved, and if it is a production goal its gates     *)
(* have passed on a commit of the product.                                 *)
CompletedGoalDelivered ==
  \A g \in Goals : goals[g].status = "completed" =>
    /\ \E n \in Completed(g) : <<g, n>> \in proofs
    /\ g \in Production => evidence[g] # 0

(* Without status commands a goal is only completed at a moment when every *)
(* task it knows, but fallbacks, is completed and published, some of them  *)
(* proved, and its gates have passed on the commit that is checked out,    *)
(* though all of that was read some steps ago and even if commands were    *)
(* killed before.                                                          *)
Earned(g) ==
  /\ \A i \in Required(progress[g]) :
       LET item == <<g, progress[g][i].packet>>
       IN  item[2] \in Completed(g) /\ (progress[g][i].key = Verify \/ item \in published)
  /\ \E i \in DOMAIN progress[g] : <<g, progress[g][i].packet>> \in proofs
  /\ g \in Production => product.sound /\ evidence[g] = product.head

CompletionIsEarned ==
  [][\A g \in Goals :
       (reads = 0 /\ goals[g].status # "completed" /\ goals'[g].status = "completed") => Earned(g)]_vars

(* A prototype goal ends, unless it is waiting for its operator: for a     *)
(* task packet to be corrected, a blocked item, or a request check.        *)
Waiting(g) ==
  \/ Drafts(progress[g]) # {}
  \/ \E n \in DOMAIN backlog[g] : backlog[g][n].status = "blocked"
  \/ \E n \in Completed(g) : <<g, n>> \in published \ proofs
  \/ ~Room(1)

PrototypeEnds ==
  \A g \in Goals \ Production :
    (pointer = g /\ goals[g].status = "active")
      ~> (goals[g].status # "active" \/ pointer # g \/ Waiting(g) \/ faults + reads > 0)

(* A production goal whose tasks are all completed, published and proved,  *)
(* and whose gates pass, does not stay active for ever.                    *)
Finished(g) ==
  /\ progress[g] # <<>> /\ ~GatesPending(g)
  /\ \A i \in DOMAIN progress[g] :
       LET t == progress[g][i]
       IN  t.linked /\ t.packet \in Completed(g) /\ (t.key # Verify => <<g, t.packet>> \in proofs)

VerifiedGoalEnds ==
  \A g \in Production : ~<>[](pointer = g /\ goals[g].status = "active" /\ Finished(g))
=============================================================================
