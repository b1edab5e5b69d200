------------------------------- MODULE Watch --------------------------------
(***************************************************************************)
(* `harness watch` and `harness run`: passes of one command over the       *)
(* target.  A pass refills the backlog from the goal, merges what is open, *)
(* retries the last pending publication, selects an item and works on it   *)
(* by the steps of Delivery; failures are counted per item and cause, and  *)
(* most of them end either the item or the watch.                          *)
(***************************************************************************)
EXTENDS Delivery, FiniteSetsExt

CONSTANTS
  Watcher,    \* the command of the watch
  Modes,      \* how it is started
  Threshold,  \* AUTOPILOT_INCIDENT_THRESHOLD
  Causes,     \* what an implementation that failed may be blamed on
  Diligent    \* the operator starts it again only after removing the cause

ASSUME WatchAssumption ==
  /\ Watcher \in Actors
  /\ Modes \subseteq {"watch", "watch-once", "watch-idle", "run", "run-once"}
  /\ Threshold \in Nat \ {0}
  /\ Causes \subseteq {"product", "external"}
  /\ Diligent \in BOOLEAN
  /\ IsFiniteSet(Items)

VARIABLES
  loop,      \* where the passes stand
  incidents  \* state/incidents: how often an item failed of a cause

watch == <<loop, incidents>>
watchVars == <<vars, loop, incidents>>

(* "locked" and "dirty" are found before the implementation starts.        *)
Kinds == Causes \cup {"locked", "dirty"}

Stopped == [pc |-> "stopped", mode |-> "none", cycles |-> 0, item |-> 0, todo |-> {},
            stuck |-> "none", then |-> "none", done |-> 0, tried |-> 0]

WatchInit ==
  /\ Init
  /\ loop = Stopped
  /\ incidents = [i \in Items |-> [c \in Kinds |-> 0]]

-----------------------------------------------------------------------------
Watching == loop.mode \in {"watch", "watch-once", "watch-idle"}
Spent(n) == loop.cycles # 0 /\ n >= loop.cycles
Quiet == UNCHANGED <<vars, incidents>>
Pass(pc) == loop' = [loop EXCEPT !.pc = pc]

(* The next pass begins with the refill and the merges only in a watch.    *)
Again == loop' = [loop EXCEPT !.pc = IF Watching THEN "refill" ELSE "push",
                              !.item = 0, !.todo = {}, !.stuck = "none", !.then = "none"]
Stop == loop' = Stopped

(* A diligent operator has removed what the last watch waited for, and     *)
(* runs commands by turns.                                                 *)
Removed ==
  /\ \A a \in Actors : act[a].pc = "idle"
  /\ lock # "dead" /\ creds
  /\ tree # 0 => Resumable(tree)

Start(mode) ==
  /\ loop.pc = "stopped" /\ act[Watcher].pc = "idle"
  /\ Diligent => Removed
  /\ loop' = [Stopped EXCEPT !.mode = mode,
                             !.pc = IF mode \in {"run", "run-once"} THEN "push" ELSE "refill",
                             !.cycles = CASE mode = "run" -> Cardinality(Ready)
                                          [] mode \in {"run-once", "watch-once"} -> 1
                                          [] OTHER -> 0]
  /\ Quiet

LoopRefill ==
  /\ loop.pc = "refill"
  /\ Pass("merge")
  /\ \/ \E i \in Items : Refill(i)
     \/ /\ Ready # {} \/ \A i \in Items : backlog[i].dir # "none"
        /\ UNCHANGED vars
  /\ UNCHANGED incidents

-----------------------------------------------------------------------------
(* _auto_merge_pending_publications: all of them, oldest first; the first  *)
(* that is not merged holds the pass up.                                   *)

(* Mutant: pull requests whose merge was blocked are never tried again.  *)
LoopMergeNever == loop.pc = "merge" /\ Pass("push") /\ Quiet

LoopMerge ==
  /\ loop.pc = "merge"
  /\ IF PendingMerge # {}
     THEN loop' = [loop EXCEPT !.pc = "merging", !.todo = PendingMerge]
     ELSE Pass("push")
  /\ Quiet

LoopMergeNext ==
  /\ loop.pc = "merging" /\ loop.todo # {}
  /\ LET k == Min(loop.todo) IN Launch(Watcher, Task("merge", "view", runs[k].item, k))
  /\ UNCHANGED <<backlog, runs, report, product, origin, receipts, lock, creds, faults, crashes, watch>>

(* What the command of the watch has come to, taken notice of.             *)
Ended(pc) == loop.pc = pc /\ act[Watcher].pc = "done"
Took ==
  /\ act' = [act EXCEPT ![Watcher] = Idle]
  /\ UNCHANGED <<backlog, runs, report, product, origin, receipts, lock, creds, faults, crashes>>

LoopMerged ==
  /\ Ended("merging")
  /\ loop' = [loop EXCEPT !.todo = @ \ {act[Watcher].run},
                          !.stuck = IF @ = "none" /\ act[Watcher].result # "merged"
                                    THEN act[Watcher].result ELSE @]
  /\ Took
  /\ UNCHANGED incidents

LoopMergesDone ==
  /\ loop.pc = "merging" /\ loop.todo = {} /\ act[Watcher].pc = "idle"
  /\ CASE loop.stuck = "none" -> Pass("push")
       [] loop.stuck = "merge-credential-blocked" ->
            loop' = [loop EXCEPT !.pc = "creds", !.then = "again"]
       [] OTHER -> IF loop.mode = "watch-idle" \/ Spent(loop.done) THEN Stop ELSE Again
  /\ Quiet

(* _handle_publication_credential_wait: only an unlimited watch polls; the *)
(* poll ends with the credentials or at the deadline.                      *)
LoopPoll ==
  /\ loop.pc = "creds" /\ loop.mode = "watch" /\ creds
  /\ IF loop.then = "again" THEN Again ELSE Pass(loop.then)
  /\ Quiet

LoopPollEnds ==
  /\ loop.pc = "creds" /\ (loop.mode = "watch" => ~creds)
  /\ Stop
  /\ Quiet

-----------------------------------------------------------------------------
(* _retry_pending_publication: the last one only.                          *)

LoopPush ==
  /\ loop.pc = "push" /\ act[Watcher].pc = "idle"
  /\ IF PendingPush = {}
     THEN Pass("select") /\ UNCHANGED vars
     ELSE /\ LET k == Max(PendingPush) IN Launch(Watcher, Task(IF Watching THEN "retry" ELSE "republish", "push", runs[k].item, k))
          /\ Pass("pushing")
          /\ UNCHANGED <<backlog, runs, report, product, origin, receipts, lock, creds, faults, crashes>>
  /\ UNCHANGED incidents

LoopPushed ==
  /\ Ended("pushing")
  /\ CASE PendingPush = {} -> Again
       [] PendingPush \cap receipts.refused # {} /\ ~creds ->
            loop' = [loop EXCEPT !.pc = "creds", !.then = "select"]
       [] OTHER -> Pass("select")
  /\ Took
  /\ UNCHANGED incidents

LoopSelect ==
  /\ loop.pc = "select"
  /\ IF IF Watching THEN Spent(loop.done) ELSE loop.done >= loop.cycles \/ Ready = {} THEN Stop
     ELSE IF Ready = {} THEN Pass("empty")
     ELSE loop' = [loop EXCEPT !.pc = "attempt", !.item = Min(Ready)]
  /\ Quiet

(* Refill once more, then sleep or stop.                                   *)
LoopEmpty ==
  /\ loop.pc = "empty"
  /\ \/ (\E i \in Items : Refill(i)) /\ Again
     \/ /\ Ready # {} \/ \A i \in Items : backlog[i].dir # "none"
        /\ IF loop.mode = "watch" THEN Again ELSE Stop
        /\ UNCHANGED vars
  /\ UNCHANGED incidents

-----------------------------------------------------------------------------
(* An incident at its threshold keeps the item from being tried.  There    *)
(* are two records of each failure, with different texts, and the one that *)
(* sorts first is asked for a reason to wait: those of a lock or of an     *)
(* external failure say so, of a dirty tree only one does.                 *)

Repeated == {c \in Kinds : incidents[loop.item][c] >= Threshold}
Wait(c) == CASE c = "product" -> {FALSE} [] c = "locked" -> {TRUE} [] OTHER -> BOOLEAN
Resolved(c) == c = "locked" /\ lock = "free"

Transact ==
  LET job == IF Watching THEN "transaction" ELSE "run" IN
  IF Ready # {} THEN BeginTransaction(Watcher, Min(Ready), job)
  ELSE /\ Launch(Watcher, Task(job, "lock", 0, 0))
       /\ UNCHANGED <<backlog, runs, report, product, origin, receipts, lock, creds, faults, crashes>>

LoopAttempt ==
  /\ loop.pc = "attempt"
  /\ \/ /\ Repeated = {} \/ \E c \in Repeated : Resolved(c)
        /\ loop' = [loop EXCEPT !.pc = "working", !.tried = IF loop.cycles = 0 THEN 0 ELSE @ + 1]
        /\ Transact
     \/ \E c \in Repeated :
          /\ ~Resolved(c)
          /\ \E wait \in Wait(c) : IF ~Watching \/ wait THEN Stop ELSE Pass("block")
          /\ UNCHANGED vars
  /\ UNCHANGED incidents

(* transaction_errors, and the outcomes of a transaction that committed.   *)
Blamed(result) == IF result \in {"locked", "dirty"} THEN {result} ELSE Causes
(* Mutant: each failure opens an incident of its own.                    *)
CountedAfresh(n) == 1

Counted(n) == IF n < Threshold THEN n + 1 ELSE n

LoopFailed ==
  /\ Ended("working") /\ act[Watcher].result \in {"locked", "dirty", "failed"}
  /\ \E c \in Blamed(act[Watcher].result) :
       /\ incidents' = [incidents EXCEPT ![loop.item][c] = Counted(@)]
       /\ CASE ~Watching \/ c # "product" \/ Spent(loop.tried) -> Stop
            [] incidents'[loop.item][c] >= Threshold -> Pass("block")
            [] OTHER -> Again
  /\ Took

LoopWorked ==
  /\ Ended("working") /\ act[Watcher].result \notin {"locked", "dirty", "failed"}
  /\ LET did == [loop EXCEPT !.done = IF loop.cycles = 0 THEN 0 ELSE @ + 1] IN
     CASE act[Watcher].result \in {"credential-blocked", "merge-credential-blocked"} ->
            loop' = [did EXCEPT !.pc = "creds", !.then = "again"]
       [] \/ Spent(loop.done + 1)
          \/ ~Watching /\ act[Watcher].result \notin {"published", "merged"} -> loop' = Stopped
       [] OTHER -> loop' = [did EXCEPT !.pc = IF Watching THEN "refill" ELSE "push", !.item = 0]
  /\ Took
  /\ UNCHANGED incidents

(* _block_sidecar_backlog_for_incident                                     *)
LoopBlock ==
  /\ loop.pc = "block" /\ act[Watcher].pc = "idle"
  /\ IF backlog[loop.item].status = "completed" THEN Stop /\ UNCHANGED vars
     ELSE BeginShelve(Watcher, loop.item, "blocked") /\ Pass("blocking")
  /\ UNCHANGED incidents

LoopBlocked ==
  /\ Ended("blocking")
  /\ IF act[Watcher].result = "shelved" THEN Again ELSE Stop
  /\ Took
  /\ UNCHANGED incidents

-----------------------------------------------------------------------------
Loop ==
  \/ LoopRefill \/ LoopMerge \/ LoopMergeNext \/ LoopMerged \/ LoopMergesDone
  \/ LoopPoll \/ LoopPollEnds \/ LoopPush \/ LoopPushed \/ LoopSelect \/ LoopEmpty
  \/ LoopAttempt \/ LoopFailed \/ LoopWorked \/ LoopBlock \/ LoopBlocked

Work == Continue(Watcher) /\ UNCHANGED watch

WatchDies ==
  /\ loop.pc # "stopped" /\ act[Watcher].pc # "idle"
  /\ Crash(Watcher)
  /\ Stop
  /\ UNCHANGED incidents

(* The commands of the operator beside it.                                 *)
Beside(a) ==
  /\ a # Watcher
  /\ Diligent => loop.pc = "stopped"
  /\ Begin(a) \/ Continue(a) \/ Finish(a) \/ Crash(a)
  /\ UNCHANGED watch

Around ==
  /\ ClearLock \/ Restore \/ LoseCreds \/ RestoreCreds \/ \E i \in Items : HumanMerge(i) \/ HumanClose(i)
  /\ UNCHANGED watch

WatchNext ==
  \/ Loop \/ Work \/ WatchDies
  \/ \E m \in Modes : Start(m)
  \/ \E a \in Actors : Beside(a)
  \/ Around

WatchSpec == WatchInit /\ [][WatchNext]_watchVars

(* One sequential program works while it is started; the operator starts   *)
(* the watch again each time it stopped, and removes what it waits for.    *)
FairWatch ==
  /\ WatchSpec
  /\ WF_watchVars(Loop) /\ WF_watchVars(Work)
  /\ SF_watchVars(Start("watch"))
  /\ WF_watchVars(Around /\ (lock' # lock \/ tree' # tree \/ (creds' /\ ~creds)))
  /\ \A a \in Actors \ {Watcher} :
       /\ WF_watchVars(Beside(a) /\ (Continue(a) \/ Finish(a)))
       /\ SF_watchVars(Beside(a) /\ \E k \in Runs : BeginCommit(a, k))

(* The jobs of the watch, and that people run by hand what finishes or     *)
(* publishes an item, but no implementation and no shelving, and not while *)
(* a watch runs.                                                           *)
Turns ==
  /\ Diligent
  /\ {"transaction", "run", "retry", "republish", "merge", "shelve"} \subseteq Jobs[Watcher]
  /\ \A a \in Actors \ {Watcher} : Jobs[a] \cap {"transaction", "run", "shelve"} = {}

-----------------------------------------------------------------------------
(* Properties.                                                             *)

Passes == {"stopped", "refill", "merge", "merging", "creds", "push", "pushing", "select", "empty",
           "attempt", "working", "block", "blocking"}

(* Types: the counters of a pass and of the incidents stay in their range. *)
WatchTypeOK ==
  /\ TypeOK
  /\ loop \in [pc : Passes, mode : Modes \cup {"none"}, cycles : Nat, item : Items \cup {0},
               todo : SUBSET Runs, stuck : Results, then : {"none", "again", "select"},
               done : Nat, tried : Nat]
  /\ incidents \in [Items -> [Kinds -> 0 .. Threshold]]

(* No item is implemented more often than the threshold allows for each    *)
(* cause, whatever crashes in between: a failure that repeats ends it.     *)
AttemptsBounded ==
  \A i \in Items :
    Cardinality({k \in Runs : runs[k].item = i}) <= (Threshold - 1) * Cardinality(Causes) + 1 + crashes

(* An item that can be worked on is completed or set aside in the end.     *)
EveryItemSettles == \A i \in Items : i \in Ready ~> i \notin Ready

(* A commit with its receipt reaches the base at the origin.               *)
CommitsReachBase == \A k \in Runs : k \in receipts.commit ~> Product(k) \in remote
=============================================================================
