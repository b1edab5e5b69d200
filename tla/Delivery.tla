------------------------------ MODULE Delivery ------------------------------
(***************************************************************************)
(* How a backlog item of a target becomes a commit of its product: the     *)
(* implementation run, the transition to completed, the local commit, the  *)
(* task branch and its pull request, the merge and the sync of the local   *)
(* base, each with the receipt written after it.  Several commands may     *)
(* work on one target (a watch, `run`, `finish`, `target backlog           *)
(* transition`), and each may die between any two of its steps.            *)
(*                                                                         *)
(* A branch is the set of commits reachable from its head: two heads are   *)
(* the same commit iff the sets are equal.                                 *)
(***************************************************************************)
EXTENDS Naturals, FiniteSets

CONSTANTS
  Items,      \* backlog items, numbered by priority and age
  Depends,    \* Depends-On of each item
  Planned,    \* the items that are not in the backlog before a goal refill
  Actors,     \* commands that may run at the same time
  Jobs,       \* what each may be
  Humans,     \* what people do to a pull request: "merge", "close"
  MaxRuns,    \* bound: implementation runs
  MaxFaults,  \* bound: failures of the implementer and of the remote services
  MaxCrashes  \* bound: commands that die

ASSUME DeliveryAssumption ==
  /\ Items \subseteq Nat \ {0}
  /\ Depends \in [Items -> SUBSET Items]
  /\ Planned \subseteq Items
  /\ Jobs \in [Actors -> SUBSET {"transaction", "run", "retry", "republish", "merge", "finish", "push",
                               "shelve"}]
  /\ Humans \subseteq {"merge", "close"}
  /\ MaxRuns \in Nat /\ MaxFaults \in Nat /\ MaxCrashes \in Nat
  /\ Actors \cap {"free", "dead"} = {}

VARIABLES
  backlog,   \* the file of each item: its directory and its metadata
  runs,      \* implementation runs: item, product head at their start, evidence
  tree,      \* the run whose diff is in the product's worktree, 0 when clean
  report,    \* the run whose heads are in the latest target run report, or 0
  local,     \* the product's local base branch
  remote,    \* the base branch at the origin
  tip,       \* the commit of each run, with its ancestors
  hub,       \* task branch and pull request of each item
  receipts,  \* what was written down about each run's commit
  lock,      \* target-run.lock: its owner, "dead" when that died, "free"
  act,       \* where each command stands
  creds,     \* the credentials of the remote services are there
  faults, crashes

product == <<tree, local, tip>>
origin  == <<remote, hub>>
vars == <<backlog, runs, tree, report, local, remote, tip, hub, receipts, lock, act, creds,
          faults, crashes>>

Runs == 1 .. MaxRuns
Product(k) == <<"product", k>>
MergeOf(i) == <<"merge", i>>
Commits == {Product(k) : k \in Runs} \cup {MergeOf(i) : i \in Items}

NoRun == [item |-> 0, before |-> {}, evidence |-> "none"]
Idle == [pc |-> "idle", job |-> "none", item |-> 0, run |-> 0, from |-> "none",
         alone |-> TRUE, result |-> "none"]

Init ==
  /\ backlog = [i \in Items |-> [dir |-> IF i \in Planned THEN "none" ELSE "queued",
                                 status |-> "queued", auto |-> TRUE, run |-> 0]]
  /\ runs = [k \in Runs |-> NoRun]
  /\ tree = 0
  /\ report = 0
  /\ local = {}
  /\ remote = {}
  /\ tip = [k \in Runs |-> {}]
  /\ hub = [i \in Items |-> [branch |-> 0, pr |-> "none", head |-> 0]]
  /\ receipts = [commit |-> {}, published |-> {}, refused |-> {}, linked |-> {}, merged |-> {}, pushed |-> {}]
  /\ lock = "free"
  /\ act = [a \in Actors |-> Idle]
  /\ creds = TRUE
  /\ faults = 0
  /\ crashes = 0

-----------------------------------------------------------------------------
(* Steps of a command.                                                     *)

Task(job, pc, i, k) == [Idle EXCEPT !.job = job, !.pc = pc, !.item = i, !.run = k]
Launch(a, task) == act[a].pc = "idle" /\ act' = [act EXCEPT ![a] = task]
Go(a, pc) == act' = [act EXCEPT ![a].pc = pc]
End(a, result) == act' = [act EXCEPT ![a].pc = "done", ![a].result = result]

(* A step that leaves a generated-evidence.json: it also shows up in the   *)
(* directory another command listed before its implementation.             *)
Implementing == {"lock", "verify", "lane", "post"}
Filed(a, rec) ==
  act' = [b \in Actors |->
            IF b = a THEN rec
            ELSE IF act[b].pc \in Implementing THEN [act[b] EXCEPT !.alone = FALSE] ELSE act[b]]
FileAndGo(a, pc) == Filed(a, [act[a] EXCEPT !.pc = pc])
FileAndEnd(a, result) == Filed(a, [act[a] EXCEPT !.pc = "done", !.result = result])

Fault == faults < MaxFaults /\ faults' = faults + 1

(* Queued, Autonomy-Execute auto, all dependencies completed; directory or *)
(* not, the metadata decides.                                              *)
Completed == {i \in Items : backlog[i].dir # "none" /\ backlog[i].status = "completed"}
Executable(i) == backlog[i].dir # "none" /\ backlog[i].status = "queued" /\ backlog[i].auto
(* Mutant: an item is selected before those it depends on are completed. *)
ReadyWhateverItNeeds == {i \in Items : Executable(i)}

Ready == {i \in Items : Executable(i) /\ Depends[i] \subseteq Completed}
Selected(i) == i \in Ready /\ \A j \in Ready : i <= j

(* find_resumable_target_implementation_evidence                           *)
Resumable(k) ==
  /\ tree = k
  /\ runs[k].evidence = "pass"
  /\ backlog[runs[k].item].status = "queued"
  /\ k \notin receipts.commit
  /\ runs[k].before = local

-----------------------------------------------------------------------------
(* The implementation run: command_target_run --implement-backlog-once.    *)

(* A watch merges what it has published, `run` does not.                   *)
Transactions == {"transaction", "run"}
Merging == {"transaction", "retry"}

BeginTransaction(a, i, job) ==
  /\ job \in Transactions \cap Jobs[a]
  /\ Selected(i)
  /\ IF tree # 0 /\ Resumable(tree) /\ runs[tree].item = i
     THEN Launch(a, Task(job, "check", i, tree))
     ELSE Launch(a, Task(job, "lock", i, 0))
  /\ UNCHANGED <<backlog, runs, report, product, origin, receipts, lock, creds, faults, crashes>>

(* Mutant: the lock file names the command instead of its owner.         *)
RunLockWithoutOwner(a) ==
  /\ act[a].pc = "lock"
  /\ IF lock = "free" THEN lock' = act[a].job /\ Go(a, "verify")
     ELSE UNCHANGED lock /\ End(a, "locked")
  /\ UNCHANGED <<backlog, runs, report, product, origin, receipts, creds, faults, crashes>>

(* Mutant: a command that was refused the lock removes it on its way out.  *)
RunLockRemoves(a) ==
  /\ act[a].pc = "lock"
  /\ IF lock = "free" THEN lock' = a /\ Go(a, "verify")
     ELSE lock' = "free" /\ End(a, "locked")
  /\ UNCHANGED <<backlog, runs, report, product, origin, receipts, creds, faults, crashes>>

(* acquire_target_run_lock: O_EXCL, and an old lock is nobody's to remove. *)
RunLock(a) ==
  /\ act[a].pc = "lock"
  /\ IF lock = "free" THEN lock' = a /\ Go(a, "verify")
     ELSE UNCHANGED lock /\ End(a, "locked")
  /\ UNCHANGED <<backlog, runs, report, product, origin, receipts, creds, faults, crashes>>

(* The product must be clean, an item selectable (again: it need not be    *)
(* the one the transaction selected) and its file in backlog/queued.       *)
RunVerify(a) ==
  /\ act[a].pc = "verify"
  /\ IF tree = 0 /\ \E i \in Items : Selected(i) /\ backlog[i].dir = "queued"
     THEN \E i \in Items, k \in Runs :
            /\ Selected(i)
            /\ runs[k].item = 0 /\ \A j \in Runs : j < k => runs[j].item # 0
            /\ runs' = [runs EXCEPT ![k] = [item |-> i, before |-> local, evidence |-> "none"]]
            /\ report' = k
            /\ act' = [act EXCEPT ![a].pc = "lane", ![a].run = k, ![a].item = i]
            /\ UNCHANGED lock
     ELSE /\ report' = 0
          /\ lock' = "free"
          /\ End(a, IF tree # 0 THEN "dirty" ELSE "failed")
          /\ UNCHANGED runs
  /\ UNCHANGED <<backlog, product, origin, receipts, creds, faults, crashes>>

(* The implementer: a whole diff with its evidence, a diff it broke off,   *)
(* or nothing.  No evidence is written when the head moved meanwhile.      *)
RunLane(a) ==
  /\ act[a].pc = "lane"
  /\ \/ /\ tree' = act[a].run
        /\ runs' = [runs EXCEPT ![act[a].run].evidence =
                      IF local = runs[act[a].run].before THEN "pass" ELSE "none"]
        /\ FileAndGo(a, "post")
        /\ UNCHANGED faults
     \/ /\ Fault
        /\ tree' \in {act[a].run, tree}
        /\ Go(a, "post")
        /\ UNCHANGED runs
  /\ UNCHANGED <<backlog, report, local, tip, origin, receipts, lock, creds, crashes>>

(* The post checks, the release of the lock, and the transaction's search  *)
(* for the one new evidence file.                                          *)
RunPost(a) ==
  /\ act[a].pc = "post"
  /\ lock' = "free"
  /\ report' = IF local = runs[act[a].run].before THEN report ELSE 0
  /\ IF /\ runs[act[a].run].evidence = "pass"
        /\ local = runs[act[a].run].before
        /\ act[a].alone
     THEN Go(a, "check") ELSE End(a, "failed")
  /\ UNCHANGED <<backlog, runs, product, origin, receipts, creds, faults, crashes>>

-----------------------------------------------------------------------------
(* transition_sidecar_backlog: check, move the file, update its metadata.  *)

(* recover_interrupted_target_implementation_evidence: the report of the   *)
(* run must still be there, and the diff.                                  *)
Recover(a, k) ==
  /\ act[a].pc = "idle" /\ "finish" \in Jobs[a]
  /\ runs[k].item # 0 /\ runs[k].evidence = "none"
  /\ report = k /\ tree # 0
  /\ runs[k].before = local
  /\ Executable(runs[k].item) /\ backlog[runs[k].item].dir = "queued"
  /\ runs' = [runs EXCEPT ![k].evidence = "pass"]
  /\ Filed(a, Task("finish", "check", runs[k].item, k))
  /\ UNCHANGED <<backlog, report, product, origin, receipts, lock, creds, faults, crashes>>

(* The diff in the tree is the one the evidence speaks of.                 *)
DiffMatches(k) ==
  runs[k].evidence = "pass" /\ tree = k /\ runs[k].before = local

MayComplete(k) ==
  /\ DiffMatches(k)
  /\ backlog[runs[k].item].dir = "queued"
  /\ Executable(runs[k].item)

CompleteCheck(a) ==
  /\ act[a].pc = "check"
  /\ IF MayComplete(act[a].run) THEN Go(a, "move") ELSE End(a, "failed")
  /\ UNCHANGED <<backlog, runs, report, product, origin, receipts, lock, creds, faults, crashes>>

(* `finish --complete`; when it may not, it ends without a trace.          *)
BeginComplete(a, k) ==
  /\ "finish" \in Jobs[a]
  /\ MayComplete(k)
  /\ Launch(a, Task("finish", "move", runs[k].item, k))
  /\ UNCHANGED <<backlog, runs, report, product, origin, receipts, lock, creds, faults, crashes>>

CompleteMove(a) ==
  /\ act[a].pc = "move"
  /\ IF backlog[act[a].item].dir = "queued"
     THEN /\ backlog' = [backlog EXCEPT ![act[a].item].dir = "completed"]
          /\ Go(a, "meta")
     ELSE UNCHANGED backlog /\ End(a, "failed")
  /\ UNCHANGED <<runs, report, product, origin, receipts, lock, creds, faults, crashes>>

CompleteMeta(a) ==
  /\ act[a].pc = "meta"
  /\ IF backlog[act[a].item].dir = "completed"
     THEN /\ backlog' = [backlog EXCEPT ![act[a].item].status = "completed",
                                        ![act[a].item].run = act[a].run]
          /\ IF act[a].job \in Transactions THEN FileAndGo(a, "commit-check")
             ELSE FileAndEnd(a, "completed")
     ELSE UNCHANGED backlog /\ End(a, "failed")
  /\ UNCHANGED <<runs, report, product, origin, receipts, lock, creds, faults, crashes>>

(* blocked and manual-review, for whatever item is not completed yet; only *)
(* blocked moves the file to another directory.                            *)
ShelfOf(to) == IF to = "blocked" THEN "blocked" ELSE "queued"
BeginShelve(a, i, to) ==
  /\ "shelve" \in Jobs[a]
  /\ backlog[i].dir # "none" /\ backlog[i].status # "completed"
  /\ Launch(a, [Task(to, "shelve", i, 0) EXCEPT !.from = backlog[i].dir])
  /\ UNCHANGED <<backlog, runs, report, product, origin, receipts, lock, creds, faults, crashes>>

ShelveMove(a) ==
  /\ act[a].pc = "shelve"
  /\ IF act[a].from = ShelfOf(act[a].job)
     THEN UNCHANGED backlog /\ Go(a, "label")
     ELSE IF backlog[act[a].item].dir = act[a].from
          THEN /\ backlog' = [backlog EXCEPT ![act[a].item].dir = ShelfOf(act[a].job)]
               /\ Go(a, "label")
          ELSE UNCHANGED backlog /\ End(a, "failed")
  /\ UNCHANGED <<runs, report, product, origin, receipts, lock, creds, faults, crashes>>

(* Mutant: the file is moved, its metadata stays as it was.              *)
ShelveMetaForgets(a) ==
  /\ act[a].pc = "label"
  /\ FileAndEnd(a, "shelved")
  /\ UNCHANGED <<backlog, runs, report, product, origin, receipts, lock, creds, faults, crashes>>

ShelveMeta(a) ==
  /\ act[a].pc = "label"
  /\ IF backlog[act[a].item].dir = ShelfOf(act[a].job)
     THEN /\ backlog' = [backlog EXCEPT ![act[a].item].status = ShelfOf(act[a].job),
                                        ![act[a].item].auto = FALSE]
          /\ FileAndEnd(a, "shelved")
     ELSE UNCHANGED backlog /\ End(a, "failed")
  /\ UNCHANGED <<runs, report, product, origin, receipts, lock, creds, faults, crashes>>

-----------------------------------------------------------------------------
(* commit_sidecar_backlog_product_diff: check, git commit, check, receipt. *)

CompletedBy(i, k) == i \in Completed /\ backlog[i].run = k

(* Mutant: the item need not be completed by this run.                   *)
MayCommitAnyItem(k) == DiffMatches(k)

MayCommit(k) == DiffMatches(k) /\ CompletedBy(runs[k].item, k)

CommitCheck(a) ==
  /\ act[a].pc = "commit-check"
  /\ IF MayCommit(act[a].run) THEN Go(a, "commit") ELSE End(a, "failed")
  /\ UNCHANGED <<backlog, runs, report, product, origin, receipts, lock, creds, faults, crashes>>

BeginCommit(a, k) ==
  /\ "finish" \in Jobs[a]
  /\ MayCommit(k)
  /\ Launch(a, Task("finish", "commit", runs[k].item, k))
  /\ UNCHANGED <<backlog, runs, report, product, origin, receipts, lock, creds, faults, crashes>>

(* git add and git commit of the evidence's paths, on whatever the head is *)
(* by now; they fail when there is no such diff to stage.                  *)
CommitDo(a) ==
  /\ act[a].pc = "commit"
  /\ IF tree = act[a].run
     THEN /\ local' = local \cup {Product(act[a].run)}
          /\ tip' = [tip EXCEPT ![act[a].run] = local']
          /\ tree' = 0
          /\ Go(a, "record")
     ELSE UNCHANGED product /\ End(a, "failed")
  /\ UNCHANGED <<backlog, runs, report, origin, receipts, lock, creds, faults, crashes>>

(* The post checks fail when the parent is not the evidence's head, the    *)
(* head moved on or the tree is dirty again: the commit then stays without *)
(* a receipt.                                                              *)
CommitRecord(a) ==
  /\ act[a].pc = "record"
  /\ IF /\ local = tip[act[a].run]
        /\ local = runs[act[a].run].before \cup {Product(act[a].run)}
        /\ tree = 0
     THEN /\ receipts' = [receipts EXCEPT !.commit = @ \cup {act[a].run}]
          /\ IF act[a].job \in Transactions THEN FileAndGo(a, "push")
             ELSE FileAndEnd(a, "committed")
     ELSE UNCHANGED receipts /\ End(a, "failed")
  /\ UNCHANGED <<backlog, runs, report, product, origin, lock, creds, faults, crashes>>

-----------------------------------------------------------------------------
(* publish_task_pr: push the task branch, find or create the pull request, *)
(* write the receipt; a refusal is written down too.                       *)

(* pending_backlog_product_pushes *)
PendingPush ==
  {k \in receipts.commit : /\ backlog[runs[k].item].status = "completed"
                           /\ k \notin receipts.published \cup receipts.pushed}

BeginRetry(a, k, job) ==
  /\ job \in {"retry", "republish"} \cap Jobs[a]
  /\ k \in PendingPush
  /\ Launch(a, Task(job, "push", runs[k].item, k))
  /\ UNCHANGED <<backlog, runs, report, product, origin, receipts, lock, creds, faults, crashes>>

Refuse(a, status) ==
  /\ receipts' = [receipts EXCEPT !.refused =
                    IF status = "credential-blocked" THEN @ \cup {act[a].run} ELSE @ \ {act[a].run}]
  /\ FileAndEnd(a, IF act[a].job \in Transactions /\ status # "credential-blocked"
                   THEN "publication-blocked" ELSE status)

(* A push that is not a fast-forward of the task branch is rejected.       *)
Push(a) ==
  /\ act[a].pc = "push"
  /\ \/ /\ ~creds
        /\ Refuse(a, "credential-blocked")
        /\ UNCHANGED <<hub, faults>>
     \/ /\ creds /\ Fault
        /\ Refuse(a, "push-blocked")
        /\ UNCHANGED hub
     \/ /\ creds
        /\ hub' = [hub EXCEPT ![act[a].item].branch = act[a].run]
        /\ Go(a, "pr")
        /\ UNCHANGED <<receipts, faults>>
  /\ UNCHANGED <<backlog, runs, report, product, remote, lock, creds, crashes>>

(* An open pull request is found; else one is created, which the service   *)
(* refuses when the branch is gone or has nothing the base does not have.  *)
Pr(a) ==
  /\ act[a].pc = "pr"
  /\ LET i == act[a].item IN
     \/ /\ ~creds \/ faults < MaxFaults
        /\ IF creds THEN Fault ELSE UNCHANGED faults
        /\ Refuse(a, IF creds THEN "pr-blocked" ELSE "credential-blocked")
        /\ UNCHANGED hub
     \/ /\ creds /\ hub[i].pr = "open"
        /\ act' = [act EXCEPT ![a].pc = "pr-record", ![a].result = "updated"]
        /\ UNCHANGED <<hub, receipts, faults>>
     \/ /\ creds /\ hub[i].pr # "open" /\ tip[act[a].run] \subseteq remote
        /\ act' = [act EXCEPT ![a].pc = "pr-record", ![a].result = "already-in-base"]
        /\ UNCHANGED <<hub, receipts, faults>>
     \/ /\ creds /\ hub[i].pr # "open" /\ ~(tip[act[a].run] \subseteq remote)
        /\ IF hub[i].branch = 0
           THEN Refuse(a, "pr-blocked") /\ UNCHANGED hub
           ELSE /\ hub' = [hub EXCEPT ![i].pr = "open", ![i].head = hub[i].branch]
                /\ act' = [act EXCEPT ![a].pc = "pr-record", ![a].result = "created"]
                /\ UNCHANGED receipts
        /\ UNCHANGED faults
  /\ UNCHANGED <<backlog, runs, report, product, remote, lock, creds, crashes>>

PrRecord(a) ==
  /\ act[a].pc = "pr-record"
  /\ receipts' = [receipts EXCEPT !.published = @ \cup {act[a].run},
                    !.linked = IF act[a].result = "already-in-base" THEN @ ELSE @ \cup {act[a].run}]
  /\ IF act[a].result # "already-in-base" /\ act[a].job \in Merging
     THEN Filed(a, [act[a] EXCEPT !.pc = "view", !.result = "none"])
     ELSE FileAndEnd(a, CASE act[a].job = "republish" \/ (act[a].job = "retry" /\ act[a].result = "already-in-base") -> act[a].result
                          [] act[a].result = "already-in-base" -> "merged"
                          [] OTHER -> "published")
  /\ UNCHANGED <<backlog, runs, report, product, origin, lock, creds, faults, crashes>>

-----------------------------------------------------------------------------
(* merge_task_pr: look at the pull request, merge it, fast-forward the     *)
(* local base, and only then write that it is merged.                      *)

(* pending_task_pr_merges *)
PendingMerge == receipts.linked \ receipts.merged

BeginMerge(a, k) ==
  /\ "merge" \in Jobs[a]
  /\ k \in PendingMerge
  /\ Launch(a, Task("merge", "view", runs[k].item, k))
  /\ UNCHANGED <<backlog, runs, report, product, origin, receipts, lock, creds, faults, crashes>>

(* Mutant: a pull request that is not open counts as merged.             *)
MergeViewNotOpen(a) ==
  /\ act[a].pc = "view"
  /\ creds
  /\ Go(a, IF hub[act[a].item].pr = "open" THEN "merge" ELSE "sync")
  /\ UNCHANGED <<backlog, runs, report, product, origin, receipts, lock, creds, faults, crashes>>

(* Checks that fail or are pending, a conflict, a draft: a fault.          *)
MergeView(a) ==
  /\ act[a].pc = "view"
  /\ LET pr == hub[act[a].item].pr IN
     \/ ~creds /\ FileAndEnd(a, "merge-credential-blocked") /\ UNCHANGED faults
     \/ creds /\ Fault /\ FileAndEnd(a, "merge-blocked")
     \/ creds /\ pr = "merged" /\ Go(a, "sync") /\ UNCHANGED faults
     \/ creds /\ pr = "open" /\ Go(a, "merge") /\ UNCHANGED faults
     \/ creds /\ pr \notin {"open", "merged"} /\ FileAndEnd(a, "merge-blocked") /\ UNCHANGED faults
  /\ UNCHANGED <<backlog, runs, report, product, origin, receipts, lock, creds, crashes>>

(* The merge at the service; the task branch is deleted with it, and every *)
(* pull request whose commits the base has by now counts as merged.        *)
Merged(i) ==
  /\ remote' = remote \cup tip[hub[i].head] \cup {MergeOf(i)}
  /\ hub' = [j \in Items |->
               IF j = i THEN [hub[j] EXCEPT !.pr = "merged", !.branch = 0]
               ELSE IF hub[j].pr = "open" /\ tip[hub[j].head] \subseteq remote'
                    THEN [hub[j] EXCEPT !.pr = "merged"] ELSE hub[j]]

MergeDo(a) ==
  /\ act[a].pc = "merge"
  /\ \/ /\ creds /\ hub[act[a].item].pr = "open"
        /\ Merged(act[a].item)
        /\ Go(a, "sync")
        /\ UNCHANGED faults
     \/ /\ creds /\ hub[act[a].item].pr = "open" /\ Fault
        /\ FileAndEnd(a, "merge-blocked")
        /\ UNCHANGED origin
     \/ /\ ~creds \/ hub[act[a].item].pr # "open"
        /\ FileAndEnd(a, IF creds THEN "merge-blocked" ELSE "merge-credential-blocked")
        /\ UNCHANGED <<origin, faults>>
  /\ UNCHANGED <<backlog, runs, report, product, receipts, lock, creds, crashes>>

(* _sync_local_base: git merge --ff-only; a diff in the tree may be in the *)
(* way of the commits it brings in (a merge commit alone changes nothing). *)
Sync(a) ==
  /\ act[a].pc = "sync"
  /\ \/ /\ local \subseteq remote \/ remote \subseteq local
        /\ local' = local \cup remote
        /\ Go(a, "merge-record")
        /\ UNCHANGED faults
     \/ /\ ~(local \subseteq remote) /\ ~(remote \subseteq local)
        /\ FileAndEnd(a, "merge-sync-blocked")
        /\ UNCHANGED <<local, faults>>
     \/ /\ IF tree # 0 /\ \E k \in Runs : Product(k) \in remote \ local
           THEN UNCHANGED faults ELSE Fault
        /\ FileAndEnd(a, "merge-sync-blocked")
        /\ UNCHANGED local
  /\ UNCHANGED <<backlog, runs, tree, report, tip, origin, receipts, lock, creds, crashes>>

MergeRecord(a) ==
  /\ act[a].pc = "merge-record"
  /\ receipts' = [receipts EXCEPT !.merged = @ \cup {act[a].run}]
  /\ FileAndEnd(a, "merged")
  /\ UNCHANGED <<backlog, runs, report, product, origin, lock, creds, faults, crashes>>

-----------------------------------------------------------------------------
(* push_sidecar_backlog_product_commit: `finish --push`, directly to base. *)

BeginPushBase(a, k) ==
  /\ "push" \in Jobs[a]
  /\ k \in receipts.commit /\ CompletedBy(runs[k].item, k)
  /\ tree = 0
  /\ local = tip[k]
  /\ remote \in {runs[k].before, local}
  /\ creds
  /\ Launch(a, Task("push", "push-base", runs[k].item, k))
  /\ UNCHANGED <<backlog, runs, report, product, origin, receipts, lock, creds, faults, crashes>>

PushBase(a) ==
  /\ act[a].pc = "push-base"
  /\ IF remote \subseteq tip[act[a].run] /\ creds
     THEN remote' = tip[act[a].run] /\ Go(a, "push-record")
     ELSE UNCHANGED remote /\ End(a, "failed")
  /\ UNCHANGED <<backlog, runs, report, product, hub, receipts, lock, creds, faults, crashes>>

PushRecord(a) ==
  /\ act[a].pc = "push-record"
  /\ IF local = tip[act[a].run] /\ tree = 0 /\ remote = local
     THEN /\ receipts' = [receipts EXCEPT !.pushed = @ \cup {act[a].run}]
          /\ FileAndEnd(a, "pushed")
     ELSE UNCHANGED receipts /\ End(a, "failed")
  /\ UNCHANGED <<backlog, runs, report, product, origin, lock, creds, faults, crashes>>

-----------------------------------------------------------------------------
(* What happens around the commands.                                       *)

Finish(a) ==
  /\ act[a].pc = "done"
  /\ act' = [act EXCEPT ![a] = Idle]
  /\ UNCHANGED <<backlog, runs, report, product, origin, receipts, lock, creds, faults, crashes>>

Crash(a) ==
  /\ act[a].pc \notin {"idle", "done"} /\ crashes < MaxCrashes
  /\ crashes' = crashes + 1
  /\ act' = [act EXCEPT ![a] = Idle]
  /\ lock' = IF lock = a THEN "dead" ELSE lock
  /\ tree' \in IF act[a].pc = "lane" THEN {tree, act[a].run} ELSE {tree}
  /\ UNCHANGED <<backlog, runs, report, local, tip, origin, receipts, creds, faults>>

(* The operator removes the lock of a dead run, or takes out of the tree a *)
(* diff nobody will resume, as the run's rollback guidance says.           *)
ClearLock ==
  /\ lock = "dead"
  /\ lock' = "free"
  /\ UNCHANGED <<backlog, runs, report, product, origin, receipts, act, creds, faults, crashes>>

(* Mutant: also the diff of an item that was accepted is given back.       *)
RestoreAccepted ==
  /\ tree # 0 /\ ~Resumable(tree)
  /\ \A a \in Actors : act[a].pc \in {"idle", "done"}
  /\ tree' = 0
  /\ UNCHANGED <<backlog, runs, report, local, tip, origin, receipts, lock, act, creds, faults, crashes>>

Restore ==
  /\ tree # 0 /\ ~Resumable(tree)
  /\ \A a \in Actors : act[a].pc \in {"idle", "done"}
  /\ \A i \in Completed : backlog[i].run # tree
  /\ tree' = 0
  /\ UNCHANGED <<backlog, runs, report, local, tip, origin, receipts, lock, act, creds, faults, crashes>>

(* A person merges or closes a pull request.                               *)
HumanMerge(i) ==
  /\ "merge" \in Humans
  /\ hub[i].pr = "open"
  /\ Fault
  /\ Merged(i)
  /\ UNCHANGED <<backlog, runs, report, product, receipts, lock, act, creds, crashes>>

HumanClose(i) ==
  /\ "close" \in Humans
  /\ hub[i].pr = "open"
  /\ Fault
  /\ hub' = [hub EXCEPT ![i].pr = "closed"]
  /\ UNCHANGED <<backlog, runs, report, product, remote, receipts, lock, act, creds, crashes>>

LoseCreds ==
  /\ creds /\ Fault
  /\ creds' = FALSE
  /\ UNCHANGED <<backlog, runs, report, product, origin, receipts, lock, act, crashes>>

RestoreCreds ==
  /\ ~creds
  /\ creds' = TRUE
  /\ UNCHANGED <<backlog, runs, report, product, origin, receipts, lock, act, faults, crashes>>

(* refill_goal_if_idle queues the next planned task.                       *)
Refill(i) ==
  /\ backlog[i].dir = "none"
  /\ Ready = {}
  /\ backlog' = [backlog EXCEPT ![i].dir = "queued"]
  /\ UNCHANGED <<runs, report, product, origin, receipts, lock, act, creds, faults, crashes>>

Begin(a) ==
  \/ \E i \in Items, job \in Transactions : BeginTransaction(a, i, job)
  \/ \E k \in Runs : BeginComplete(a, k) \/ Recover(a, k) \/ BeginCommit(a, k)
                     \/ BeginMerge(a, k) \/ BeginPushBase(a, k)
  \/ \E k \in Runs, job \in {"retry", "republish"} : BeginRetry(a, k, job)
  \/ \E i \in Items, to \in {"blocked", "manual-review"} : BeginShelve(a, i, to)

Continue(a) ==
  \/ RunLock(a) \/ RunVerify(a) \/ RunLane(a) \/ RunPost(a)
  \/ CompleteCheck(a) \/ CompleteMove(a) \/ CompleteMeta(a) \/ ShelveMove(a) \/ ShelveMeta(a)
  \/ CommitCheck(a) \/ CommitDo(a) \/ CommitRecord(a)
  \/ Push(a) \/ Pr(a) \/ PrRecord(a)
  \/ MergeView(a) \/ MergeDo(a) \/ Sync(a) \/ MergeRecord(a)
  \/ PushBase(a) \/ PushRecord(a)

Environment ==
  \/ ClearLock \/ Restore \/ LoseCreds \/ RestoreCreds
  \/ \E i \in Items : HumanMerge(i) \/ HumanClose(i) \/ Refill(i)

Next ==
  \/ \E a \in Actors : Begin(a) \/ Continue(a) \/ Finish(a) \/ Crash(a)
  \/ Environment

Spec == Init /\ [][Next]_vars

-----------------------------------------------------------------------------
(* Properties.                                                             *)

Places == {"idle", "lock", "verify", "lane", "post", "check", "move", "meta", "shelve", "label",
           "commit-check", "commit", "record", "push", "pr", "pr-record", "view", "merge", "sync",
           "merge-record", "push-base", "push-record", "done"}
Results == {"none", "locked", "dirty", "failed", "completed", "shelved", "committed", "created",
            "updated", "already-in-base", "published", "credential-blocked", "push-blocked",
            "pr-blocked", "publication-blocked", "merge-blocked", "merge-credential-blocked", "merge-sync-blocked", "merged",
            "pushed"}
Tasks == {"none", "transaction", "run", "retry", "republish", "merge", "finish", "push", "blocked",
          "manual-review"}
Dirs == {"none", "queued", "completed", "blocked"}

(* Types: every variable holds what the code may store there.              *)
TypeOK ==
  /\ backlog \in [Items -> [dir : Dirs, status : Dirs \ {"none"}, auto : BOOLEAN, run : 0 .. MaxRuns]]
  /\ runs \in [Runs -> [item : Items \cup {0}, before : SUBSET Commits, evidence : {"none", "pass"}]]
  /\ tree \in 0 .. MaxRuns
  /\ report \in 0 .. MaxRuns
  /\ local \in SUBSET Commits
  /\ remote \in SUBSET Commits
  /\ tip \in [Runs -> SUBSET Commits]
  /\ hub \in [Items -> [branch : 0 .. MaxRuns, pr : {"none", "open", "merged", "closed"}, head : 0 .. MaxRuns]]
  /\ receipts \in [commit : SUBSET Runs, published : SUBSET Runs, refused : SUBSET Runs,
                    linked : SUBSET Runs, merged : SUBSET Runs, pushed : SUBSET Runs]
  /\ lock \in Actors \cup {"free", "dead"}
  /\ act \in [Actors -> [pc : Places, job : Tasks,
                          item : Items \cup {0}, run : 0 .. MaxRuns, from : Dirs, alone : BOOLEAN,
                          result : Results]]
  /\ creds \in BOOLEAN
  /\ faults \in 0 .. MaxFaults
  /\ crashes \in 0 .. MaxCrashes

(* A completed item's work exists: it waits in the worktree or is a commit *)
(* of the local base, whatever died between the transition and the commit. *)
WorkAccounted ==
  \A i \in Completed : tree = backlog[i].run \/ Product(backlog[i].run) \in local

(* Only the run an item was completed by becomes a commit, so no item is   *)
(* delivered twice, whoever resumes or finishes it.                        *)
CommitsAreCompletions ==
  \A k \in Runs : Product(k) \in local \cup remote => backlog[runs[k].item].run = k

(* A receipt of a merge is true of both sides, and a receipt of a pull     *)
(* request or a push of the origin.                                        *)
ReceiptsAreTrue ==
  /\ \A k \in receipts.merged : Product(k) \in local \cap remote
  /\ \A k \in receipts.pushed : Product(k) \in remote
  /\ \A k \in receipts.published :
        \/ Product(k) \in remote
        \/ hub[runs[k].item].pr # "none" /\ Product(k) \in tip[hub[runs[k].item].head]

(* A branch has no commit of an item without those of the items it needs,  *)
(* whoever sets what aside, recovers or merges in between.                 *)
DependenciesFirst ==
  \A k \in Runs, branch \in {local, remote} :
    Product(k) \in branch => \A i \in Depends[runs[k].item] : Product(backlog[i].run) \in branch

(* Two implementers never share the worktree, whoever else runs, commits,  *)
(* dies or clears a lock meanwhile: a run's implementer finds it clean,    *)
(* leaves nothing in it but the run's own diff, and evidence of that diff  *)
(* is filed only for one that is still there or already is a commit.       *)
ImplementerAlone ==
  \A a \in Actors :
    /\ act[a].pc = "lane" => tree = 0 /\ \A b \in Actors \ {a} : act[b].pc \notin {"lane", "post"}
    /\ act[a].pc = "post" => tree \in {0, act[a].run}
    /\ act[a].pc = "post" /\ runs[act[a].run].evidence = "pass" =>
         tree = act[a].run \/ Product(act[a].run) \in local

(* The stage of an item as WorkItem speaks of it.                          *)
Stage ==
  [i \in Items |->
     LET k == backlog[i].run IN
     CASE k # 0 /\ Product(k) \in remote -> "integrated"
       [] k # 0 /\ Product(k) \in local \ remote -> "committed"
       [] i \in Completed /\ Product(k) \notin local \cup remote -> "accepted"
       [] i \notin Completed /\ Product(k) \notin local \cup remote ->
            IF backlog[i].auto THEN "open" ELSE "shelved"]

W == INSTANCE WorkItem WITH stage <- Stage

(* Transition, commit and publication with all their receipts and crashes  *)
(* deliver each item as WorkItem promises.                                 *)
ImplementsWorkItem == W!Spec
=============================================================================
