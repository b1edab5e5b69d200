# harness-controller in TLA+

Models of the concurrent core of the harness: the relay that brings the owner's instructions from
Redis into the inbox, the lock files that keep runs apart, the External Doctor that repairs failed
runs, the launcher and the autonomy loop, the cycle of that loop with its branches and proposals, the
delivery of a target's backlog item from its implementation to the merge, the watch that drives it,
and the goals it works for. TLC checks the models on small instances; every safety property that a
run checks is also proved, with TLAPS, for every value of the constants.

- Check a run: `tlc -workers 2 -config <run>.cfg <module>` (table in section 4).
- Check the proofs: `tlapm <module>.tla` for `OwnerRelayProofs`, `PidLockProofs`, `DoctorProofs`,
  `SupervisorProofs`, `DeliveryProofs`, `WatchProofs`, `GoalProofs` and `CycleProofs`.
- `PROJECT.json` maps every definition to the lines it models and lists hazards, runs, mutants
  (plausible bugs each property must notice) and theorems.

Paths below are relative to `src/scripts/`; `core.py`, `policy.py`, `relay.py`, `control.py` and
`status_runtime.py` are in `harness_autonomy/`.

## 1. Inventory

The harness runs coding agents over a repository. Everything its processes share is on disk
(`control.json`, inbox and outbox files, `LATEST.md`, lock files, git worktrees) or in Redis lists;
there is no common memory and, apart from the lock files, no mutual exclusion.

| part | state | operations | meets | what is hard | what makes it correct |
|---|---|---|---|---|---|
| Owner relay (`relay.py`, `harness_relay_store.py`, `harness_telegram_bridge.py`) | Redis: `seen:` and `done:` keys, `queue`, `processing` and dead-letter lists, drain lock with a 60 s life | enqueue; drain: claim, validate, write, mark, acknowledge | product bot, loop and launcher, which all drain; the inbox | crash between any two store calls, store errors with unknown effect, expiring lock and keys, bounded lists | an accepted command never vanishes, is recorded once and in order; a refused one never |
| Inbox and `control.json` (`control.py`) | mode, `doctor_claim`, same-goal record; pending and archived messages | pause, stop, resume, inbox add; consume and archive; write a claim | operator, loop, launcher, Doctor: all read-modify-write the one file | stale reads, lost writes, an instruction applied twice | an order stays in force until the operator takes it back; a claim is not lost |
| Launcher (`harness_autonomy_launch.py`) | child processes, pending claim, watch restarts | start loop and status watch, poll, create, renew and clear claims, run the Doctor, wait for the operator | loop, Doctor, control, `LATEST.md` | events in any order between two polls | loop and Doctor never together; no failed run is forgotten; stop ends everything |
| Autonomy loop (`core.py`, `run_loop`, `run_cycle`) | failures in a row, idle signature, backlog cycle | relay drain, resume and answer handling, cycle of lanes, same-goal detector, idle and operator waits, retry | launcher, control, inbox | many early returns, control read at different places of a pass | stop and pause are honoured, failures bounded |
| External Doctor (`harness_doctor.py`) | claim in memory and on disk, `doctor.lock`, repair worktree, attempts | recover stale claims, classify, repair, review, gates, commit, push, pull request, merge, end the claim | launcher, operator, control | crash in any pass, resumed worktree, leases, a second Doctor, partial publication | nothing unreviewed is committed, one Doctor at a time, budgets, hard stops stay hard |
| Lock files (`harness_doctor.py`, `core.py`, `status_runtime.py`) | a file and the pid in it | create, write the pid, read it, judge it, unlink | all runs | create and pid are two steps, read, judge and unlink are three | mutual exclusion, and a dead owner does not block for ever |
| Goals (`harness_goal*.py`, `harness_gate_router.py`) | active goal pointer, progress, gates with evidence, queue reports | create, refill the queue, refresh progress, complete | watch, task intake, production gates | which tasks and gates may run next, evidence that goes stale with the product head | no goal completes with an open gate or task |
| Goal watch (`harness_watch.py`) | watch status, pending waits, last transaction | idle pass, refill, implementation, publication, merge; operator waits | goals, controller, publication, incidents | a long pass of several transactions with retries after each kind of stop | no product commit is published or merged twice; an interrupted pass is resumed |
| Controller and targets (`harness_controller.py`) | target registry, sidecar backlog, transition, commit and push evidence | lock a target, transition, complete, commit the product, push, recover evidence | watch, publication | evidence and effects written in separate steps | a push follows a recorded commit; a backlog item completes with evidence |
| Publication (`harness_publication.py`) | receipts of pull requests and merges | publish a task branch, open a pull request, merge, sync the base | watch, controller | each step may fail after the one before it took effect | one pull request for a commit, one merge |
| Policy and state proposals (`policy.py`, `harness_control_plane.py`) | proposals with ages, vetoes and receipts, in one file of buckets per workspace | register, mature, veto, apply with rollback | loop, owner | stale captures, pending receipts, several worktrees | a vetoed proposal is never applied; an apply is whole or undone |
| Task intake (`harness_task_intake.py`) | packets: draft, reviewed, queued | draft, review, queue, fix the scope | goals, backlog | hashes that bind a review to its packet | nothing unreviewed is queued, nothing is queued twice |
| Incidents and operator waits | counted records | record, classify, reply | watch | counters shared by processes | counts and waits are not lost |

Modelled only as far as these need them: run records and the choice of the next backlog item
(`Delivery`), the request ledger and the production gates (their verdicts are inputs of `Goal`), the
commands that hold the target lock (`Delivery`). Left aside: contracts, evidence and guards are pure
functions on text; archive and cleanup, product audit, prompts and model choice, installation,
export and release are one-shot or pure. `PROJECT.json` lists every component with its status and
reason.

## 2. Plan

Most important behaviour first. Done:

1. `OwnerRelay`: accepted commands and their order.
2. `PidLock`: the assumption under which the rest runs alone.
3. `Doctor`: the claim's life with the whole repair loop inside.
4. `Supervisor`: launcher, loop and operator over the same claim, with the Doctor seen through its
   effect on it (a composition of parts 2 to 4 at the level of `control.json`).
5. `WorkItem`, the abstract life of a backlog item; `Delivery`, the commands over one target that
   implement it; `Watch`, which composes `Delivery` with the passes of the watch and implements
   `WorkItem` too.
6. `Goal`: the goal store of one target and everybody who writes it.
7. `Cycle`: the inside of a loop's cycle, with branches, worktrees, proposals and vetoes.

Each has its proofs in `<module>Proofs`. Left:

8. `Mailbox` (accepted, then settled or dropped, at most once), implemented by `OwnerRelay`, and
   `ClaimLife` (no claim, active, soft or hard end), implemented by `Doctor`, which would justify
   `Supervisor`'s `DoctorResults` by a theorem.
9. `TaskIntake`: drafts, reviews and the hashes that bind them.
10. Waiting times and manual-only proposals of `policy.py`; operators for contracts and routing
    against reference definitions.

## 3. Modules

**`OwnerRelay`** (`MCOwnerRelay`, `OwnerRelayProofs`). One delivery is one execution of the bot's
handler; every call on the store is one action (`BotMark`, `BotAppend`, `BotUndo`; `DrainAcquire`,
`DrainRead`, `DrainClaim`, `DrainRefuse`/`DrainFound`/`DrainFresh`, `DrainWrite`, `DrainMark`,
`DrainBury`, `DrainAck`, `DrainRelease`), so that a crash (`BotCrash`, `DrainCrash`), a store error
(`...Fault`, `DrainRetryable`, `DrainAbort`) or an expiry (`LockExpire`, `EnvelopeExpire`,
`SeenExpire`, `QueueExpire`) can come between any two. The store's lists are sequences with the
newest payload at the head, as LPUSH leaves them; the envelope's signature and age are the sets
`Forged` and `expired`. External: Redis itself, by the calls the code makes.

**`PidLock`** (`MCPidLock`, `PidLockProofs`). `file` is the file at the path, named by the process
that made it; `written` says whose file holds a pid. `checkFirst`, chosen once, says which of the two
locks it is: the loop cleans up and creates once, the Doctor creates and cleans up only when that
fails. `ReadPid`, `Judge` and `Unlink` are three steps, as in the code: what is unlinked is the path,
whoever's file is there by then, and `raced` remembers that it was not the one whose pid was read.
`Release` and `Exit` end a run, `Kill` ends it with everything left behind; a pid belongs to nobody
in either case (`Stale`). The reuse of a pid by the system is not modelled.

**`Doctor`** (`MCDoctor`, `DoctorProofs`). `repair-latest` from the read of `control.json` to the release of the
lock: `DoctorStart`; `acquire_lock` (`DoctorCreate`, `DoctorCreateFails`, `DoctorReadPid`,
`DoctorJudge`, `DoctorUnlink`, `DoctorWritePid`); `DoctorRecover`, `DoctorOwn`, `DoctorEnter`; the attempt loop
(`DoctorAttempt`, `DoctorRepair`, `DoctorReview`, `DoctorVerdict`, `DoctorGate`, `DoctorPublish`,
`DoctorCommit`, `DoctorPush`, `DoctorPr`, `DoctorRetry` or `DoctorSettle`), `DoctorMerge`,
`DoctorFinish`, `DoctorUnlock`, and `DoctorCrash` anywhere. `control.claim` is the claim on disk,
`doc[d].mem` the copy each Doctor works with: they are different things in the code and so here.
`tree` is the worktree, whose diff a later run resumes; what was found of that diff (`verdict`,
`gated`) is forgotten when the diff changes. `lock` is as in `PidLock`: a file of a Doctor, one left by
a dead one with its pid (`Dead`) or without (`Blank`); `saw` is the pid a Doctor read, and `raced`
remembers that one unlinked another lock than that. The launcher reads the claim (`LauncherRead`), looks
at the lock (`LauncherLook`, for which a lock without a pid is none) and writes (`LauncherRenew`,
`LauncherClear`, `LauncherCreate`) in separate steps, with what it will write in `launch`;
`clear-terminal-claim` is three steps too (`ClearLook`, `ClearRead`, `ClearTerminal`). The other commands
of the operator and the passing of leases are one action each. The launcher's own Doctor is any of the
Doctors, and the launcher does not wait for it: it may do here what it does while somebody else's
Doctor is at work. Abstracted: texts of diagnoses, reviews and reports; the failure is one of four
classes and all claims are about one incident. A read-modify-write of `control.json` by the Doctor is
one step (the loop's, which the code spreads over many lines, is two in `Supervisor`).

**`Supervisor`** (`MCSupervisor`, `SupervisorProofs`). One action for each stretch between two looks
at shared state: the loop's pass (`LoopRelay`, `LoopRead`, `LoopIdle`, `LoopStart`, `LoopSelect`,
`LoopWork`, `LoopRecordRead`, `LoopRecordWrite`, `LoopDone`, `LoopAsk`, `LoopFailed`, `LoopRetry`),
the launcher's (`LauncherTop` to `LauncherAfter`), the Doctor as it reads, writes and ends its claim,
and the operator (`Operate`, `Send`, `LauncherStart`, `LauncherInterrupt`). A cycle is known by its
outcome. Abstracted: the counter of the same-goal detector (any cycle without a product may
escalate), the reason of a pause other than the detector's (it may qualify for the operator wait or
not), what is in an answer (it is accepted or refused). `doctor_on_failure` and `continue_on_error`
are on and `max_cycles` and `stop_on_idle` off, as by default; one launcher at a time, started again
after it ends; its preflight is not modelled.

**`Delivery`** (`MCDelivery`, `DeliveryProofs`). One target: the item files of its sidecar (`backlog`:
directory and metadata, which a transition writes one after the other), the implementation runs, the
product's worktree, local base and task branches, the origin with its pull requests, the receipts,
and the commands that work on it. A command (`act[a]`) is a place and what it carries: `RunLock`,
`RunVerify`, `RunLane`, `RunPost` (`run-next` under `target-run.lock`); `CompleteCheck`,
`CompleteMove`, `CompleteMeta` and `Recover` (the transition and its recovery); `ShelveMove`,
`ShelveMeta`; `CommitCheck`, `CommitDo`, `CommitRecord`; `Push`, `Pr`, `PrRecord`; `MergeView`,
`MergeDo`, `Sync`, `MergeRecord`; `PushBase`, `PushRecord`. `Crash` may come between any two, and
`Environment` is people at a pull request, credentials that come and go, a lock that is cleared and a
worktree that is restored. A branch is the set of commits reachable from its head. External: git and
GitHub, by the calls the code makes. Abstracted: what a commit contains (a run's diff is whole or
absent) and the scope check of its paths.

**`WorkItem`**. The promise: an item is open, accepted, committed, integrated or shelved; it is
accepted once and after its dependencies, committed once and after theirs, and the origin gets
committed work only. `Delivery` computes the `Stage` of an item from the metadata and the two
branches.

**`Watch`** (`MCWatch`, `WatchProofs`). Extends `Delivery` by the passes of `harness watch` and `run`
(`loop`: refill, merge what is open, retry the last publication, select, work, block) and by
`incidents`, the counted failures per item and cause. The watch acts through the commands of
`Delivery`, so its steps are `Delivery`'s (a theorem); `Diligent` says that the operator starts a
watch again only after removing what the last one waited for, and runs other commands between
watches. Setup waits, maintenance and status files are left out.

**`Goal`** (`MCGoal`, `GoalProofs`). The files of the goal store, each with its own variable, because
they are written one after the other: `pointer` (`goals/active.json`), `goals` (`goal.json`),
`progress` (`progress.json`). The watch and the status command both refresh a goal: `LoadProgress`,
`SaveProgress`, `Judge`, `SaveGoal` carry what they read in `act[a]`. Refill is `RefillRoadmap`,
`SaveRoadmap`, `RetryDrafts`, `SaveRetried`, `PlanTask`, `SaveTask`; work is `Implement`, `Publish`,
`Prove`, `VerifyGates`, `CompleteVerified`; the owner's command is `Register`, `Archive`, `Clear`,
`Create`, `Point`; `Kill` ends a command anywhere. Verdicts of a review, of the request ledger and of
a gate probe are choices.

**`Cycle`** (`MCCycle`, `CycleProofs`). One loop with a persistent branch: `Behind`, `Ahead`,
`Diverged`, `InStep` (the preflight of the branches), `Prepare`, `CreateWorktree`, `Select`,
`PlannerDone`, `ManagerDone`, `CommitRun`, `Land`, `Publish`, `Align`, `Promote`, `Report`, with
`Fail`, `LandRefused`, `PromoteRefused` and `Crash`, while people push, pull, merge, commit and veto.
What the files of a tree say (items done, proposals, applies) follows from its commits, so a file
that a branch carries is never newer than the branch. `age` and `recorded` are the control plane's
bucket in the root, which is no branch's. Assumed, as by default: run evidence is tracked
(`harness_export.py:833` ff.), state is carried forward, pushes are on, worktrees are kept, the root
is on the base branch, one goal is active, proposals are auto-veto without a waiting time. Left out:
cooldown, manual-only proposals, autosplit, cycles without a change.

Facts of the code the models rest on, which a reader may not expect:

- pause, stop and resume write a fresh payload, so they drop the claim and the same-goal record; a
  Doctor at work then writes its claim back, and keeps the mode.
- a resume message of the relay is applied at every pass of the loop until a planner lane archives
  the inbox.
- the launcher clears a claim that ended as `released` or `auto-escalate` and starts the loop again;
  `manual-review` and `paused` keep the loop from starting until the operator clears them.
- the loop's cleanup reads the lock with `json.loads`, so a lock without a pid makes it fail, and the
  Doctor never takes such a lock for stale: nobody removes it.
- a lock that is released is unlinked by its path, and so is a stale one, some steps after its pid was
  read: a run that merely ends in between is enough for the next one's lock to be unlinked.
- the launcher renews an expired claim with what it read before it looked at the lock, so a Doctor that
  comes in between finds its claim replaced, and a claim that ended meanwhile is active again.
- a transition moves an item's file first and writes its metadata later; selection goes by the
  metadata, wherever the file is.
- a failure is filed as two incidents with different texts, and the one that sorts first decides
  whether the item waits for the operator.
- the watch looks for a task's dependency among the completed items of every goal, the planner only
  among those of its own.
- a cycle selects from the tree it will land on, but vetoes and visibility are judged in the root and
  in the worktree, so a pass refreshes both.

## 4. Runs

| run | module | checks | shows |
|---|---|---|---|
| `relay_core` | `MCOwnerRelay` | `TypeOK`, `AcceptedAccounted`, `LedgerOncePerUpdate`, `DrainExclusive`, `FifoUntilFailure` | with a redelivered update and another one, two drainers, two store errors and a crash anywhere, accepted commands are accounted for, recorded once and, until something fails, in order |
| `relay_live` | `MCOwnerRelay` | `AcceptedSettles` | a command is settled although another fails at every write and a third is forged |
| `lock_files` | `MCPidLock` | `TypeOK`, `ExclusionUnlessRaced`, `StaleIsRemoved` | both kinds of lock, three processes that start again and again, two of which may be killed anywhere: they exclude each other until one unlinks another file than it judged, and a stale lock is removed |
| `doctor_core` | `MCDoctor` | `TypeOK`, `CommitsReviewed`, `HardStopHolds`, `ReleasedIsPublished`, `DoctorEnds` | one Doctor after the other with three failure classes and four verdicts, two strategies, three attempts, a crash anywhere |
| `doctor_two` | `MCDoctor` | `OneDoctorInside`, `ClaimHeld` | two Doctors that only diagnose, a crash that may leave the lock with its pid or without, a launcher that reads, looks and writes, a lease that grows old twice, an operator's command: what lets two in is one unlink, and the claim of a Doctor at work is the one on disk |
| `sup_core` | `MCSupervisor` | `TypeOK`, `LoopOrDoctor`, `NoLoopOverEndedClaim`, `FailureIsRepaired` | every outcome, message and Doctor result, two commands, two launchers |
| `sup_stop` | `MCSupervisor` | `StopHonoured`, `StopEndsLoop` | without the detector and the relay's resume a stop is honoured and ends the loop |
| `delivery_core` | `MCDelivery` | `TypeOK`, `WorkAccounted`, `CommitsAreCompletions`, `ImplementerAlone`, `DependenciesFirst` | a watch that implements and merges beside an operator who implements, finishes and shelves, a crash and a failure anywhere: accepted work exists, is committed once, in the order of its dependencies, and two implementers never share the worktree |
| `delivery_publish` | `MCDelivery` | `ReceiptsAreTrue` | two commands that publish, retry and push the base, two failures and a crash: no receipt says more than happened |
| `watch_core` | `MCWatch` | `AttemptsBounded`, `EveryItemSettles`, `CommitsReachBase`, `ImplementsWorkItem` | the passes of a watch over a chain of two items, one of them queued by a refill, with two failures and a crash: attempts are bounded, items end, commits arrive, and every step is one of `WorkItem` |
| `goal_core` | `MCGoal` | `TypeOK`, `CompletedGoalDelivered`, `CompletionIsEarned`, `PrototypeEnds` | a prototype and a production goal over a roadmap of two tasks, with one kill, status command or setback: a goal completes only when it has earned it, and a prototype ends |
| `cycle_core` | `MCCycle` | `LandsOnce`, `VetoKept`, `EveryItemLands`, `ProposalSettles` | up to six cycles over one automatic and one manual item, a commit of people, a failure and a veto anywhere: nothing lands twice, a veto is kept, items and proposals come to an end |

Every run visits its whole state space: from 24 thousand distinct states (`sup_stop`) over some
hundred thousand (`lock_files`, `relay_live`, `sup_core`, `watch_core`, `goal_core`, `cycle_core`,
`doctor_core`) to between one and five million (`delivery_...`, `doctor_two`, `relay_core`), each in at
most two and a half minutes with two workers.

**Bounds.** They count what the environment does, never what the code does: `MaxFaults`,
`MaxCrashes`, `MaxDead` and `MaxTrouble` failures, `MaxCommands` orders, `MaxClaims` incidents,
`MaxStarts` launchers, `MaxOutside` commits of people, `MaxVetoes`. One crash is enough for the
recovery paths, as each starts from what one crash leaves, and a second order, claim or launcher is
enough to meet what the first one left. `MaxQueue = 2` with three deliveries makes the list overflow,
`Limit = 2` fills a batch, `Budget = 3` has a first, a middle, a last and an exhausted attempt,
`MaxLapses = 2` lets a lease expire and go stale,
`MaxFailures = 2` a failure that is retried and one that is not. `MaxRuns = 2` in `delivery_...`
lets an item be implemented twice or two items once; `MaxRuns = 5` in `watch_core` is more than two
items with `Threshold = 2` and a crash can use. Two items are enough for a dependency, and the one
that comes first by priority depends on the other in `delivery_...` and the reverse in `watch_core`.
`MaxPackets = 5` holds two roadmaps and one packet more, `MaxCycles = 6` an execution, a proposal, an
apply, an execution of what it released and a closeout with its apply. `MaxRuns`, `MaxPackets` and
`MaxCycles` bound histories; liveness in `goal_core` and `cycle_core` excuses the state in which they
are used up (`Waiting`, `Spent`). `MaxQueue`, `MaxDead` of the relay, `Limit`, `Budget`,
`MaxFailures`, `MaxRestarts`, `Threshold` and `MinVisibility` are parameters of the code itself.
Symmetry is used only for interchangeable drainers or Doctors, and never with a liveness property.
`CHECK_DEADLOCK FALSE` appears where everything may be finished: no launcher to start any more
(`sup_...`), every item delivered (`delivery_...`, `watch_core`), every goal completed
(`goal_core`), every cycle used (`cycle_core`).

**Fairness.** `OwnerRelay`: each loop pass and each operator wait drains again, and a drain that
runs goes on, so every drainer's steps are weakly fair; so is the expiry of the lock, which is the
store's clock. Crashes, errors and other expiries are not fair. `PidLock`: the launcher starts runs
again and again, so each process's steps are. `Doctor`: one sequential process whose subprocesses
have time limits; starting it is not fair. `Supervisor`: the loop's steps together and the
launcher's steps together, as both are sequential programs; a stall, a dying status watch, an
interrupt and a dying Doctor may never come. `Watch`: the passes and the command they run are one
sequential program (weakly fair); the operator starts the watch again each time it stopped (strongly
fair, as it is not always stopped) and removes what it waits for: a lock without an owner, a
worktree, credentials. A command of the operator that began goes on, and one that finishes an
accepted item is run in the end. `Goal`: the watch is kept running (weakly fair); publication is
retried at each pass and succeeds in the end (strongly fair, as refreshes come in between); the
owner, the receipts of request checks and setbacks promise nothing. `Cycle`: the loop goes on, and
people resolve a divergence it has stopped for.

## 5. Proofs

| theorem | states |
|---|---|
| `OwnerRelayProofs!TypeCorrect` | the type invariant, and a drainer between claim and acknowledgement has a payload in hand |
| `OwnerRelayProofs!AcceptedNeverVanishes` | `[]AcceptedAccounted` |
| `OwnerRelayProofs!OneDrainAtATime` | `[]DrainExclusive` |
| `OwnerRelayProofs!UpdateRecordedOnce`, `InboxIsFifo` | `[]LedgerOncePerUpdate`, `[]FifoUntilFailure`, when no drain outlives its lock |
| `PidLockProofs!TypeCorrect`, `NoRaceNoOverlap` | `[]TypeOK`, `[]ExclusionUnlessRaced` |
| `DoctorProofs!TypeCorrect`, `LockExcludes` | `[]TypeOK`, `[]OneDoctorInside` |
| `DoctorProofs!OnlyReviewedIsCommitted` | `[](~raced => CommitsReviewed)`: until a Doctor unlinks another lock than it judged |
| `DoctorProofs!AloneCommitsReviewed` | `[]CommitsReviewed`, when one Doctor runs after the other (`Doctors` is a singleton) |
| `DoctorProofs!HardStopsHold` | `[]HardStopHolds`, unless the Doctor runs an external repair command (`Mode = "command"`) |
| `DoctorProofs!ReleaseIsPublished` | `[]ReleasedIsPublished` |
| `DoctorProofs!ClaimIsHeld` | `[]ClaimHeld`, whose own conditions are that nobody raced, the operator has issued no command, and the launcher was not about to write at the take-over |
| `SupervisorProofs!TypeCorrect`, `EndedClaimStopsLoop`, `LoopAndDoctorExclude`, `FailureGoesToDoctor` | `[]TypeOK`, `[]NoLoopOverEndedClaim`, `[]LoopOrDoctor`, `[]FailureIsRepaired` |
| `SupervisorProofs!StopIsHonoured` | `[]StopHonoured`, when no resume message is sent and no cycle feeds the detector |
| `DeliveryProofs!TypeCorrect`, `ImplementerWorksAlone`, `AcceptedWorkExists`, `OneCommitPerItem`, `NeedsComeFirst`, `ReceiptsHold` | `[]TypeOK`, `[]ImplementerAlone`, `[]WorkAccounted`, `[]CommitsAreCompletions`, `[]DependenciesFirst`, `[]ReceiptsAreTrue` |
| `WatchProofs!DeliveryImplements` | `Delivery!Spec` implements `WorkItem`, when nobody shelves |
| `WatchProofs!WatchIsDelivery` | every behaviour of a watch is one of `Delivery`, under `Turns` |
| `WatchProofs!WatchTypeCorrect`, `WatchImplements`, `AttemptsAreBounded` | `[]WatchTypeOK`, `ImplementsWorkItem` and `[]AttemptsBounded`, under `Turns` |
| `GoalProofs!TypeCorrect`, `CompletedDelivered`, `CompletionEarned` | `[]TypeOK`, `[]CompletedGoalDelivered`, `CompletionIsEarned` |
| `CycleProofs!TypeCorrect`, `LandedOnce`, `VetoHeeded` | `[]TypeOK`, `[]LandsOnce`, `VetoKept` |

They hold for any number of deliveries, drainers, processes, Doctors, items, commands, goals, cycles,
crashes and errors, any dependencies and any limits. They assume what the `ASSUME` of the module says
of the constants (kinds, non-zero bounds, that an update's search text finds its own file), plus the
condition named in the table. Each condition is about people or the environment, and section 6 says
what happens without it. `Turns` (of `Watch`) says that the operator is diligent, that the watch has
all the jobs it needs, and that nobody else implements or shelves; `MCWatch` assumes it of its
instance, so TLC evaluates it, and the watch of the code is such a one as long as the operator uses
the target's other commands only while no watch runs.

- *Accepted commands.* `AcceptedAccounted` alone is not inductive: an acknowledgement removes a
  payload from the processing list. `AckInv` adds that a drainer about to acknowledge holds a payload
  that is already settled or trimmed. The lemmas on `Take`, `AppendTrim`, `Lrem` and the elements of
  sequences say which payloads each store operation keeps.
- *Once.* `HolderInv` (a busy drainer holds the lock, by the absence of slow drains) makes drains
  exclusive; `LookedUp` (a drainer about to write found nothing) then cannot be made stale by
  another one.
- *In order.* `Orderly` says of every list that it is in the order of the pushes (`Rising`,
  `Falling`), that whatever is queued is younger than what was claimed or written, that what a
  drainer has ahead of it is younger than the inbox (`BetweenLists`), and that a claimed payload that
  can be written is in some drainer's hands (`InHand`), so a drain that starts finds only payloads
  that can never be written. LREM takes one occurrence, so `InHand` needs that a payload is listed
  once, which follows from the order and from `PushedOnce`. One failure ends `InHand`, which is why
  the property stops there.
- *Locks.* The pid of a process that lives is never judged stale, and what was judged stale belongs to
  nobody (`JudgedGone`), so before the first race the path is unlinked only by its holder or over a dead
  one's file, and it is taken exactly by the holder (`PathIsHolders`).
- *Doctor.* `CommitsReviewed` speaks of the worktree, which all Doctors share, so with several of them it
  rests on exclusion. `Owned` (a lock named by a Doctor is that of one past its creation) holds always,
  `Held` (a Doctor past the creation of its lock has it at the path) until somebody raced; it makes one
  Doctor inside exclusive, so whatever that one does the others owe nothing (`OthersAreSafe`).
  `Reviewed` says what is known at each place from the review to the commit: the verdict is one of the
  accepted ones, then the gates passed. `Chosen` (the strategy is not rejected) needs no lock, as it is
  about the Doctor's own memory, and the types need it: a strategy is recorded as rejected only where
  it is set. One Doctor at a time never races (`Undisturbed`: the lock that it judged stale stays until
  it unlinks it), so `AloneCommitsReviewed` has no condition.
- *The Doctor's claim.* `Course` says for each place where a run may be: with a verdict that stops it
  (`Condemned`) it is only where the claim is ended for good (`OnCourse`); the claim in memory is one
  of this failure, active until the end, and past the pull request it has one (`Owns`); and while
  nobody else writes and the launcher is not about to (`launch.pc` is not in `Writing`), `control.json`
  holds that very claim (`Holds`), because the launcher looks at the lock again before it writes. The
  last three theorems are parts of it.
- *Loop and claim.* `LoopIsWatched` (a loop lives only under a launcher that watches or terminates
  it) makes loop and Doctor exclusive, so a claim cannot end while a loop runs; `ReadIsOpen` is
  needed because the detector writes back a claim it read before; `FailuresLeft` (a loop that runs
  has a failure left) is needed already for the type of the counter.
- *Failures.* `Shown`: once the launcher has seen the loop exit it is on its way to the Doctor, or the
  last run did not fail and no loop is left to run another one.
- *Stop.* `StopInv`: the mode in `control.json` is the one the operator asked for last, without the
  detector's record, and only a loop that read it before may still be about to start a cycle, which
  has not been counted.
- *Delivery.* `Basic` is `Typed` with what a command may carry at each place (`Known`), the item its
  run belongs to (`Named`) and the commits a task branch ends in (`Headed`). `Clean` follows the lock
  and the worktree through a run: its diff is all there is, and a command without the lock takes it out only
  by committing it (`Gentle`). `Delivered` is the heart: each item's file is sound (`FilesSound`:
  a completed item's run is in the worktree or committed), a transition under way is
  (`MovesSound`), a run belongs to one item (`OneRun`), and each commit is of the run its item was
  completed by (`CommitsSound`). `InOrder` (branches are closed under dependencies) and `Published`
  (what each place of a publication knows of the origin) build on it.
- *Refinement.* `Stage` is a case distinction over metadata and two branches. The lemmas `StageIs...`
  say what it is from those facts alone, the lemmas `...Promised` that an action of `Delivery` is one
  step of `WorkItem` or none; a merge may integrate several items at once. It needs `Honest` (an item
  that names a run was completed by it) and `Unraced` (a shelving and a completion of one item never
  meet), which the condition on shelving gives, or `Turns`.
- *Watch.* `Turn` is `WatchTyped`, `Serial` (while a pass runs the other commands are idle and no lock
  is left by the dead; whoever holds the lock is inside a run; nobody else implements or shelves),
  `Chosen` (the item of a pass is the one its command will select) and `MergesLeft` (what a pass has
  still to merge is pending, but for what it is merging); with it every step of a pass is one of
  `Delivery`. `Tried` says what an attempt knows of the item and its incidents while it runs (`Course`,
  `Attempting`, `NeverLocked`, `Starting`), and `Charged` is the count: each implementation of an item
  was counted as a failure, ended with a crash, or is the last one.
- *Goals.* `Basic` gives each file its type. `Told`: tasks that a command carries or a file names have
  a packet, and a completed one a completed item. `Payloads`: the payload a command carries completes
  a goal only if the goal was delivered when it was read, and nothing takes a delivery back.
  `Undisturbed`: without status commands the tasks the watch judges are those on file, and a completed
  verdict about to be saved still holds.
- *Cycles.* `BranchInv`: cycles of every branch are in the persistent one (`Lag`), a worktree holds what
  persistent held and at most its own commit (`Snapshots`), and the cycle of the pass repeats nothing
  its worktree holds (`Working`), so landing adds no second execution or apply. `VetoInv`: what was
  announced is a proposal that landed (`Told`), a veto names what was announced (`Vetoed`), and the
  control plane names the root before there is a worktree, then the cycle's worktree, which holds
  every proposal shown until it is removed (`Remembered`).

Only model-checked are the liveness properties: `AcceptedSettles`, `StaleIsRemoved`, `DoctorEnds`,
`StopEndsLoop`, `EveryItemSettles`, `CommitsReachBase`, `PrototypeEnds`, `EveryItemLands` and
`ProposalSettles`. Liveness under fairness (it needs ENABLED), what a recursive definition computes
for every input (induction over data) and RECURSIVE operators are out of the prover's reach; the
modules here have no RECURSIVE operator.


## 6. Where code and documents disagree

The modules also define statements that documents, comments or tests make and that the code does not
keep; no run checks them. To see a trace, take the configuration named, put the property in, and
change the constants named.

| property | from | constants to change | what happens |
|---|---|---|---|
| `LedgerFifo` | `relay_core` | own keys (`MCOwnKeys`, `MCOwnKeyOf`) | after a crash the claimed payloads are handled newest first; the tests state first in, first out |
| `AcceptedAwaitsDrain` | `relay_core` | own keys | a full list drops its oldest accepted command silently |
| `LedgerOncePerUpdate` | `relay_core` | `SlowDrain = TRUE` | a drain outlives its 60 s lock and two drains record one update |
| `MutualExclusion` | `lock_files` | `MaxDead = 0` or as it is | two processes judge the lock of one that was killed, or just ended, stale, and the slower unlinks the lock the faster has created |
| `RefusedByTheLiving` | `lock_files` | | a process killed before it wrote its pid leaves a lock nobody removes |
| `OneDoctorAtATime` | `doctor_two` | | the same with two runs of `repair-latest`: both are past `acquire_lock` |
| `RenewalSpares` | `doctor_two` | | a Doctor takes the claim while the launcher is about to renew it, and the launcher's write replaces the claim of a Doctor at work |
| `UnmergedIsNotReleased` | `doctor_core` | | with auto-merge, a failed merge still ends the claim as `released` |
| `PassesBounded` | `doctor_core` | | after a failed push every run makes another pass at the same attempt |
| `BudgetPerIncident` | `doctor_core` | `MaxClaims = 2`, `Reviews = {"soft"}` | the launcher clears an escalated claim, so the same failure starts at attempt 1 |
| `NoForgottenCommit` | `doctor_core` | | after a failed push a later run may escalate softly and leave the commit unpushed |
| `HardStopHolds` | `doctor_core` | `Mode = "command"` | a P0 or hard P1 at the first attempt ends as `auto-escalate` |
| `HardClassStops` | `doctor_core` | `Budget = 1`, `Classes = {"hard-manual"}` | a manual-required failure ends as `auto-escalate` |
| `StopHonoured` | `sup_stop` | `Messages = {"resume"}`, `Outcomes = {"empty"}`, `MaxStarts = 1` | an old resume message overwrites a later stop |
| `StopHonoured` | `sup_stop` | `Outcomes = {"execute"}`, `MaxCommands = 1` | the detector writes back what it read before the stop |
| `StopNotWeakened` | `sup_stop` | `Outcomes = {"execute"}` | the detector's escalation turns a stop into a pause that an answer ends |
| `StopEnds` | `sup_stop` | `Outcomes = {"failed"}`, `MaxCommands = 1` | under a stop the launcher runs a blocked Doctor over an active claim for ever |
| `EveryItemSettles` | `watch_core` | three items, `Planned = {}`, `Modes = {"watch", "run-once"}`, `Humans = {}`, `MaxFaults = 1`, `MaxRuns = 4`, `MaxCrashes = 0` | `run` goes on to the next item after a refused push and commits it to the local base; when the first item's request is merged, the base has diverged and the sync fails at every pass |
| `EveryItemSettles` | `watch_core` | `Causes = {"external"}`, `MaxCrashes = 0`, `Modes = {"watch"}` | `START_HERE.md:108` and `OPERATOR_GUIDE.md:115` (in `docs/harness/`) say to remove the cause and run the watch again, but an incident at its threshold is never marked resolved, so every watch stops at it (`harness_watch.py:735`, `harness_watch.py:2723`) |
| `VerifiedGoalEnds` | `goal_core` | | a production goal whose tasks are completed gets one verification task after another as long as its gates stay open |

Others were met while modelling and have no property of their own:

- *Watch.* An operator who runs `retry` beside the watch, or shelves an item while it completes, breaks
  `CommitsReachBase` and `ImplementsWorkItem`. A request that a person closed holds every later pass.
- *Goals.* The watch and a status command both read, judge and write a goal's files, and the later
  write wins, so a status command may take back what a pass has recorded. With
  `max_executable_backlog = 1` only the first task of a roadmap is queued by itself, although
  `START_HERE.md:42` promises the rest. The watch takes another goal's completed item for a
  dependency that has the same key. A kill between the queueing of a packet and the write of the
  progress leaves a packet its task does not know; one inside `create_goal` leaves no active goal, as
  the old one is archived first; one inside the completion leaves a goal that nobody points to and
  that is not completed.
- *Proposals.* `docs/harness/VERSION.md:964` and the following lines say that a pending exact veto
  survives. It is archived as an orphan, and its proposal applied later, when the root lags behind the
  persistent branch and the cycle's worktree is gone (after a cycle that changed nothing, or a crash),
  when an apply of the proposal failed, or when the proposal of a cycle that failed takes its place.
  A veto that arrives after the selection is not looked at. As the root and the worktree are
  both refreshed in one pass, a window of one cycle passes within the pass that opens it
  (`docs/harness/POLICY.md:134`). With two cycles or more each pass replaces the waiting proposal by a
  newer one. A proposal whose cycle failed after landing is never announced, so a closeout waits for
  it. After a refused push nothing is pushed until the next commit.

`VetoKept` and `ProposalSettles` state what does hold of proposals under the assumptions in section 3.

## 7. Not modelled

- *Lanes*: what planner, manager, implementer, reviewer and verifier do inside a cycle or a run; only
  their outcome is.
- *Relay*: the bridge's direct polling of Telegram, and the watch's own drain of its inbox.
- *Launcher and watch*: the launcher's preflight, setup waits and the publication they block,
  `--no-auto-merge`, maintenance, status files.
- *Goals and tasks*: how intake drafts, reviews and regenerates packets, normalised dependencies, the
  rewriting of roadmaps, quarantine inside a refill (which no call reaches).
- *Proposals*: cooldown, waiting times, manual-only proposals, autosplit, realignment of equal trees,
  cycles that change nothing.
- *Doctor*: its pruning and environment-sharing commands.
- *Targets*: registration, archive, removal.
- Contracts, evidence, guard, gate routing and learning records are functions on text.
- Outside all models: a pid that the system reuses, clocks that disagree, files written in part.
