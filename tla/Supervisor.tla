----------------------------- MODULE Supervisor -----------------------------
(***************************************************************************)
(* The launcher (run_loop_watch), the autonomy loop it starts (run_loop),  *)
(* the Doctor it runs and the operator, who meet in control.json, the      *)
(* inbox and the latest report.  The Doctor is seen through its effect on  *)
(* the claim; module Doctor has its inside.  doctor_on_failure and         *)
(* continue_on_error are on, as by default.                                *)
(***************************************************************************)
EXTENDS Naturals, FiniteSets

CONSTANTS
  Messages,      \* what the owner may send through the relay
  Outcomes,      \* how a cycle may end
  DoctorResults, \* how a run of the Doctor may leave its claim
  OperatorWait,  \* the launcher's --operator-wait
  MaxFailures,   \* max_consecutive_failures; 0 is no limit
  MaxRestarts,   \* MAX_STATUS_WATCH_RESTARTS
  MaxCommands,   \* bound: commands of the operator and messages of the owner
  MaxStarts      \* bound: launchers started one after the other

ASSUME SupervisorAssumption ==
  /\ Messages \subseteq {"resume", "answer", "note"}
  /\ Outcomes \subseteq {"empty", "noexec", "wait", "execute", "other", "failed", "early"}
  /\ DoctorResults \subseteq {"active", "soft", "hard"}
  /\ OperatorWait \in BOOLEAN
  /\ MaxFailures \in Nat /\ MaxRestarts \in Nat
  /\ MaxCommands \in Nat /\ MaxStarts \in Nat

VARIABLES
  control,   \* control.json: mode, doctor_claim, same_goal_zero_product_stuck
  inbox,     \* the pending messages
  report,    \* LATEST.md: the last run failed, and no Doctor report is linked to it
  launcher,  \* where the launcher stands, and its local variables
  loop,      \* where the loop process stands, and its local variables
  repair,    \* what the running Doctor found in control.json
  order,     \* history: the mode the operator asked for last
  started,   \* history: cycles started since then, up to 2
  commands, starts

vars == <<control, inbox, report, launcher, loop, repair, order, started, commands, starts>>

Modes  == {"running", "pause_after_cycle", "stop"}
Claims == {"none", "active", "soft", "hard"}
Control == [mode : Modes, claim : Claims, stuck : BOOLEAN]

(* build_control_payload: a fresh payload, without a claim.                *)
Payload(mode) == [mode |-> mode, claim |-> "none", stuck |-> FALSE]
Halted == control.mode # "running"

NoLoop == [pc |-> "none", code |-> 0, idle |-> FALSE, failures |-> 0, outcome |-> "none",
           read |-> Payload("running"), had |-> {}]
AtTop  == [pc |-> "top", pending |-> FALSE, restarts |-> 0, result |-> "none"]

Init ==
  /\ control = Payload("running")
  /\ inbox = {}
  /\ report = "ok"
  /\ launcher = [AtTop EXCEPT !.pc = "ended"]
  /\ loop = NoLoop
  /\ repair = "none"
  /\ order = "running"
  /\ started = 0
  /\ commands = 0
  /\ starts = 0

Go(pc) == loop' = [loop EXCEPT !.pc = pc]
Exit(code) == loop' = [loop EXCEPT !.pc = "exited", !.code = code]
LoopOnly == UNCHANGED <<launcher, repair, order, commands, starts>>

-----------------------------------------------------------------------------
(* The inbox.                                                              *)

(* _consume_relay_resume_instruction: the message stays in the inbox.      *)
Resumed(c) == IF "resume" \in inbox THEN Payload("running") ELSE c

(* Mutant: the answer ends every pause, the operator's own one too.        *)
AnsweredAlways(c) == IF c.mode = "pause_after_cycle" THEN Payload("running") ELSE c

(* _clear_same_goal_pause_after_owner_answer.                              *)
Answered(c) ==
  IF c.mode = "pause_after_cycle" /\ c.stuck
  THEN [c EXCEPT !.mode = "running", !.stuck = FALSE] ELSE c

(* consume_owner_answer_instructions: each answer is archived; accepted:   *)
(* a proposal was created, or it is a duplicate.                           *)
ConsumeAnswers(c, accepted) ==
  /\ accepted => "answer" \in inbox
  /\ inbox' = inbox \ {"answer"}
  /\ control' = IF accepted THEN Answered(c) ELSE c

-----------------------------------------------------------------------------
(* The loop.                                                               *)

LoopRelay ==
  /\ loop.pc = "relay"
  /\ control' = Resumed(control)
  /\ Go("read")
  /\ LoopOnly /\ UNCHANGED <<inbox, report, started>>

(* Mutant: the loop looks at the claim only.                               *)
LoopReadIgnoresMode ==
  /\ loop.pc = "read"
  /\ IF control.claim = "active" THEN Go("relay")
     ELSE Go(IF loop.idle THEN "idle" ELSE "start")
  /\ LoopOnly /\ UNCHANGED <<control, inbox, report, started>>

(* An active claim makes the loop sleep, before it looks at the mode; then *)
(* the branch preflight may make it sleep, or give up with code 2.         *)
LoopRead ==
  /\ loop.pc = "read"
  /\ \/ control.claim = "active" /\ Go("relay")
     \/ control.claim # "active" /\ Halted /\ Exit(0)
     \/ /\ control.claim # "active" /\ ~Halted
        /\ \/ Go("relay")
           \/ Exit(2)
           \/ Go(IF loop.idle THEN "idle" ELSE "start")
  /\ LoopOnly /\ UNCHANGED <<control, inbox, report, started>>

(* A poll of wait_for_empty_backlog_idle_input.                            *)
LoopIdle ==
  /\ loop.pc = "idle"
  /\ control' = Resumed(control)
  /\ \/ loop' = [loop EXCEPT !.pc = "relay", !.idle = FALSE]   \* control, received, changed
     \/ /\ ~(control'.mode # "running" \/ inbox # {})
        /\ Go("relay")                                         \* timeout
  /\ LoopOnly /\ UNCHANGED <<inbox, report, started>>

(* run_cycle: cleanup and ensure_clean_root may fail; under its lock the   *)
(* cycle applies the resume instruction and the answers once more.         *)
LoopStart ==
  /\ loop.pc = "start"
  /\ \/ /\ "early" \in Outcomes
        /\ Go("failed")
        /\ UNCHANGED <<control, inbox, started>>
     \/ /\ \E accepted \in BOOLEAN : ConsumeAnswers(Resumed(control), accepted)
        /\ Go("cycle")
        /\ started' = IF order # "running" /\ started < 2 THEN started + 1 ELSE started
  /\ LoopOnly /\ UNCHANGED report

(* The cycle chooses its work.  Without a worktree to make it is over.     *)
LoopSelect ==
  /\ loop.pc = "cycle"
  /\ \E outcome \in Outcomes \ {"early"} :
       /\ loop' = [loop EXCEPT !.outcome = outcome,
                     !.pc = IF outcome \in {"empty", "noexec", "wait"} THEN "done" ELSE "work"]
       /\ report' = IF outcome \in {"empty", "noexec", "wait"} THEN "ok" ELSE report
  /\ LoopOnly /\ UNCHANGED <<control, inbox, started>>

(* The lanes.  A planner lane that ran archived the inbox it was given.    *)
LoopWork ==
  /\ loop.pc = "work"
  /\ inbox' \in {inbox, {}}
  /\ IF loop.outcome = "failed"
     THEN report' = "failed" /\ Go("failed")
     ELSE report' = "ok" /\ Go(IF loop.outcome = "execute" THEN "record" ELSE "done")
  /\ LoopOnly /\ UNCHANGED <<control, started>>

(* record_same_goal_zero_product_stuck_signal reads control.json, ...      *)
LoopRecordRead ==
  /\ loop.pc = "record"
  /\ loop' = [loop EXCEPT !.pc = "write", !.read = control]
  /\ LoopOnly /\ UNCHANGED <<control, inbox, report, started>>

(* ... writes an outbox summary when it escalates, and writes control.json *)
(* back: without a goal, with the goal's counter, or with the counter at   *)
(* its threshold and the mode pause_after_cycle.                           *)
LoopRecordWrite ==
  /\ loop.pc = "write"
  /\ \/ \E goal \in BOOLEAN : control' = [loop.read EXCEPT !.stuck = goal]
     \/ control' = [loop.read EXCEPT !.stuck = TRUE, !.mode = "pause_after_cycle"]
  /\ Go("done")
  /\ LoopOnly /\ UNCHANGED <<inbox, report, started>>

(* The cycle returned.  Only the last branch looks at control.json.        *)
LoopDone ==
  /\ loop.pc = "done"
  /\ \/ /\ loop.outcome = "noexec"
        /\ loop' = [loop EXCEPT !.failures = 0, !.outcome = "none", !.pc = "ask", !.had = inbox]
     \/ /\ loop.outcome = "empty"
        /\ loop' = [loop EXCEPT !.failures = 0, !.outcome = "none", !.pc = "relay", !.idle = TRUE]
     \/ /\ loop.outcome \notin {"noexec", "empty"}
        /\ loop' = [loop EXCEPT !.failures = 0, !.outcome = "none", !.code = 0,
                               !.pc = IF Halted THEN "exited" ELSE "relay"]
  /\ LoopOnly /\ UNCHANGED <<control, inbox, report, started>>

(* A poll of wait_for_no_executable_operator_input, and its timeout.       *)
LoopAsk ==
  /\ loop.pc = "ask"
  /\ \E accepted \in BOOLEAN : ConsumeAnswers(Resumed(control), accepted)
  /\ \/ /\ "answer" \in inbox \/ inbox' \ loop.had # {}
        /\ Go("relay")
     \/ /\ ~("answer" \in inbox \/ inbox' \ loop.had # {})
        /\ Exit(0)
  /\ LoopOnly /\ UNCHANGED <<report, started>>

(* Mutant: failures are counted, and never too many.                       *)
LoopFailedForever ==
  /\ loop.pc = "failed"
  /\ loop' = [loop EXCEPT !.outcome = "none", !.failures = @ + 1, !.pc = "retrying", !.code = 1]
  /\ LoopOnly /\ UNCHANGED <<control, inbox, report, started>>

(* The cycle raised.                                                       *)
LoopFailed ==
  LET n == loop.failures + 1 IN
  /\ loop.pc = "failed"
  /\ loop' = [loop EXCEPT !.outcome = "none",
                !.failures = IF MaxFailures = 0 THEN 0 ELSE n,
                !.pc = IF MaxFailures > 0 /\ n >= MaxFailures THEN "exited" ELSE "retrying",
                !.code = 1]
  /\ LoopOnly /\ UNCHANGED <<control, inbox, report, started>>

LoopRetry ==
  /\ loop.pc = "retrying"
  /\ Go("relay")
  /\ LoopOnly /\ UNCHANGED <<control, inbox, report, started>>

LoopStep ==
  \/ LoopRelay \/ LoopRead \/ LoopIdle \/ LoopStart \/ LoopSelect \/ LoopWork
  \/ LoopRecordRead \/ LoopRecordWrite \/ LoopDone \/ LoopAsk \/ LoopFailed \/ LoopRetry

-----------------------------------------------------------------------------
(* The launcher.                                                           *)

LoopLives == loop.pc \notin {"none", "exited"}
At(pc) == launcher' = [launcher EXCEPT !.pc = pc]
LauncherOnly == UNCHANGED <<order, started, commands, starts>>

(* Mutant: only an active claim keeps the loop from being started.         *)
LauncherTopIgnoresTerminal ==
  /\ launcher.pc = "top"
  /\ \/ control.claim = "active" /\ At("doctor") /\ UNCHANGED <<control, loop>>
     \/ /\ control.claim # "active"
        /\ loop' = [NoLoop EXCEPT !.pc = "relay"]
        /\ launcher' = [AtTop EXCEPT !.pc = "watch"]
        /\ UNCHANGED control
  /\ LauncherOnly /\ UNCHANGED <<inbox, report, repair>>

(* The top of the launcher's loop: the claim it finds is repaired, cleared *)
(* or final; without a claim it starts the loop.                           *)
LauncherTop ==
  /\ launcher.pc = "top"
  /\ \/ control.claim = "active" /\ At("doctor") /\ UNCHANGED <<control, loop>>
     \/ /\ control.claim = "soft"
        /\ control' = [control EXCEPT !.claim = "none"]
        /\ UNCHANGED <<launcher, loop>>
     \/ control.claim = "hard" /\ At("ended") /\ UNCHANGED <<control, loop>>
     \/ /\ control.claim = "none"
        /\ loop' = [NoLoop EXCEPT !.pc = "relay"]
        /\ launcher' = [AtTop EXCEPT !.pc = "watch"]
        /\ UNCHANGED control
  /\ LauncherOnly /\ UNCHANGED <<inbox, report, repair>>

(* A poll of the launcher while the loop runs.                             *)
LauncherClaimSeen ==
  /\ launcher.pc = "watch"
  /\ control.claim = "active"
  /\ launcher' = [launcher EXCEPT !.pending = TRUE, !.pc = "terminate"]
  /\ LauncherOnly /\ UNCHANGED <<control, inbox, report, loop, repair>>

(* The status watch ended before the loop.                                 *)
LauncherStatusGone ==
  /\ launcher.pc = "watch" /\ control.claim # "active" /\ LoopLives
  /\ IF launcher.restarts < MaxRestarts
     THEN launcher' = [launcher EXCEPT !.restarts = @ + 1] /\ UNCHANGED control
     ELSE IF ~launcher.pending /\ report = "failed"
     THEN /\ control' = [control EXCEPT !.claim = "active"]
          /\ launcher' = [launcher EXCEPT !.pending = TRUE]
     ELSE At("terminate") /\ UNCHANGED control
  /\ LauncherOnly /\ UNCHANGED <<inbox, report, loop, repair>>

Result == IF loop.code = 0 THEN "zero" ELSE "error"

(* Mutant: a failed run is left to the next start of the launcher.         *)
LauncherLoopGoneForgets ==
  /\ launcher.pc = "watch" /\ control.claim # "active" /\ loop.pc = "exited"
  /\ launcher' = [launcher EXCEPT !.pc = "terminate", !.result = Result]
  /\ LauncherOnly /\ UNCHANGED <<control, inbox, report, loop, repair>>

LauncherLoopGone ==
  /\ launcher.pc = "watch" /\ control.claim # "active" /\ loop.pc = "exited"
  /\ IF ~launcher.pending /\ report = "failed"
     THEN /\ control' = [control EXCEPT !.claim = "active"]
          /\ launcher' = [launcher EXCEPT !.pending = TRUE]
     ELSE launcher' = [launcher EXCEPT !.pc = "terminate", !.result = Result] /\ UNCHANGED control
  /\ LauncherOnly /\ UNCHANGED <<inbox, report, loop, repair>>

(* A retry is due, or a lane gave no sign of life for a long time.         *)
LauncherStalled ==
  /\ launcher.pc = "watch" /\ control.claim # "active"
  /\ loop.pc \in {"retrying", "work"}
  /\ control' = [control EXCEPT !.claim = "active"]
  /\ launcher' = [launcher EXCEPT !.pending = TRUE]
  /\ LauncherOnly /\ UNCHANGED <<inbox, report, loop, repair>>

(* Mutant: the loop goes on while the Doctor works.                        *)
LauncherTerminateNot ==
  /\ launcher.pc = "terminate"
  /\ At(IF launcher.pending THEN "doctor" ELSE "ended")
  /\ LauncherOnly /\ UNCHANGED <<control, inbox, report, loop, repair>>

(* The processes are interrupted, and killed if that does not help; then   *)
(* the Doctor, the wait for the operator, or the end.  should_enter_       *)
(* operator_wait: other reasons for a pause than stuck may qualify too.    *)
LauncherTerminate ==
  LET wait == OperatorWait /\ launcher.result = "zero" /\ control.mode = "pause_after_cycle" IN
  /\ launcher.pc = "terminate"
  /\ \/ launcher.pending /\ At("doctor")
     \/ ~launcher.pending /\ wait /\ At("wait")
     \/ ~launcher.pending /\ ~(wait /\ control.stuck) /\ At("ended")
  /\ loop' = NoLoop
  /\ LauncherOnly /\ UNCHANGED <<control, inbox, report, repair>>

(* A poll of wait_for_operator_answer, and its timeout.                    *)
LauncherWait ==
  /\ launcher.pc = "wait"
  /\ \/ \E accepted \in BOOLEAN :
          /\ ConsumeAnswers(control, accepted)
          /\ IF accepted THEN At("top") ELSE UNCHANGED launcher
     \/ At("ended") /\ UNCHANGED <<control, inbox>>
  /\ LauncherOnly /\ UNCHANGED <<report, loop, repair>>

(* The Doctor reads control.json: stop and pause block it, and without an  *)
(* active claim it has none to write.                                      *)
DoctorRead ==
  /\ launcher.pc = "doctor"
  /\ repair' = IF Halted THEN "blocked" ELSE IF control.claim = "active" THEN "mine" ELSE "no claim"
  /\ At("repair")
  /\ LauncherOnly /\ UNCHANGED <<control, inbox, report, loop>>

(* It writes its claim while it works, whatever control.json holds by then *)
(* (_update_doctor_claim), ...                                             *)
DoctorWrite ==
  /\ launcher.pc = "repair"
  /\ repair = "mine"
  /\ control.claim # "active"
  /\ control' = [control EXCEPT !.claim = "active"]
  /\ LauncherOnly /\ UNCHANGED <<inbox, report, launcher, loop, repair>>

(* ... and at its end, and links its report to the latest one; a link that *)
(* does not come with a claim may get lost.                                *)
DoctorEnd ==
  /\ launcher.pc = "repair"
  /\ IF repair = "mine"
     THEN /\ \E claim \in DoctorResults : control' = [control EXCEPT !.claim = claim]
          /\ report' = "ok"
     ELSE report' \in {"ok", report} /\ UNCHANGED control
  /\ repair' = "none"
  /\ At("after")
  /\ LauncherOnly /\ UNCHANGED <<inbox, loop>>

DoctorDies ==
  /\ launcher.pc = "repair"
  /\ "active" \in DoctorResults
  /\ repair' = "none"
  /\ At("after")
  /\ LauncherOnly /\ UNCHANGED <<control, inbox, report, loop>>

LauncherAfter ==
  /\ launcher.pc = "after"
  /\ launcher' = [AtTop EXCEPT !.pc = IF control.claim \in {"active", "soft"} THEN "top" ELSE "ended"]
  /\ LauncherOnly /\ UNCHANGED <<control, inbox, report, loop, repair>>

LauncherStep ==
  \/ LauncherTop \/ LauncherClaimSeen \/ LauncherLoopGone \/ LauncherTerminate
  \/ LauncherWait \/ DoctorRead \/ DoctorEnd \/ LauncherAfter

-----------------------------------------------------------------------------
(* The operator and the owner.                                             *)

LauncherStart ==
  /\ launcher.pc = "ended" /\ starts < MaxStarts
  /\ starts' = starts + 1
  /\ launcher' = AtTop
  /\ UNCHANGED <<control, inbox, report, loop, repair, order, started, commands>>

(* The operator interrupts the launcher, and with it what it started.      *)
LauncherInterrupt ==
  /\ launcher.pc # "ended"
  /\ launcher' = [launcher EXCEPT !.pc = "ended", !.result = "none"]
  /\ loop' = NoLoop /\ repair' = "none"
  /\ LauncherOnly /\ UNCHANGED <<control, inbox, report>>

(* pause, stop and resume.                                                 *)
Operate(mode) ==
  /\ commands < MaxCommands
  /\ commands' = commands + 1
  /\ control' = Payload(mode)
  /\ order' = mode /\ started' = 0
  /\ UNCHANGED <<inbox, report, launcher, loop, repair, starts>>

Send(message) ==
  /\ commands < MaxCommands
  /\ commands' = commands + 1
  /\ inbox' = inbox \cup {message}
  /\ order' = IF message = "resume" THEN "running" ELSE order
  /\ started' = IF message = "resume" THEN 0 ELSE started
  /\ UNCHANGED <<control, report, launcher, loop, repair, starts>>

-----------------------------------------------------------------------------
Next ==
  \/ LoopStep
  \/ LauncherStep \/ LauncherStatusGone \/ LauncherStalled \/ DoctorWrite \/ DoctorDies
  \/ LauncherStart \/ LauncherInterrupt
  \/ \E mode \in Modes : Operate(mode)
  \/ \E message \in Messages : Send(message)

Spec == Init /\ [][Next]_vars

(* Both are sequential programs whose waits and subprocesses have time     *)
(* limits; a failing status watch, a stall and an interrupt need not come. *)
FairSpec == Spec /\ WF_vars(LoopStep) /\ WF_vars(LauncherStep)

-----------------------------------------------------------------------------
LoopPlaces == {"none", "relay", "read", "idle", "start", "cycle", "work", "record", "write",
               "done", "ask", "failed", "retrying", "exited"}
LauncherPlaces == {"top", "watch", "terminate", "wait", "doctor", "repair", "after", "ended"}

(* The type invariant.                                                     *)
TypeOK ==
  /\ control \in Control
  /\ inbox \subseteq Messages
  /\ report \in {"ok", "failed"}
  /\ launcher \in [pc : LauncherPlaces, pending : BOOLEAN, restarts : 0 .. MaxRestarts,
                   result : {"none", "zero", "error"}]
  /\ loop \in [pc : LoopPlaces, code : 0 .. 2, idle : BOOLEAN, failures : 0 .. MaxFailures,
               outcome : Outcomes \cup {"none"}, read : Control, had : SUBSET Messages]
  /\ repair \in {"none", "blocked", "mine", "no claim"}
  /\ order \in Modes
  /\ started \in 0 .. 2
  /\ commands \in 0 .. MaxCommands
  /\ starts \in 0 .. MaxStarts

(* The loop never works while the launcher's Doctor repairs                *)
(* (run_loop_watch terminates the loop before it runs the Doctor).         *)
LoopOrDoctor == launcher.pc \in {"doctor", "repair", "after"} => loop.pc = "none"

(* A loop never runs over a claim that ended: a restartable one is cleared *)
(* before the loop is started, a final one keeps the loop from starting,   *)
(* in this launcher and in the next (AUTONOMY.md on released claims).      *)
NoLoopOverEndedClaim == control.claim \in {"soft", "hard"} => loop.pc = "none"

(* The launcher does not end, or wait for the owner, on the exit of a loop *)
(* whose last run failed and was not shown to the Doctor.                  *)
FailureIsRepaired ==
  launcher.pc \in {"ended", "wait"} /\ launcher.result # "none" => report # "failed"

(* After the operator's pause or stop at most one cycle starts, the one    *)
(* whose control.json was read before, until the operator resumes.         *)
StopHonoured == started <= 1

(* Pause and stop end the loop for good, unless the operator takes the     *)
(* order back: no wait, retry, claim or answer keeps it going.             *)
StopEndsLoop == order # "running" ~> order = "running" \/ [](loop.pc = "none")

-----------------------------------------------------------------------------
(* What the documents say and the code does not do.                        *)

(* AUTONOMY.md: stop leaves an immediate graceful stop, and pause stops    *)
(* after the present cycle: the launcher ends, or waits for the owner.     *)
StopEnds ==
  order # "running" ~> order = "running" \/ launcher.pc \in {"ended", "wait"}

(* The detector keeps a stop that it read (AUTONOMY.md: stop starts no     *)
(* new cycle).                                                             *)
StopNotWeakened ==
  [][loop.pc = "write" /\ loop'.pc = "done" /\ loop.read.mode = "stop" => control'.mode = "stop"]_vars
=============================================================================
