-------------------------- MODULE SupervisorProofs --------------------------
(***************************************************************************)
(* Proofs about the launcher and its loop, for every limit, every set of   *)
(* messages and outcomes, and any number of commands and launchers.        *)
(***************************************************************************)
EXTENDS Supervisor, TLAPS

-----------------------------------------------------------------------------
(* Records that keep their type when some of their fields change.          *)

Loops == [pc : LoopPlaces, code : 0 .. 2, idle : BOOLEAN, failures : 0 .. MaxFailures,
          outcome : Outcomes \cup {"none"}, read : Control, had : SUBSET Messages]
Launchers == [pc : LauncherPlaces, pending : BOOLEAN, restarts : 0 .. MaxRestarts,
              result : {"none", "zero", "error"}]

LEMMA LoopMoves ==
  ASSUME NEW l \in Loops, NEW pc \in LoopPlaces, NEW code \in 0 .. 2
  PROVE  /\ [l EXCEPT !.pc = pc] \in Loops
         /\ [l EXCEPT !.pc = pc, !.code = code] \in Loops
BY DEF Loops

LEMMA LoopSelects ==
  ASSUME NEW l \in Loops, NEW pc \in LoopPlaces, NEW o \in Outcomes \cup {"none"}
  PROVE  [l EXCEPT !.outcome = o, !.pc = pc] \in Loops
BY DEF Loops

LEMMA LoopSettles ==
  ASSUME NEW l \in Loops, NEW pc \in LoopPlaces, NEW code \in 0 .. 2, NEW had \in SUBSET Messages
  PROVE  /\ [l EXCEPT !.failures = 0, !.outcome = "none", !.pc = pc, !.had = had] \in Loops
         /\ [l EXCEPT !.failures = 0, !.outcome = "none", !.pc = pc, !.idle = TRUE] \in Loops
         /\ [l EXCEPT !.failures = 0, !.outcome = "none", !.code = code, !.pc = pc] \in Loops
<1>1. 0 \in 0 .. MaxFailures
  BY SupervisorAssumption DEF SupervisorAssumption
<1> QED
  BY <1>1 DEF Loops

LEMMA LoopFails ==
  ASSUME NEW l \in Loops, NEW pc \in LoopPlaces, NEW code \in 0 .. 2, NEW n \in 0 .. MaxFailures
  PROVE  [l EXCEPT !.outcome = "none", !.failures = n, !.pc = pc, !.code = code] \in Loops
BY DEF Loops

LEMMA NoLoopType == NoLoop \in Loops
<1>1. 0 \in 0 .. MaxFailures /\ 0 \in 0 .. 2
  BY SupervisorAssumption DEF SupervisorAssumption
<1>2. Payload("running") \in Control
  BY DEF Payload, Control, Modes, Claims
<1>3. "none" \in LoopPlaces
  BY DEF LoopPlaces
<1> QED
  BY <1>1, <1>2, <1>3 DEF NoLoop, Loops

LEMMA AtTopType ==
  ASSUME NEW pc \in LauncherPlaces
  PROVE  AtTop \in Launchers /\ [AtTop EXCEPT !.pc = pc] \in Launchers
<1>1. 0 \in 0 .. MaxRestarts
  BY SupervisorAssumption DEF SupervisorAssumption
<1>2. "top" \in LauncherPlaces
  BY DEF LauncherPlaces
<1>3. AtTop \in Launchers
  BY <1>1, <1>2 DEF AtTop, Launchers
<1> QED
  BY <1>3 DEF Launchers

LEMMA LauncherMoves ==
  ASSUME NEW l \in Launchers, NEW pc \in LauncherPlaces, NEW r \in {"none", "zero", "error"}
  PROVE  /\ [l EXCEPT !.pc = pc] \in Launchers
         /\ [l EXCEPT !.pending = TRUE] \in Launchers
         /\ [l EXCEPT !.pending = TRUE, !.pc = pc] \in Launchers
         /\ [l EXCEPT !.pc = pc, !.result = r] \in Launchers
BY DEF Launchers

LEMMA ControlType ==
  ASSUME NEW c \in Control, NEW mode \in Modes, NEW claim \in Claims, NEW stuck \in BOOLEAN
  PROVE  /\ Payload(mode) \in Control
         /\ Resumed(c) \in Control /\ Answered(c) \in Control
         /\ [c EXCEPT !.claim = claim] \in Control
         /\ [c EXCEPT !.stuck = stuck] \in Control
         /\ [c EXCEPT !.stuck = TRUE, !.mode = mode] \in Control
<1>1. Payload(mode) \in Control /\ Payload("running") \in Control
  BY DEF Payload, Control, Modes, Claims
<1>2. Answered(c) \in Control
  BY Zenon DEF Answered, Control, Modes
<1> QED
  BY <1>1, <1>2 DEF Resumed, Control

(* Consuming answers keeps the types of control.json and the inbox.        *)
LEMMA AnswersType ==
  ASSUME NEW c \in Control, NEW accepted \in BOOLEAN, inbox \subseteq Messages,
         ConsumeAnswers(c, accepted)
  PROVE  control' \in Control /\ inbox' \subseteq Messages
<1>1. Answered(c) \in Control
  BY Zenon, ControlType DEF Modes, Claims
<1> QED
  BY <1>1 DEF ConsumeAnswers

-----------------------------------------------------------------------------
(* Every action keeps the types.                                           *)

Typed ==
  /\ control \in Control /\ inbox \subseteq Messages /\ report \in {"ok", "failed"}
  /\ launcher \in Launchers /\ loop \in Loops
  /\ repair \in {"none", "blocked", "mine", "no claim"}

Counted ==
  order \in Modes /\ started \in 0 .. 2 /\ commands \in 0 .. MaxCommands /\ starts \in 0 .. MaxStarts

(* While the loop runs it has a failure left: without this the counter     *)
(* could outgrow its type.                                                 *)
FailuresLeft == loop.pc # "exited" /\ MaxFailures > 0 => loop.failures < MaxFailures

LEMMA TypedCounted == TypeOK <=> Typed /\ Counted
BY DEF TypeOK, Typed, Counted, Loops, Launchers

(* The ways the loop moves.                                                *)
LEMMA Goes ==
  ASSUME loop \in Loops, NEW pc \in LoopPlaces, Go(pc)
  PROVE  loop' \in Loops
<1>1. 0 \in 0 .. 2
  OBVIOUS
<1> QED
  BY Zenon, <1>1, LoopMoves DEF Go

LEMMA Exits ==
  ASSUME loop \in Loops, NEW code \in 0 .. 2, Exit(code)
  PROVE  loop' \in Loops
BY Zenon, LoopMoves DEF Exit, LoopPlaces

LEMMA Names ==
  /\ LoopPlaces = {"none", "relay", "read", "idle", "start", "cycle", "work", "record", "write",
                    "done", "ask", "failed", "retrying", "exited"}
  /\ LauncherPlaces = {"top", "watch", "terminate", "wait", "doctor", "repair", "after", "ended"}
  /\ Modes = {"running", "pause_after_cycle", "stop"}
  /\ Claims = {"none", "active", "soft", "hard"}
BY DEF LoopPlaces, LauncherPlaces, Modes, Claims

LEMMA LoopRelayType ==
  ASSUME Typed, Counted, LoopRelay
  PROVE  Typed' /\ Counted'
<1>1. control' \in Control
  BY Zenon, ControlType, AnswersType, Names DEF Typed, LoopRelay, Go
<1>2. loop' \in Loops
  <2>1. loop \in Loops
    BY Zenon DEF Typed
  <2> QED
    BY <2>1, Goes DEF LoopRelay, LoopPlaces
<1> QED
  BY Zenon, <1>1, <1>2 DEF Typed, Counted, LoopRelay, LoopOnly

LEMMA LoopReadType ==
  ASSUME Typed, Counted, LoopRead
  PROVE  Typed' /\ Counted'
<1>1. loop' \in Loops
  <2>1. loop \in Loops
    BY Zenon DEF Typed
  <2>2. CASE Go("relay")
    BY <2>1, <2>2, Goes DEF LoopPlaces
  <2>3. CASE Go("idle") \/ Go("start")
    BY <2>1, <2>3, Goes DEF LoopPlaces
  <2>4. CASE Exit(0) \/ Exit(2)
    BY <2>1, <2>4, Exits
  <2> QED
    BY <2>2, <2>3, <2>4 DEF LoopRead
<1> QED
  BY Zenon, <1>1 DEF Typed, Counted, LoopRead, LoopOnly

LEMMA LoopIdleType ==
  ASSUME Typed, Counted, LoopIdle
  PROVE  Typed' /\ Counted'
<1>1. control' \in Control
  BY Zenon, ControlType, AnswersType, Names DEF Typed, LoopIdle, Go
<1>2. loop' \in Loops
  <2>1. loop \in Loops
    BY Zenon DEF Typed
  <2>2. CASE Go("relay")
    BY <2>1, <2>2, Goes DEF LoopPlaces
  <2>3. CASE loop' = [loop EXCEPT !.pc = "relay", !.idle = FALSE]
    BY Zenon, <2>1, <2>3 DEF Loops, LoopPlaces
  <2> QED
    BY <2>2, <2>3 DEF LoopIdle
<1> QED
  BY Zenon, <1>1, <1>2 DEF Typed, Counted, LoopIdle, LoopOnly

LEMMA LoopStartType ==
  ASSUME Typed, Counted, LoopStart
  PROVE  Typed' /\ Counted'
<1>1. control' \in Control
  BY Zenon, ControlType, AnswersType, Names DEF Typed, LoopStart, Go
<1>2. inbox' \subseteq Messages
  BY Zenon, ControlType, AnswersType, Names DEF Typed, LoopStart, Go
<1>3. loop' \in Loops
  <2>1. loop \in Loops
    BY Zenon DEF Typed
  <2>2. CASE Go("failed")
    BY <2>1, <2>2, Goes DEF LoopPlaces
  <2>3. CASE Go("cycle")
    BY <2>1, <2>3, Goes DEF LoopPlaces
  <2> QED
    BY <2>2, <2>3 DEF LoopStart
<1>4. started' \in 0 .. 2
  BY DEF Counted, LoopStart
<1> QED
  BY Zenon, <1>1, <1>2, <1>3, <1>4 DEF Typed, Counted, LoopStart, LoopOnly

LEMMA LoopSelectType ==
  ASSUME Typed, Counted, LoopSelect
  PROVE  Typed' /\ Counted'
<1>1. loop' \in Loops
  <2>1. loop \in Loops
    BY Zenon DEF Typed
  <2>2. PICK outcome \in Outcomes, pc \in LoopPlaces :
          loop' = [loop EXCEPT !.outcome = outcome, !.pc = pc]
    BY Zenon DEF LoopSelect, LoopPlaces
  <2> QED
    BY Zenon, <2>1, <2>2, LoopSelects
<1>2. report' \in {"ok", "failed"}
  BY Zenon DEF Typed, LoopSelect
<1> QED
  BY Zenon, <1>1, <1>2 DEF Typed, Counted, LoopSelect, LoopOnly

LEMMA LoopWorkType ==
  ASSUME Typed, Counted, LoopWork
  PROVE  Typed' /\ Counted'
<1>1. inbox' \subseteq Messages
  BY Zenon, ControlType, AnswersType, Names DEF Typed, LoopWork, Go
<1>2. report' \in {"ok", "failed"}
  BY Zenon DEF Typed, LoopWork, Go
<1>3. loop' \in Loops
  <2>1. loop \in Loops
    BY Zenon DEF Typed
  <2>2. CASE Go("failed")
    BY <2>1, <2>2, Goes DEF LoopPlaces
  <2>3. CASE Go("record") \/ Go("done")
    BY <2>1, <2>3, Goes DEF LoopPlaces
  <2> QED
    BY <2>2, <2>3 DEF LoopWork
<1> QED
  BY Zenon, <1>1, <1>2, <1>3 DEF Typed, Counted, LoopWork, LoopOnly

LEMMA LoopRecordReadType ==
  ASSUME Typed, Counted, LoopRecordRead
  PROVE  Typed' /\ Counted'
<1>1. loop' \in Loops
  BY Zenon DEF Typed, LoopRecordRead, Loops, LoopPlaces
<1> QED
  BY Zenon, <1>1 DEF Typed, Counted, LoopRecordRead, LoopOnly

LEMMA LoopRecordWriteType ==
  ASSUME Typed, Counted, LoopRecordWrite
  PROVE  Typed' /\ Counted'
<1>1. control' \in Control
  <2>1. loop.read \in Control
    BY Zenon DEF Typed, Loops
  <2>2. CASE \E goal \in BOOLEAN : control' = [loop.read EXCEPT !.stuck = goal]
    BY <2>1, <2>2 DEF Control
  <2>3. CASE control' = [loop.read EXCEPT !.stuck = TRUE, !.mode = "pause_after_cycle"]
    BY Zenon, <2>1, <2>3 DEF Control, Modes
  <2> QED
    BY <2>2, <2>3 DEF LoopRecordWrite
<1>2. loop' \in Loops
  <2>1. loop \in Loops
    BY Zenon DEF Typed
  <2> QED
    BY <2>1, Goes DEF LoopRecordWrite, LoopPlaces
<1> QED
  BY Zenon, <1>1, <1>2 DEF Typed, Counted, LoopRecordWrite, LoopOnly

LEMMA LoopDoneType ==
  ASSUME Typed, Counted, LoopDone
  PROVE  Typed' /\ Counted'
<1>1. loop' \in Loops
  <2>1. loop \in Loops /\ inbox \in SUBSET Messages
    BY Zenon DEF Typed
  <2>2. 0 \in 0 .. 2 /\ "ask" \in LoopPlaces /\ "relay" \in LoopPlaces /\ "exited" \in LoopPlaces
    BY DEF LoopPlaces
  <2>3. CASE loop' = [loop EXCEPT !.failures = 0, !.outcome = "none", !.pc = "ask", !.had = inbox]
    BY Zenon, <2>1, <2>2, <2>3, LoopSettles
  <2>4. CASE loop' = [loop EXCEPT !.failures = 0, !.outcome = "none", !.pc = "relay", !.idle = TRUE]
    BY Zenon, <2>1, <2>2, <2>4, LoopSettles
  <2>5. CASE loop' = [loop EXCEPT !.failures = 0, !.outcome = "none", !.code = 0,
                                 !.pc = IF Halted THEN "exited" ELSE "relay"]
    <3>1. (IF Halted THEN "exited" ELSE "relay") \in LoopPlaces
      BY <2>2
    <3> QED
      BY Zenon, <2>1, <2>2, <2>5, <3>1, LoopSettles
  <2> QED
    BY <2>3, <2>4, <2>5 DEF LoopDone
<1> QED
  BY Zenon, <1>1 DEF Typed, Counted, LoopDone, LoopOnly

LEMMA LoopAskType ==
  ASSUME Typed, Counted, LoopAsk
  PROVE  Typed' /\ Counted'
<1>1. control' \in Control
  BY Zenon, ControlType, AnswersType, Names DEF Typed, LoopAsk, Go, Exit
<1>2. inbox' \subseteq Messages
  BY Zenon, ControlType, AnswersType, Names DEF Typed, LoopAsk, Go, Exit
<1>3. loop' \in Loops
  <2>1. loop \in Loops
    BY Zenon DEF Typed
  <2>2. CASE Go("relay")
    BY <2>1, <2>2, Goes DEF LoopPlaces
  <2>3. CASE Exit(0)
    BY <2>1, <2>3, Exits
  <2> QED
    BY <2>2, <2>3 DEF LoopAsk
<1> QED
  BY Zenon, <1>1, <1>2, <1>3 DEF Typed, Counted, LoopAsk, LoopOnly

LEMMA LoopFailedType ==
  ASSUME Typed, Counted, FailuresLeft, LoopFailed
  PROVE  Typed' /\ Counted'
<1>1. loop' \in Loops
  <2>1. loop \in Loops
    BY Zenon DEF Typed
  <2>5. loop.failures \in 0 .. MaxFailures
    BY <2>1 DEF Loops
  <2> DEFINE n == IF MaxFailures = 0 THEN 0 ELSE loop.failures + 1
             pc == IF MaxFailures > 0 /\ loop.failures + 1 >= MaxFailures THEN "exited" ELSE "retrying"
  <2>2. pc \in LoopPlaces /\ 1 \in 0 .. 2
    BY DEF LoopPlaces
  <2>3. loop' = [loop EXCEPT !.outcome = "none", !.failures = n, !.pc = pc, !.code = 1]
    BY DEF LoopFailed
  <2>4. n \in 0 .. MaxFailures
    BY <2>5, SupervisorAssumption DEF SupervisorAssumption, FailuresLeft, LoopFailed
  <2> HIDE DEF n, pc
  <2> QED
    BY Zenon, <2>1, <2>2, <2>3, <2>4, LoopFails
<1> QED
  BY Zenon, <1>1 DEF Typed, Counted, LoopFailed, LoopOnly

LEMMA LoopRetryType ==
  ASSUME Typed, Counted, LoopRetry
  PROVE  Typed' /\ Counted'
<1>1. loop' \in Loops
  <2>1. loop \in Loops
    BY Zenon DEF Typed
  <2> QED
    BY <2>1, Goes DEF LoopRetry, LoopPlaces
<1> QED
  BY Zenon, <1>1 DEF Typed, Counted, LoopRetry, LoopOnly

LEMMA LauncherTopType ==
  ASSUME Typed, Counted, LauncherTop
  PROVE  Typed' /\ Counted'
<1>1. control' \in Control
  BY Zenon, ControlType, AnswersType, Names DEF Typed, LauncherTop, At
<1>2. launcher' \in Launchers
  BY Zenon, LauncherMoves, AtTopType, Names DEF Typed, LauncherTop, At
<1>3. loop' \in Loops
  <2>1. NoLoop \in Loops /\ loop \in Loops
    BY Zenon, NoLoopType DEF Typed
  <2>2. [NoLoop EXCEPT !.pc = "relay"] \in Loops
    BY <2>1 DEF Loops, LoopPlaces
  <2> QED
    BY <2>1, <2>2 DEF LauncherTop
<1> QED
  BY Zenon, <1>1, <1>2, <1>3 DEF Typed, Counted, LauncherTop, LauncherOnly

LEMMA LauncherClaimSeenType ==
  ASSUME Typed, Counted, LauncherClaimSeen
  PROVE  Typed' /\ Counted'
<1>1. launcher' \in Launchers
  BY Zenon, LauncherMoves, AtTopType, Names DEF Typed, LauncherClaimSeen
<1> QED
  BY Zenon, <1>1 DEF Typed, Counted, LauncherClaimSeen, LauncherOnly

LEMMA LauncherStatusGoneType ==
  ASSUME Typed, Counted, LauncherStatusGone
  PROVE  Typed' /\ Counted'
<1>1. control' \in Control
  BY Zenon, ControlType, AnswersType, Names DEF Typed, LauncherStatusGone, At, LoopLives
<1>2. launcher' \in Launchers
  <2>1. launcher \in Launchers
    BY Zenon DEF Typed
  <2>2. CASE launcher.restarts < MaxRestarts /\ launcher' = [launcher EXCEPT !.restarts = @ + 1]
    <3>1. launcher.restarts + 1 \in 0 .. MaxRestarts
      BY <2>1, <2>2, SupervisorAssumption DEF SupervisorAssumption, Launchers
    <3> QED
      BY <2>1, <2>2, <3>1 DEF Launchers
  <2>3. CASE launcher' = [launcher EXCEPT !.pending = TRUE]
    BY Zenon, <2>1, <2>3 DEF Launchers
  <2>4. CASE At("terminate")
    BY <2>1, <2>4 DEF Launchers, LauncherPlaces, At
  <2> QED
    BY <2>2, <2>3, <2>4 DEF LauncherStatusGone
<1> QED
  BY Zenon, <1>1, <1>2 DEF Typed, Counted, LauncherStatusGone, LauncherOnly

LEMMA LauncherLoopGoneType ==
  ASSUME Typed, Counted, LauncherLoopGone
  PROVE  Typed' /\ Counted'
<1>1. control' \in Control
  BY Zenon, ControlType, AnswersType, Names DEF Typed, LauncherLoopGone, At, Result
<1>2. launcher' \in Launchers
  BY Zenon, LauncherMoves, AtTopType, Names DEF Typed, LauncherLoopGone, At, Result
<1> QED
  BY Zenon, <1>1, <1>2 DEF Typed, Counted, LauncherLoopGone, LauncherOnly

LEMMA LauncherStalledType ==
  ASSUME Typed, Counted, LauncherStalled
  PROVE  Typed' /\ Counted'
<1>1. control' \in Control
  BY Zenon, ControlType, AnswersType, Names DEF Typed, LauncherStalled
<1>2. launcher' \in Launchers
  BY Zenon, LauncherMoves, AtTopType, Names DEF Typed, LauncherStalled
<1> QED
  BY Zenon, <1>1, <1>2 DEF Typed, Counted, LauncherStalled, LauncherOnly

LEMMA LauncherTerminateType ==
  ASSUME Typed, Counted, LauncherTerminate
  PROVE  Typed' /\ Counted'
<1>1. launcher' \in Launchers
  BY Zenon, LauncherMoves, AtTopType, Names DEF Typed, LauncherTerminate, At
<1>2. loop' \in Loops
  BY Zenon, LoopMoves, NoLoopType, Names DEF Typed, LauncherTerminate, At
<1> QED
  BY Zenon, <1>1, <1>2 DEF Typed, Counted, LauncherTerminate, LauncherOnly

LEMMA LauncherWaitType ==
  ASSUME Typed, Counted, LauncherWait
  PROVE  Typed' /\ Counted'
<1>1. control' \in Control
  BY Zenon, ControlType, AnswersType, Names DEF Typed, LauncherWait, At
<1>2. inbox' \subseteq Messages
  BY Zenon, ControlType, AnswersType, Names DEF Typed, LauncherWait, At
<1>3. launcher' \in Launchers
  BY Zenon, LauncherMoves, AtTopType, Names DEF Typed, LauncherWait, At
<1> QED
  BY Zenon, <1>1, <1>2, <1>3 DEF Typed, Counted, LauncherWait, LauncherOnly

LEMMA DoctorReadType ==
  ASSUME Typed, Counted, DoctorRead
  PROVE  Typed' /\ Counted'
<1>1. launcher' \in Launchers
  BY Zenon, LauncherMoves, AtTopType, Names DEF Typed, DoctorRead, At
<1> QED
  BY Zenon, <1>1 DEF Typed, Counted, DoctorRead, LauncherOnly

LEMMA DoctorWriteType ==
  ASSUME Typed, Counted, DoctorWrite
  PROVE  Typed' /\ Counted'
<1>1. control' \in Control
  BY Zenon, ControlType, AnswersType, Names DEF Typed, DoctorWrite
<1> QED
  BY <1>1 DEF Typed, Counted, DoctorWrite, LauncherOnly

LEMMA DoctorEndType ==
  ASSUME Typed, Counted, DoctorEnd
  PROVE  Typed' /\ Counted'
<1>1. control' \in Control
  <2>1. control \in Control /\ DoctorResults \subseteq Claims
    BY Zenon, SupervisorAssumption DEF SupervisorAssumption, Typed, Claims
  <2>2. CASE \E claim \in DoctorResults : control' = [control EXCEPT !.claim = claim]
    BY <2>1, <2>2 DEF Control
  <2> QED
    BY <2>1, <2>2 DEF DoctorEnd
<1>2. report' \in {"ok", "failed"}
  BY Zenon DEF Typed, DoctorEnd, At
<1>3. launcher' \in Launchers
  BY Zenon, LauncherMoves, AtTopType, Names DEF Typed, DoctorEnd, At
<1> QED
  BY Zenon, <1>1, <1>2, <1>3 DEF Typed, Counted, DoctorEnd, LauncherOnly

LEMMA DoctorDiesType ==
  ASSUME Typed, Counted, DoctorDies
  PROVE  Typed' /\ Counted'
<1>1. launcher' \in Launchers
  BY Zenon, LauncherMoves, AtTopType, Names DEF Typed, DoctorDies, At
<1> QED
  BY Zenon, <1>1 DEF Typed, Counted, DoctorDies, LauncherOnly

LEMMA LauncherAfterType ==
  ASSUME Typed, Counted, LauncherAfter
  PROVE  Typed' /\ Counted'
<1>1. launcher' \in Launchers
  BY Zenon, LauncherMoves, AtTopType, Names DEF Typed, LauncherAfter
<1> QED
  BY Zenon, <1>1 DEF Typed, Counted, LauncherAfter, LauncherOnly

LEMMA LauncherStartType ==
  ASSUME Typed, Counted, LauncherStart
  PROVE  Typed' /\ Counted'
<1>1. launcher' \in Launchers
  BY Zenon, LauncherMoves, AtTopType, Names DEF Typed, LauncherStart
<1>2. starts' \in 0 .. MaxStarts
  BY SupervisorAssumption DEF SupervisorAssumption, Counted, LauncherStart
<1> QED
  BY Zenon, <1>1, <1>2 DEF Typed, Counted, LauncherStart

LEMMA LauncherInterruptType ==
  ASSUME Typed, Counted, LauncherInterrupt
  PROVE  Typed' /\ Counted'
<1>1. launcher' \in Launchers
  BY Zenon, LauncherMoves, AtTopType, Names DEF Typed, LauncherInterrupt
<1>2. loop' \in Loops
  BY Zenon, LoopMoves, NoLoopType, Names DEF Typed, LauncherInterrupt
<1> QED
  BY Zenon, <1>1, <1>2 DEF Typed, Counted, LauncherInterrupt, LauncherOnly

-----------------------------------------------------------------------------
(* The inductive invariant.                                                *)

(* There is a loop process only while the launcher watches or ends it.     *)
LoopIsWatched == loop.pc # "none" => launcher.pc \in {"watch", "terminate"}

(* What the detector is about to write back has no claim that ended.       *)
ReadIsOpen == loop.pc = "write" => loop.read.claim \in {"none", "active"}

Guarded == FailuresLeft /\ LoopIsWatched /\ ReadIsOpen /\ NoLoopOverEndedClaim
IInv == TypeOK /\ Guarded

LEMMA Starts == Init => IInv
<1>1. ASSUME Init PROVE Typed
  <2>1. control \in Control
    BY <1>1 DEF Init, Payload, Control, Modes, Claims
  <2>2. launcher \in Launchers
    BY <1>1, AtTopType DEF Init, LauncherPlaces
  <2> QED
    BY <1>1, <2>1, <2>2, NoLoopType DEF Init, Typed
<1>2. ASSUME Init PROVE Counted
  BY <1>2, SupervisorAssumption DEF SupervisorAssumption, Init, Counted, Modes
<1>3. ASSUME Init PROVE Guarded
  BY <1>3 DEF Init, Guarded, FailuresLeft, LoopIsWatched, ReadIsOpen, NoLoopOverEndedClaim,
              NoLoop, Payload
<1> QED
  BY <1>1, <1>2, <1>3, TypedCounted DEF IInv

LEMMA CommandsType ==
  ASSUME Typed, Counted,
         (\E mode \in Modes : Operate(mode)) \/ (\E message \in Messages : Send(message))
  PROVE  Typed' /\ Counted'
<1>1. commands' \in 0 .. MaxCommands
  BY SupervisorAssumption DEF SupervisorAssumption, Counted, Operate, Send
<1>2. CASE \E mode \in Modes : Operate(mode)
  <2>1. control' \in Control
    BY <1>2 DEF Operate, Payload, Control, Claims
  <2>2. order' \in Modes /\ started' \in 0 .. 2
    BY <1>2 DEF Operate
  <2> QED
    BY Zenon, <1>1, <1>2, <2>1, <2>2 DEF Operate, Typed, Counted
<1>3. CASE \E message \in Messages : Send(message)
  <2>1. order' \in Modes /\ started' \in 0 .. 2
    BY <1>3 DEF Send, Counted, Modes
  <2> QED
    BY Zenon, <1>1, <1>3, <2>1 DEF Send, Typed, Counted
<1> QED
  BY <1>2, <1>3

LEMMA TypeStep == ASSUME IInv, [Next]_vars PROVE TypeOK'
<1> SUFFICES Typed' /\ Counted'
  BY Zenon DEF TypeOK, Typed, Counted, Loops, Launchers
<1>1. Typed /\ Counted /\ FailuresLeft
  BY TypedCounted DEF IInv, Guarded
<1>2. CASE UNCHANGED vars
  BY Zenon, <1>1, <1>2 DEF vars, Typed, Counted
<1>3. CASE LoopStep
  BY <1>1, <1>3,
     LoopRelayType, LoopReadType, LoopIdleType, LoopStartType, LoopSelectType, LoopWorkType,
     LoopRecordReadType, LoopRecordWriteType, LoopDoneType, LoopAskType, LoopFailedType,
     LoopRetryType
     DEF LoopStep
<1>4. CASE \E mode \in Modes : Operate(mode)
  BY <1>1, <1>4, CommandsType
<1>5. CASE \E message \in Messages : Send(message)
  BY <1>1, <1>5, CommandsType
<1>6. CASE LauncherStep
  BY <1>1, <1>6,
     LauncherTopType, LauncherClaimSeenType, LauncherLoopGoneType, LauncherTerminateType,
     LauncherWaitType, DoctorReadType, DoctorEndType, LauncherAfterType
     DEF LauncherStep
<1>7. CASE LauncherStatusGone \/ LauncherStalled \/ DoctorWrite \/ DoctorDies
          \/ LauncherStart \/ LauncherInterrupt
  BY <1>1, <1>7,
     LauncherStatusGoneType, LauncherStalledType, DoctorWriteType, DoctorDiesType,
     LauncherStartType, LauncherInterruptType
<1> QED
  BY <1>2, <1>3, <1>4, <1>5, <1>6, <1>7 DEF Next

(* Reading the inbox drops the claim, or keeps it.                         *)
LEMMA InboxKeepsClaim ==
  ASSUME control \in Control, NEW accepted \in BOOLEAN, ConsumeAnswers(Resumed(control), accepted)
  PROVE  control'.claim \in {control.claim, "none"}
<1>1. Resumed(control) \in Control /\ Resumed(control).claim \in {control.claim, "none"}
  BY DEF Resumed, Payload, Control, Modes, Claims
<1>2. Answered(Resumed(control)).claim = Resumed(control).claim
  BY <1>1 DEF Answered, Control
<1> QED
  BY <1>1, <1>2 DEF ConsumeAnswers

(* A step of the loop which goes on, keeps its count and does not end the  *)
(* claim.                                                                  *)
LEMMA LoopKeepsGuard ==
  ASSUME Guarded, launcher' = launcher, control'.claim \in {control.claim, "none"},
         loop.pc \notin {"none", "exited"}, loop'.pc \notin {"none", "write"},
         loop'.failures = loop.failures
  PROVE  Guarded'
BY DEF Guarded, FailuresLeft, LoopIsWatched, ReadIsOpen, NoLoopOverEndedClaim

(* A step beside a loop that is watched and whose claim does not end, or   *)
(* one while there is no loop.                                             *)
LEMMA OthersKeepGuard ==
  ASSUME Guarded, loop' = loop,
         \/ loop.pc = "none"
         \/ launcher'.pc \in {"watch", "terminate"} /\ control'.claim \in {control.claim, "active", "none"}
  PROVE  Guarded'
BY DEF Guarded, FailuresLeft, LoopIsWatched, ReadIsOpen, NoLoopOverEndedClaim

LEMMA NoLoopKeepsGuard ==
  ASSUME loop' = NoLoop, SupervisorAssumption
  PROVE  Guarded'
BY DEF Guarded, FailuresLeft, LoopIsWatched, ReadIsOpen, NoLoopOverEndedClaim, NoLoop,
       SupervisorAssumption

LEMMA GuardStep == ASSUME IInv, [Next]_vars PROVE Guarded'
<1>1. Guarded /\ control \in Control /\ loop \in Loops /\ launcher \in Launchers
  BY Zenon, TypedCounted DEF IInv, Typed
<1>2. launcher.pc \notin {"watch", "terminate"} => loop.pc = "none"
  BY <1>1 DEF Guarded, LoopIsWatched
<1>3. CASE UNCHANGED vars
  BY <1>1, <1>3 DEF vars, Guarded, FailuresLeft, LoopIsWatched, ReadIsOpen, NoLoopOverEndedClaim
<1>4. CASE LoopRelay
  <2>1. loop.pc = "relay" /\ launcher' = launcher
    BY <1>4 DEF LoopRelay, LoopOnly
  <2>2. control'.claim \in {control.claim, "none"}
    BY <1>4 DEF LoopRelay, Resumed, Payload
  <2>3. loop'.pc \in {"read"} /\ loop'.failures = loop.failures
    BY <1>1, <1>4 DEF LoopRelay, Loops, Go
  <2> QED
    BY <1>1, <2>1, <2>2, <2>3, LoopKeepsGuard
<1>5. CASE LoopRead
  <2>1. loop.pc = "read" /\ launcher' = launcher
    BY <1>5 DEF LoopRead, LoopOnly
  <2>2. control' = control
    BY <1>5 DEF LoopRead
  <2>3. loop'.pc \in {"relay", "exited", "idle", "start"} /\ loop'.failures = loop.failures
    BY <1>1, <1>5 DEF LoopRead, Loops, Go, Exit
  <2> QED
    BY <1>1, <2>1, <2>2, <2>3, LoopKeepsGuard
<1>6. CASE LoopIdle
  <2>1. loop.pc = "idle" /\ launcher' = launcher
    BY <1>6 DEF LoopIdle, LoopOnly
  <2>2. control'.claim \in {control.claim, "none"}
    BY <1>6 DEF LoopIdle, Resumed, Payload
  <2>3. loop'.pc \in {"relay"} /\ loop'.failures = loop.failures
    BY <1>1, <1>6 DEF LoopIdle, Loops, Go
  <2> QED
    BY <1>1, <2>1, <2>2, <2>3, LoopKeepsGuard
<1>7. CASE LoopStart
  <2>1. loop.pc = "start" /\ launcher' = launcher
    BY <1>7 DEF LoopStart, LoopOnly
  <2>2. control'.claim \in {control.claim, "none"}
    BY <1>1, <1>7, InboxKeepsClaim DEF LoopStart
  <2>3. loop'.pc \in {"failed", "cycle"} /\ loop'.failures = loop.failures
    BY <1>1, <1>7 DEF LoopStart, Loops, Go
  <2> QED
    BY <1>1, <2>1, <2>2, <2>3, LoopKeepsGuard
<1>8. CASE LoopSelect
  <2>1. loop.pc = "cycle" /\ launcher' = launcher
    BY <1>8 DEF LoopSelect, LoopOnly
  <2>2. control' = control
    BY <1>8 DEF LoopSelect
  <2>3. loop'.pc \in {"done", "work"} /\ loop'.failures = loop.failures
    BY <1>1, <1>8 DEF LoopSelect, Loops
  <2> QED
    BY <1>1, <2>1, <2>2, <2>3, LoopKeepsGuard
<1>9. CASE LoopWork
  <2>1. loop.pc = "work" /\ launcher' = launcher
    BY <1>9 DEF LoopWork, LoopOnly
  <2>2. control' = control
    BY <1>9 DEF LoopWork
  <2>3. loop'.pc \in {"failed", "record", "done"} /\ loop'.failures = loop.failures
    BY <1>1, <1>9 DEF LoopWork, Loops, Go
  <2> QED
    BY <1>1, <2>1, <2>2, <2>3, LoopKeepsGuard
<1>10. CASE LoopRecordRead
  <2>1. loop.pc = "record" /\ loop'.pc = "write" /\ loop'.read = control /\ loop'.failures = loop.failures
    BY <1>1, <1>10 DEF LoopRecordRead, Loops
  <2>2. control' = control /\ launcher' = launcher
    BY <1>10 DEF LoopRecordRead, LoopOnly
  <2>3. control.claim \in Claims
    BY <1>1 DEF Control
  <2> QED
    BY <1>1, <2>1, <2>2, <2>3
       DEF Claims, Guarded, FailuresLeft, LoopIsWatched, ReadIsOpen, NoLoopOverEndedClaim
<1>11. CASE LoopRecordWrite
  <2>1. loop.pc = "write" /\ launcher' = launcher /\ loop.read \in Control
    BY <1>1, <1>11 DEF LoopRecordWrite, LoopOnly, Loops
  <2>2. control'.claim = loop.read.claim
    BY <2>1, <1>11 DEF LoopRecordWrite, Control
  <2>3. loop'.pc = "done" /\ loop'.failures = loop.failures
    BY <1>1, <1>11 DEF LoopRecordWrite, Go, Loops
  <2> QED
    BY <1>1, <2>1, <2>2, <2>3
       DEF Guarded, FailuresLeft, LoopIsWatched, ReadIsOpen, NoLoopOverEndedClaim
<1>12. CASE LoopDone
  <2>1. loop.pc = "done" /\ control' = control /\ launcher' = launcher
    BY <1>12 DEF LoopDone, LoopOnly
  <2>2. loop'.pc \in {"ask", "relay", "exited"} /\ loop'.failures = 0
    BY <1>1, <1>12 DEF LoopDone, Loops
  <2> QED
    BY <1>1, <2>1, <2>2, SupervisorAssumption
       DEF SupervisorAssumption, Guarded, FailuresLeft, LoopIsWatched, ReadIsOpen, NoLoopOverEndedClaim
<1>13. CASE LoopAsk
  <2>1. loop.pc = "ask" /\ launcher' = launcher
    BY <1>13 DEF LoopAsk, LoopOnly
  <2>2. control'.claim \in {control.claim, "none"}
    BY <1>1, <1>13, InboxKeepsClaim DEF LoopAsk
  <2>3. loop'.pc \in {"relay", "exited"} /\ loop'.failures = loop.failures
    BY <1>1, <1>13 DEF LoopAsk, Loops, Go, Exit
  <2> QED
    BY <1>1, <2>1, <2>2, <2>3, LoopKeepsGuard
<1>14. CASE LoopFailed
  <2> DEFINE n == loop.failures + 1
             out == MaxFailures > 0 /\ n >= MaxFailures
  <2>1. loop.failures \in 0 .. MaxFailures /\ loop.pc = "failed"
    BY <1>1, <1>14 DEF Loops, LoopFailed
  <2>2. PICK k, pc : /\ loop' = [loop EXCEPT !.outcome = "none", !.failures = k, !.pc = pc, !.code = 1]
                     /\ k = IF MaxFailures = 0 THEN 0 ELSE n
                     /\ pc = IF out THEN "exited" ELSE "retrying"
    BY Zenon, <1>14 DEF LoopFailed
  <2>3. loop'.failures = k /\ loop'.pc = pc
    BY <1>1, <2>2 DEF Loops
  <2>4. FailuresLeft'
    BY <2>1, <2>2, <2>3, SupervisorAssumption DEF SupervisorAssumption, FailuresLeft
  <2>5. control' = control /\ launcher' = launcher
    BY <1>14 DEF LoopFailed, LoopOnly
  <2> QED
    BY <1>1, <2>1, <2>2, <2>3, <2>4, <2>5 DEF Guarded, LoopIsWatched, ReadIsOpen, NoLoopOverEndedClaim
<1>15. CASE LoopRetry
  <2>1. loop.pc = "retrying" /\ launcher' = launcher
    BY <1>15 DEF LoopRetry, LoopOnly
  <2>2. control' = control
    BY <1>15 DEF LoopRetry
  <2>3. loop'.pc \in {"relay"} /\ loop'.failures = loop.failures
    BY <1>1, <1>15 DEF LoopRetry, Loops, Go
  <2> QED
    BY <1>1, <2>1, <2>2, <2>3, LoopKeepsGuard
<1>16. CASE LauncherTop
  <2>1. launcher.pc = "top"
    BY <1>16 DEF LauncherTop
  <2>2. CASE loop' = loop
    BY <1>1, <1>2, <2>1, <2>2, OthersKeepGuard
  <2>3. CASE loop' # loop
    <3>1. /\ loop' = [NoLoop EXCEPT !.pc = "relay"] /\ launcher' = [AtTop EXCEPT !.pc = "watch"]
          /\ control.claim = "none" /\ control' = control
      BY <1>16, <2>3 DEF LauncherTop
    <3>2. loop'.pc = "relay" /\ loop'.failures = 0 /\ launcher'.pc = "watch"
      BY <3>1 DEF NoLoop, AtTop
    <3> QED
      BY <3>1, <3>2, SupervisorAssumption
         DEF SupervisorAssumption, Guarded, FailuresLeft, LoopIsWatched, ReadIsOpen, NoLoopOverEndedClaim
  <2> QED
    BY <2>2, <2>3
<1>17. CASE LauncherClaimSeen
  <2>1. loop' = loop /\ control' = control
    BY <1>17 DEF LauncherClaimSeen
  <2>2. launcher'.pc = "terminate"
    BY <1>1, <1>17 DEF LauncherClaimSeen, Launchers
  <2> QED
    BY <1>1, <2>1, <2>2, OthersKeepGuard
<1>18. CASE LauncherLoopGone
  <2>1. loop' = loop
    BY <1>18 DEF LauncherLoopGone
  <2>2. control'.claim \in {control.claim, "active"}
    BY <1>1, <1>18 DEF LauncherLoopGone, Control
  <2>3. launcher'.pc \in {"watch", "terminate"}
    BY <1>1, <1>18 DEF LauncherLoopGone, Launchers
  <2> QED
    BY <1>1, <2>1, <2>2, <2>3, OthersKeepGuard
<1>19. CASE LauncherTerminate
  <2>1. loop' = NoLoop
    BY <1>19 DEF LauncherTerminate
  <2> QED
    BY <1>1, <2>1, NoLoopKeepsGuard, SupervisorAssumption
<1>20. CASE LauncherWait
  <2>1. launcher.pc = "wait" /\ loop' = loop
    BY <1>20 DEF LauncherWait, LauncherOnly
  <2> QED
    BY <1>1, <2>1, <1>2, OthersKeepGuard
<1>21. CASE DoctorRead
  <2>1. launcher.pc = "doctor" /\ loop' = loop
    BY <1>21 DEF DoctorRead, LauncherOnly
  <2> QED
    BY <1>1, <2>1, <1>2, OthersKeepGuard
<1>22. CASE DoctorEnd
  <2>1. launcher.pc = "repair" /\ loop' = loop
    BY <1>22 DEF DoctorEnd, LauncherOnly
  <2> QED
    BY <1>1, <2>1, <1>2, OthersKeepGuard
<1>23. CASE LauncherAfter
  <2>1. launcher.pc = "after" /\ loop' = loop
    BY <1>23 DEF LauncherAfter, LauncherOnly
  <2> QED
    BY <1>1, <2>1, <1>2, OthersKeepGuard
<1>24. CASE LauncherStatusGone
  <2>1. loop' = loop
    BY <1>24 DEF LauncherStatusGone
  <2>2. control'.claim \in {control.claim, "active"}
    BY <1>1, <1>24 DEF LauncherStatusGone, Control, At
  <2>3. launcher.pc = "watch" /\ launcher'.pc \in {"watch", "terminate"}
    BY <1>1, <1>24 DEF LauncherStatusGone, Launchers, At
  <2> QED
    BY <1>1, <2>1, <2>2, <2>3, OthersKeepGuard
<1>25. CASE LauncherStalled
  <2>1. loop' = loop
    BY <1>25 DEF LauncherStalled
  <2>2. control'.claim = "active"
    BY <1>1, <1>25 DEF LauncherStalled, Control
  <2>3. launcher'.pc = "watch"
    BY <1>1, <1>25 DEF LauncherStalled, Launchers
  <2> QED
    BY <1>1, <2>1, <2>2, <2>3, OthersKeepGuard
<1>26. CASE DoctorWrite
  <2>1. launcher.pc = "repair" /\ loop' = loop
    BY <1>26 DEF DoctorWrite, LauncherOnly
  <2> QED
    BY <1>1, <2>1, <1>2, OthersKeepGuard
<1>27. CASE DoctorDies
  <2>1. launcher.pc = "repair" /\ loop' = loop
    BY <1>27 DEF DoctorDies, LauncherOnly
  <2> QED
    BY <1>1, <2>1, <1>2, OthersKeepGuard
<1>28. CASE LauncherStart
  <2>1. launcher.pc = "ended" /\ loop' = loop
    BY <1>28 DEF LauncherStart, LauncherOnly
  <2> QED
    BY <1>1, <2>1, <1>2, OthersKeepGuard
<1>29. CASE LauncherInterrupt
  <2>1. loop' = NoLoop
    BY <1>29 DEF LauncherInterrupt
  <2> QED
    BY <1>1, <2>1, NoLoopKeepsGuard, SupervisorAssumption
<1>30. CASE \E mode \in Modes : Operate(mode)
  <2>1. loop' = loop /\ launcher' = launcher /\ control'.claim = "none"
    BY <1>30 DEF Operate, Payload
  <2> QED
    BY <1>1, <1>2, <2>1, OthersKeepGuard
<1>31. CASE \E message \in Messages : Send(message)
  <2>1. loop' = loop /\ launcher' = launcher /\ control' = control
    BY <1>31 DEF Send
  <2> QED
    BY <1>1, <1>2, <2>1, OthersKeepGuard
<1> QED
  BY <1>3, <1>4, <1>5, <1>6, <1>7, <1>8, <1>9, <1>10, <1>11, <1>12, <1>13, <1>14, <1>15, <1>16,
     <1>17, <1>18, <1>19, <1>20, <1>21, <1>22, <1>23, <1>24, <1>25, <1>26, <1>27, <1>28, <1>29, <1>30,
     <1>31
     DEF Next, LoopStep, LauncherStep

(* Every state of every run has the types the code's data has.             *)
THEOREM TypeCorrect == Spec => []TypeOK
<1>1. IInv /\ [Next]_vars => IInv'
  BY TypeStep, GuardStep DEF IInv
<1>2. IInv => TypeOK
  BY DEF IInv
<1> QED
  BY Starts, <1>1, <1>2, PTL DEF Spec

(* A loop never runs over a claim that ended: whatever the Doctor, the     *)
(* operator and the owner do, the launcher starts no loop before it cleared *)
(* a restartable claim, and none over a final one.                         *)
THEOREM EndedClaimStopsLoop == Spec => []NoLoopOverEndedClaim
<1>1. IInv /\ [Next]_vars => IInv'
  BY TypeStep, GuardStep DEF IInv
<1>2. IInv => NoLoopOverEndedClaim
  BY DEF IInv, Guarded
<1> QED
  BY Starts, <1>1, <1>2, PTL DEF Spec

(* The loop and the launcher's Doctor never work at the same time.         *)
THEOREM LoopAndDoctorExclude == Spec => []LoopOrDoctor
<1>1. IInv /\ [Next]_vars => IInv'
  BY TypeStep, GuardStep DEF IInv
<1>2. IInv => LoopOrDoctor
  BY DEF IInv, Guarded, LoopIsWatched, LoopOrDoctor
<1> QED
  BY Starts, <1>1, <1>2, PTL DEF Spec

-----------------------------------------------------------------------------
(* A stop is honoured where nothing but the operator resumes and the       *)
(* detector is not at work.                                                *)

(* control.json says what the operator asked for, and only the loop that   *)
(* read it before is still about to start a cycle.                         *)
StopInv ==
  /\ order # "running" => control.mode = order /\ ~control.stuck
  /\ order = "running" => started = 0
  /\ started \in {0, 1}
  /\ loop.pc = "start" => started = 0
  /\ loop.pc \notin {"record", "write"} /\ loop.outcome # "execute"

(* Without resume messages a read of the inbox changes the mode only when  *)
(* the detector asked for the pause.                                       *)
LEMMA InboxKeepsMode ==
  ASSUME control \in Control, "resume" \notin inbox, NEW accepted \in BOOLEAN,
         ConsumeAnswers(Resumed(control), accepted), ~control.stuck
  PROVE  control' = control
BY DEF ConsumeAnswers, Resumed, Answered

(* A step of the loop before the next cycle is about to start.             *)
LEMMA LoopKeepsStop ==
  ASSUME StopInv, order' = order, started' = started, order # "running" => control' = control,
         loop'.pc \notin {"start", "record", "write"}, loop'.outcome # "execute"
  PROVE  StopInv'
BY DEF StopInv

(* A step of the others, which ends the loop or leaves it alone.           *)
LEMMA OthersKeepStop ==
  ASSUME StopInv, order' = order, started' = started, loop' \in {loop, NoLoop},
         order # "running" => control'.mode = control.mode /\ control'.stuck = control.stuck
  PROVE  StopInv'
BY DEF StopInv, NoLoop

LEMMA StopStep ==
  ASSUME IInv, StopInv, "resume" \notin Messages, "execute" \notin Outcomes, [Next]_vars
  PROVE  StopInv'
<1>1. control \in Control /\ loop \in Loops /\ launcher \in Launchers /\ "resume" \notin inbox
  BY Zenon, TypedCounted DEF IInv, Typed
<1>2. loop.outcome # "execute" /\ loop.pc \notin {"record", "write"}
  BY DEF StopInv
<1>3. CASE UNCHANGED vars
  BY <1>3 DEF vars, StopInv
<1>4. CASE LoopRelay
  <2>1. order' = order /\ started' = started
    BY <1>4 DEF LoopRelay, LoopOnly
  <2>2. order # "running" => control' = control
    BY <1>1, <1>4 DEF LoopRelay, Resumed
  <2>3. loop'.pc \in {"read"} /\ loop'.outcome = loop.outcome
    BY <1>1, <1>2, <1>4 DEF LoopRelay, Loops, Go
  <2> QED
    BY <1>2, <2>1, <2>2, <2>3, LoopKeepsStop
<1>5. CASE LoopRead
  <2>1. order' = order /\ started' = started /\ control' = control
    BY <1>5 DEF LoopRead, LoopOnly
  <2>2. loop'.pc \in {"relay", "exited", "idle", "start"} /\ loop'.outcome = loop.outcome
    BY <1>1, <1>5 DEF LoopRead, Loops, Go, Exit
  <2>3. loop'.pc = "start" => control.mode = "running"
    BY <1>1, <1>5 DEF LoopRead, Loops, Go, Exit, Halted
  <2> QED
    BY <1>2, <2>1, <2>2, <2>3 DEF StopInv
<1>6. CASE LoopIdle
  <2>1. order' = order /\ started' = started
    BY <1>6 DEF LoopIdle, LoopOnly
  <2>2. order # "running" => control' = control
    BY <1>1, <1>6 DEF LoopIdle, Resumed
  <2>3. loop'.pc \in {"relay"} /\ loop'.outcome = loop.outcome
    BY <1>1, <1>2, <1>6 DEF LoopIdle, Loops, Go
  <2> QED
    BY <1>2, <2>1, <2>2, <2>3, LoopKeepsStop
<1>7. CASE LoopStart
  <2>1. order # "running" => control' = control
    BY <1>1, <1>7, InboxKeepsMode DEF LoopStart, StopInv
  <2>2. order' = order /\ loop.pc = "start"
    BY <1>7 DEF LoopStart, LoopOnly
  <2>3. loop'.pc \in {"failed", "cycle"} /\ loop'.outcome = loop.outcome
    BY <1>1, <1>7 DEF LoopStart, Go, Loops
  <2>4. started = 0
    BY <2>2 DEF StopInv
  <2>5. started' \in {0, 1} /\ (order = "running" => started' = 0)
    BY <1>7, <2>4 DEF LoopStart
  <2> QED
    BY <1>2, <2>1, <2>2, <2>3, <2>5 DEF StopInv
<1>8. CASE LoopSelect
  <2>1. order' = order /\ started' = started
    BY <1>8 DEF LoopSelect, LoopOnly
  <2>2. order # "running" => control' = control
    BY <1>8 DEF LoopSelect
  <2>3. loop'.pc \in {"done", "work"} /\ loop'.outcome \in Outcomes
    BY <1>1, <1>2, <1>8 DEF LoopSelect, Loops
  <2> QED
    BY <1>2, <2>1, <2>2, <2>3, LoopKeepsStop
<1>9. CASE LoopWork
  <2>1. order' = order /\ started' = started
    BY <1>9 DEF LoopWork, LoopOnly
  <2>2. order # "running" => control' = control
    BY <1>9 DEF LoopWork
  <2>3. loop'.pc \in {"failed", "done"} /\ loop'.outcome = loop.outcome
    BY <1>1, <1>2, <1>9 DEF LoopWork, Loops, Go
  <2> QED
    BY <1>2, <2>1, <2>2, <2>3, LoopKeepsStop
<1>10. CASE LoopRecordRead \/ LoopRecordWrite
  BY <1>2, <1>10 DEF LoopRecordRead, LoopRecordWrite
<1>11. CASE LoopDone
  <2>1. order' = order /\ started' = started
    BY <1>11 DEF LoopDone, LoopOnly
  <2>2. order # "running" => control' = control
    BY <1>11 DEF LoopDone
  <2>3. loop'.pc \in {"ask", "relay", "exited"} /\ loop'.outcome = "none"
    BY <1>1, <1>2, <1>11 DEF LoopDone, Loops
  <2> QED
    BY <1>2, <2>1, <2>2, <2>3, LoopKeepsStop
<1>12. CASE LoopAsk
  <2>1. order' = order /\ started' = started
    BY <1>12 DEF LoopAsk, LoopOnly
  <2>2. order # "running" => control' = control
    BY <1>1, <1>12, InboxKeepsMode DEF LoopAsk, StopInv
  <2>3. loop'.pc \in {"relay", "exited"} /\ loop'.outcome = loop.outcome
    BY <1>1, <1>2, <1>12 DEF LoopAsk, Loops, Go, Exit
  <2> QED
    BY <1>2, <2>1, <2>2, <2>3, LoopKeepsStop
<1>13. CASE LoopFailed
  <2>1. PICK k, pc : loop' = [loop EXCEPT !.outcome = "none", !.failures = k, !.pc = pc, !.code = 1]
                     /\ pc \in {"exited", "retrying"}
    BY Zenon, <1>13 DEF LoopFailed
  <2>2. loop'.outcome = "none" /\ loop'.pc \in {"exited", "retrying"}
    BY <1>1, <2>1 DEF Loops
  <2>3. order' = order /\ started' = started /\ control' = control
    BY <1>13 DEF LoopFailed, LoopOnly
  <2> QED
    BY <2>2, <2>3, LoopKeepsStop
<1>14. CASE LoopRetry
  <2>1. order' = order /\ started' = started
    BY <1>14 DEF LoopRetry, LoopOnly
  <2>2. order # "running" => control' = control
    BY <1>14 DEF LoopRetry
  <2>3. loop'.pc \in {"relay"} /\ loop'.outcome = loop.outcome
    BY <1>1, <1>2, <1>14 DEF LoopRetry, Loops, Go
  <2> QED
    BY <1>2, <2>1, <2>2, <2>3, LoopKeepsStop
<1>15. CASE LauncherTop
  <2>1. order' = order /\ started' = started
    BY <1>15 DEF LauncherTop, LauncherOnly
  <2>2. control'.mode = control.mode /\ control'.stuck = control.stuck
    BY <1>1, <1>15 DEF LauncherTop, Control
  <2>3. CASE loop' = loop
    BY <2>1, <2>2, <2>3, OthersKeepStop
  <2>4. CASE loop' # loop
    <3>1. loop' = [NoLoop EXCEPT !.pc = "relay"]
      BY <1>15, <2>4 DEF LauncherTop
    <3>2. loop'.pc = "relay" /\ loop'.outcome = "none"
      BY <3>1 DEF NoLoop
    <3> QED
      BY <2>1, <2>2, <3>2 DEF StopInv
  <2> QED
    BY <2>3, <2>4
<1>16. CASE LauncherClaimSeen
  <2>1. order' = order /\ started' = started /\ loop' = loop
    BY <1>16 DEF LauncherClaimSeen, LauncherOnly
  <2>2. control' = control
    BY <1>1, <1>16 DEF LauncherClaimSeen
  <2> QED
    BY <2>1, <2>2, OthersKeepStop
<1>17. CASE LauncherLoopGone
  <2>1. order' = order /\ started' = started /\ loop' = loop
    BY <1>17 DEF LauncherLoopGone, LauncherOnly
  <2>2. control'.mode = control.mode /\ control'.stuck = control.stuck
    BY <1>1, <1>17 DEF LauncherLoopGone, Control
  <2> QED
    BY <2>1, <2>2, OthersKeepStop
<1>18. CASE LauncherTerminate
  <2>1. order' = order /\ started' = started /\ loop' = NoLoop
    BY <1>18 DEF LauncherTerminate, LauncherOnly
  <2>2. control' = control
    BY <1>1, <1>18 DEF LauncherTerminate
  <2> QED
    BY <2>1, <2>2, OthersKeepStop
<1>19. CASE LauncherWait
  <2>1. order' = order /\ started' = started /\ loop' = loop
    BY <1>19 DEF LauncherWait, LauncherOnly
  <2>2. order # "running" => control' = control
    BY <1>1, <1>19 DEF LauncherWait, ConsumeAnswers, Answered, StopInv
  <2> QED
    BY <2>1, <2>2, OthersKeepStop
<1>20. CASE DoctorRead
  <2>1. order' = order /\ started' = started /\ loop' = loop
    BY <1>20 DEF DoctorRead, LauncherOnly
  <2>2. control' = control
    BY <1>1, <1>20 DEF DoctorRead
  <2> QED
    BY <2>1, <2>2, OthersKeepStop
<1>21. CASE DoctorEnd
  <2>1. order' = order /\ started' = started /\ loop' = loop
    BY <1>21 DEF DoctorEnd, LauncherOnly
  <2>2. control'.mode = control.mode /\ control'.stuck = control.stuck
    BY <1>1, <1>21 DEF DoctorEnd, Control
  <2> QED
    BY <2>1, <2>2, OthersKeepStop
<1>22. CASE LauncherAfter
  <2>1. order' = order /\ started' = started /\ loop' = loop
    BY <1>22 DEF LauncherAfter, LauncherOnly
  <2>2. control' = control
    BY <1>1, <1>22 DEF LauncherAfter
  <2> QED
    BY <2>1, <2>2, OthersKeepStop
<1>23. CASE LauncherStatusGone
  <2>1. order' = order /\ started' = started /\ loop' = loop
    BY <1>23 DEF LauncherStatusGone, LauncherOnly
  <2>2. control'.mode = control.mode /\ control'.stuck = control.stuck
    BY <1>1, <1>23 DEF LauncherStatusGone, Control
  <2> QED
    BY <2>1, <2>2, OthersKeepStop
<1>24. CASE LauncherStalled
  <2>1. order' = order /\ started' = started /\ loop' = loop
    BY <1>24 DEF LauncherStalled, LauncherOnly
  <2>2. control'.mode = control.mode /\ control'.stuck = control.stuck
    BY <1>1, <1>24 DEF LauncherStalled, Control
  <2> QED
    BY <2>1, <2>2, OthersKeepStop
<1>25. CASE DoctorWrite
  <2>1. order' = order /\ started' = started /\ loop' = loop
    BY <1>25 DEF DoctorWrite, LauncherOnly
  <2>2. control'.mode = control.mode /\ control'.stuck = control.stuck
    BY <1>1, <1>25 DEF DoctorWrite, Control
  <2> QED
    BY <2>1, <2>2, OthersKeepStop
<1>26. CASE DoctorDies
  <2>1. order' = order /\ started' = started /\ loop' = loop
    BY <1>26 DEF DoctorDies, LauncherOnly
  <2>2. control' = control
    BY <1>1, <1>26 DEF DoctorDies
  <2> QED
    BY <2>1, <2>2, OthersKeepStop
<1>27. CASE LauncherStart
  <2>1. order' = order /\ started' = started /\ loop' = loop
    BY <1>27 DEF LauncherStart
  <2>2. control' = control
    BY <1>1, <1>27 DEF LauncherStart
  <2> QED
    BY <2>1, <2>2, OthersKeepStop
<1>28. CASE LauncherInterrupt
  <2>1. order' = order /\ started' = started /\ loop' = NoLoop
    BY <1>28 DEF LauncherInterrupt, LauncherOnly
  <2>2. control' = control
    BY <1>1, <1>28 DEF LauncherInterrupt
  <2> QED
    BY <2>1, <2>2, OthersKeepStop
<1>29. CASE \E mode \in Modes : Operate(mode)
  BY <1>2, <1>29 DEF Operate, Payload, StopInv
<1>30. CASE \E message \in Messages : Send(message)
  BY <1>30 DEF Send, StopInv
<1> QED
  BY <1>3, <1>4, <1>5, <1>6, <1>7, <1>8, <1>9, <1>10, <1>11, <1>12, <1>13, <1>14, <1>15, <1>16,
     <1>17, <1>18, <1>19, <1>20, <1>21, <1>22, <1>23, <1>24, <1>25, <1>26, <1>27, <1>28, <1>29, <1>30
     DEF Next, LoopStep, LauncherStep

(* After a pause or a stop at most one cycle starts, in this loop and in   *)
(* every later one, however long the commands, failures, repairs and new   *)
(* launchers go on: as long as no resume message is pending and no cycle   *)
(* feeds the same-goal detector.                                           *)
THEOREM StopIsHonoured ==
  ASSUME "resume" \notin Messages, "execute" \notin Outcomes
  PROVE  Spec => []StopHonoured
<1>1. Init => IInv /\ StopInv
  BY Starts DEF Init, StopInv, NoLoop
<1>2. IInv /\ StopInv /\ [Next]_vars => (IInv /\ StopInv)'
  BY TypeStep, GuardStep, StopStep DEF IInv
<1>3. StopInv => StopHonoured
  BY DEF StopInv, StopHonoured
<1> QED
  BY <1>1, <1>2, <1>3, PTL DEF Spec

-----------------------------------------------------------------------------
(* A failed run is shown to the Doctor before the launcher ends.           *)

(* Once the launcher has seen the loop exit, either it goes to the Doctor, *)
(* or the last run did not fail and no loop is left to run another one.    *)
Shown ==
  launcher.result # "none" =>
    \/ launcher.pc \in {"doctor", "repair", "after"}
    \/ launcher.pc = "terminate" /\ launcher.pending
    \/ /\ launcher.pc \in {"terminate", "wait", "ended", "top"}
       /\ report # "failed"
       /\ loop.pc \in {"none", "exited"}

LEMMA StartsShown == Init => Shown
BY DEF Init, AtTop, Shown

(* A loop that takes a step has not been seen to exit, or the launcher is  *)
(* on its way to the Doctor, and the loop does not keep it.                *)
LEMMA LoopKeepsShown == ASSUME Shown, LoopStep PROVE Shown'
<1>1. launcher' = launcher
  BY DEF LoopStep, LoopOnly, LoopRelay, LoopRead, LoopIdle, LoopStart, LoopSelect, LoopWork,
         LoopRecordRead, LoopRecordWrite, LoopDone, LoopAsk, LoopFailed, LoopRetry
<1>2. loop.pc \notin {"none", "exited"}
  BY DEF LoopStep, LoopRelay, LoopRead, LoopIdle, LoopStart, LoopSelect, LoopWork,
         LoopRecordRead, LoopRecordWrite, LoopDone, LoopAsk, LoopFailed, LoopRetry
<1> QED
  BY <1>1, <1>2 DEF Shown

LEMMA ShownStep == ASSUME TypeOK, Shown, [Next]_vars PROVE Shown'
<1>1. launcher \in Launchers
  BY Zenon, TypedCounted DEF Typed
<1>2. CASE UNCHANGED vars
  BY <1>2 DEF vars, Shown
<1>3. CASE LoopStep
  BY <1>3, LoopKeepsShown
<1>4. CASE LauncherTop
  BY <1>1, <1>4 DEF LauncherTop, At, AtTop, Launchers, Shown
<1>5. CASE LauncherClaimSeen
  BY <1>1, <1>5 DEF LauncherClaimSeen, Launchers, Shown
<1>6. CASE LauncherStatusGone
  BY <1>1, <1>6 DEF LauncherStatusGone, At, Launchers, Shown
<1>7. CASE LauncherLoopGone
  BY <1>1, <1>7 DEF LauncherLoopGone, Launchers, Shown
<1>8. CASE LauncherStalled
  BY <1>1, <1>8 DEF LauncherStalled, Launchers, Shown
<1>9. CASE LauncherTerminate
  BY <1>1, <1>9 DEF LauncherTerminate, At, NoLoop, Launchers, Shown
<1>10. CASE LauncherWait
  BY <1>1, <1>10 DEF LauncherWait, At, Launchers, Shown
<1>11. CASE DoctorRead
  BY <1>1, <1>11 DEF DoctorRead, At, Launchers, Shown
<1>12. CASE DoctorWrite
  BY <1>12 DEF DoctorWrite, LauncherOnly, Shown
<1>13. CASE DoctorEnd
  BY <1>1, <1>13 DEF DoctorEnd, At, Launchers, Shown
<1>14. CASE DoctorDies
  BY <1>1, <1>14 DEF DoctorDies, At, Launchers, Shown
<1>15. CASE LauncherAfter
  BY <1>15 DEF LauncherAfter, AtTop, Shown
<1>16. CASE LauncherStart
  BY <1>16 DEF LauncherStart, AtTop, Shown
<1>17. CASE LauncherInterrupt
  BY <1>1, <1>17 DEF LauncherInterrupt, Launchers, Shown
<1>18. CASE \E mode \in Modes : Operate(mode)
  BY <1>18 DEF Operate, Shown
<1>19. CASE \E message \in Messages : Send(message)
  BY <1>19 DEF Send, Shown
<1> QED
  BY <1>2, <1>3, <1>4, <1>5, <1>6, <1>7, <1>8, <1>9, <1>10, <1>11, <1>12, <1>13, <1>14, <1>15,
     <1>16, <1>17, <1>18, <1>19 DEF Next, LauncherStep

(* The launcher does not end, or wait for the owner, on the exit of a loop *)
(* whose last run failed and was not shown to the Doctor.                  *)
THEOREM FailureGoesToDoctor == Spec => []FailureIsRepaired
<1>1. IInv /\ [Next]_vars => IInv'
  BY TypeStep, GuardStep DEF IInv
<1>2. IInv /\ Shown /\ [Next]_vars => Shown'
  BY ShownStep DEF IInv
<1>3. Shown => FailureIsRepaired
  BY DEF Shown, FailureIsRepaired
<1> QED
  BY Starts, StartsShown, <1>1, <1>2, <1>3, PTL DEF Spec
=============================================================================
