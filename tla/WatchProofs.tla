----------------------------- MODULE WatchProofs -----------------------------
(***************************************************************************)
(* Proofs about the watch and about what it delivers: that its passes are  *)
(* runs of the commands of Delivery, that an item is delivered as WorkItem *)
(* promises, and how often an item is tried.                               *)
(***************************************************************************)
EXTENDS Watch, DeliveryProofs, FiniteSetTheorems, WellFoundedInduction

-----------------------------------------------------------------------------
(* The stage of an item.                                                   *)

(* An item that names a run was completed by it, and stays completed.      *)
Honest ==
  \A i \in Items : backlog[i].run # 0 =>
    i \in Completed /\ runs[backlog[i].run].item = i

(* Nobody sets an item aside that is completed, nor completes one that was *)
(* set aside.                                                              *)
UnracedBy(a) ==
  /\ act[a].pc \in Shelving => backlog[act[a].item].run = 0
  /\ act[a].pc \in Transition => backlog[act[a].item].auto
Unraced == \A a \in Actors : UnracedBy(a)

(* While one command sets an item aside no other is at work.               *)
Alone == \A a, b \in Actors : act[a].pc \in Shelving /\ b # a => act[b].pc = "idle"

Whole == Basic /\ Clean /\ Delivered /\ InOrder

LEMMA StageOf ==
  ASSUME Whole, Honest, NEW i \in Items
  PROVE  Stage[i] = IF backlog[i].run = 0 THEN (IF backlog[i].auto THEN "open" ELSE "shelved")
                    ELSE IF Product(backlog[i].run) \in remote THEN "integrated"
                    ELSE IF Product(backlog[i].run) \in local THEN "committed" ELSE "accepted"
<1> DEFINE k == backlog[i].run
<1>1. k \in Runs \cup {0} /\ (k = 0 <=> i \notin Completed)
  BY Numbers DEF Whole, Basic, Typed, Files, Honest, Delivered, FilesSound, FileSound, Completed
<1>2. Product(0) \notin Commits
  <2>1. "product" # "merge" /\ 0 \notin Runs
    BY Numbers
  <2>2. \A j : Product(0) = Product(j) => j = 0
    BY DEF Product
  <2>3. \A l : Product(0) # MergeOf(l)
    BY <2>1 DEF Product, MergeOf
  <2> QED
    BY <2>1, <2>2, <2>3 DEF Commits
<1>3. Product(0) \notin local \cup remote
  BY <1>2 DEF Whole, Basic, Typed
<1>4. k \in Runs => (Product(k) \in remote => Product(k) \in local)
  BY DEF Whole, Delivered, CommitsSound, CommitSound
<1>5. CASE k = 0
  BY <1>1, <1>3, <1>5 DEF Stage
<1>6. CASE k # 0
  BY <1>1, <1>4, <1>6 DEF Stage
<1> QED
  BY <1>5, <1>6


-----------------------------------------------------------------------------
(* Who moves whom.                                                         *)

(* A command is at the shelf because it was, or because it begins there,   *)
(* with an item that is not completed.                                     *)
LEMMA ToTheShelf ==
  ASSUME Whole, Honest, [Next]_vars, NEW a \in Actors, act'[a].pc \in Shelving
  PROVE  \/ act[a].pc \in Shelving /\ act'[a].item = act[a].item
         \/ /\ act[a].pc = "idle" /\ "shelve" \in Jobs[a] /\ backlog' = backlog
            /\ act'[a].item \in Items /\ backlog[act'[a].item].run = 0
<1> USE DEF Whole
<1>1. CASE UNCHANGED vars
  BY <1>1 DEF vars
<1>2. ASSUME NEW b \in Actors, Others(b), act'[b].pc \notin Shelving
      PROVE  act[a].pc \in Shelving /\ act'[a].item = act[a].item
  BY <1>2 DEF Others, Kept
<1>3. ASSUME NEW b \in Actors, Begin(b), ~\E i \in Items, to \in {"blocked", "manual-review"} : BeginShelve(b, i, to)
      PROVE  Others(b) /\ act'[b].pc \notin Shelving
  <2>1. ASSUME NEW i \in Items, NEW job \in Transactions, BeginTransaction(b, i, job)
        PROVE  Others(b) /\ act'[b].pc \notin Shelving
    BY <2>1, BeginTransactionBegins DEF Shelving
  <2> QED
    BY <1>3, <2>1, BeginCompleteBegins, BeginCommitBegins, BeginMergeBegins, BeginPushBaseBegins,
       BeginRetryBegins, RecoverBegins DEF Begin, Begins, Shelving
<1>4. ASSUME NEW b \in Actors, NEW i \in Items, NEW to \in {"blocked", "manual-review"}, BeginShelve(b, i, to)
      PROVE  \/ act[a].pc \in Shelving /\ act'[a].item = act[a].item
             \/ /\ act[a].pc = "idle" /\ "shelve" \in Jobs[a] /\ backlog' = backlog
                /\ act'[a].item \in Items /\ backlog[act'[a].item].run = 0
  <2>1. Others(b) /\ act[b].pc = "idle"
    BY <1>4, BeginShelveBegins
  <2>2. CASE a # b
    BY <2>1, <2>2 DEF Others, Kept
  <2>3. CASE a = b
    <3> DEFINE d == [Task(to, "shelve", i, 0) EXCEPT !.from = backlog[i].dir]
    <3>1. d.item = i /\ Launch(b, d)
      BY <1>4 DEF BeginShelve, Task, Idle
    <3> HIDE DEF d
    <3>2. act'[b] = d
      BY <3>1 DEF Launch, Basic, Typed, Acts
    <3>3. backlog[i].run = 0 /\ backlog' = backlog /\ "shelve" \in Jobs[b]
      BY <1>4 DEF BeginShelve, Honest, Completed
    <3> QED
      BY <2>1, <2>3, <3>1, <3>2, <3>3
  <2> QED
    BY <2>2, <2>3
<1>5. ASSUME NEW b \in Actors, ShelveMove(b) \/ ShelveMeta(b)
      PROVE  act[a].pc \in Shelving /\ act'[a].item = act[a].item
  <2>1. Acts
    BY DEF Basic, Typed
  <2>2. act[b].pc \in Shelving /\ Others(b) /\ act'[b].item = act[b].item
    BY <1>5, <2>1, ShelveMoveMoves, ShelveMetaMoves DEF Moves, Shelving
  <2> QED
    BY <2>2 DEF Others, Kept
<1>6. ASSUME NEW b \in Actors, Continue(b), ~ShelveMove(b), ~ShelveMeta(b)
      PROVE  Others(b) /\ act'[b].pc \notin Shelving
  <2>1. Acts
    BY DEF Basic, Typed
  <2>2. CASE RunLock(b) \/ RunVerify(b) \/ RunLane(b) \/ RunPost(b) \/ CompleteCheck(b) \/
             CompleteMove(b) \/ CompleteMeta(b)
    BY <2>1, <2>2, RunLockMoves, RunVerifyMoves, RunLaneMoves, RunPostMoves,
       CompleteCheckMoves, CompleteMoveMoves, CompleteMetaMoves DEF Moves, Shelving
  <2>3. CASE CommitCheck(b) \/ CommitDo(b) \/ CommitRecord(b) \/ Push(b) \/ Pr(b) \/ PrRecord(b)
    BY <2>1, <2>3, CommitCheckMoves, CommitDoMoves, CommitRecordMoves, PushMoves, PrMoves,
       PrRecordMoves DEF Moves, Shelving
  <2>4. CASE MergeView(b) \/ MergeDo(b) \/ Sync(b) \/ MergeRecord(b) \/ PushBase(b) \/
             PushRecord(b)
    BY <2>1, <2>4, MergeViewMoves, MergeDoMoves, SyncMoves, MergeRecordMoves, PushBaseMoves,
       PushRecordMoves DEF Moves, Shelving
  <2> QED
    BY <1>6, <2>2, <2>3, <2>4 DEF Continue
<1>7. ASSUME NEW b \in Actors, Finish(b) \/ Crash(b) PROVE Others(b) /\ act'[b].pc \notin Shelving
  BY <1>7, Cleared DEF Finish, Crash, Basic, Typed, Shelving
<1>8. CASE Environment
  BY <1>8, EnvironmentBasic
<1> QED
  BY <1>1, <1>2, <1>3, <1>4, <1>5, <1>6, <1>7, <1>8 DEF Next

(* A transition is of an item that was checked to be executable.           *)
LEMMA ToTheTransition ==
  ASSUME Whole, [Next]_vars, NEW a \in Actors, act'[a].pc \in Transition
  PROVE  \/ act[a].pc \in Transition /\ act'[a].item = act[a].item
         \/ act'[a].item \in Items /\ Executable(act'[a].item) /\ backlog' = backlog
<1> USE DEF Whole
<1>1. CASE UNCHANGED vars
  BY <1>1 DEF vars
<1>2. ASSUME NEW b \in Actors, Others(b), act'[b].pc \notin Transition
      PROVE  act[a].pc \in Transition /\ act'[a].item = act[a].item
  BY <1>2 DEF Others, Kept
<1>3. ASSUME NEW b \in Actors, Others(b), a # b
      PROVE  act[a].pc \in Transition /\ act'[a].item = act[a].item
  BY <1>3 DEF Others, Kept
<1>4. ASSUME NEW b \in Actors, Begin(b), ~\E k \in Runs : BeginComplete(b, k)
      PROVE  Others(b) /\ act'[b].pc \notin Transition
  <2>1. ASSUME NEW i \in Items, NEW job \in Transactions, BeginTransaction(b, i, job)
        PROVE  Others(b) /\ act'[b].pc \notin Transition
    BY <2>1, BeginTransactionBegins DEF Transition
  <2>2. ASSUME NEW i \in Items, NEW to \in {"blocked", "manual-review"}, BeginShelve(b, i, to)
        PROVE  Others(b) /\ act'[b].pc \notin Transition
    BY <2>2, BeginShelveBegins DEF Transition
  <2> QED
    BY <1>4, <2>1, <2>2, BeginCommitBegins, BeginMergeBegins, BeginPushBaseBegins,
       BeginRetryBegins, RecoverBegins DEF Begin, Begins, Transition
<1>5. ASSUME NEW b \in Actors, NEW k \in Runs, BeginComplete(b, k)
      PROVE  Others(b) /\ act'[b].item \in Items /\ Executable(act'[b].item) /\ backlog' = backlog
  <2>1. Begins(b, "move", "finish", runs[k].item, k)
    BY <1>5, BeginCompleteBegins
  <2>2. runs[k].item \in Items /\ Executable(runs[k].item) /\ backlog' = backlog
    BY <1>5 DEF BeginComplete, MayComplete, DiffMatches, Basic, Named
  <2> QED
    BY <2>1, <2>2 DEF Begins
<1>6. ASSUME NEW b \in Actors, CompleteCheck(b) \/ CompleteMove(b) \/ CompleteMeta(b)
      PROVE  /\ Others(b)
             /\ \/ act'[b].pc \notin Transition
                \/ act[b].pc \in Transition /\ act'[b].item = act[b].item
                \/ act'[b].item \in Items /\ Executable(act'[b].item) /\ backlog' = backlog
  <2>1. Acts
    BY DEF Basic, Typed
  <2>2. CASE CompleteMove(b) \/ CompleteMeta(b)
    BY <2>1, <2>2, CompleteMoveMoves, CompleteMetaMoves DEF Moves, Transition
  <2>3. CASE CompleteCheck(b) /\ act'[b].pc \in Transition
    <3>1. Moves(b, "move") /\ MayComplete(act[b].run) /\ Works(b)
      BY <2>1, <2>3, CompleteCheckMoves, Stand DEF Moves, Transition, Basic, Standing
    <3> QED
      BY <2>3, <3>1 DEF MayComplete, Moves, Works, CompleteCheck
  <2>4. CASE CompleteCheck(b) /\ act'[b].pc \notin Transition
    BY <2>1, <2>4, CompleteCheckMoves DEF Moves
  <2> QED
    BY <1>6, <2>2, <2>3, <2>4
<1>7. ASSUME NEW b \in Actors, Continue(b), ~CompleteCheck(b), ~CompleteMove(b), ~CompleteMeta(b)
      PROVE  Others(b) /\ act'[b].pc \notin Transition
  <2>1. Acts
    BY DEF Basic, Typed
  <2>2. CASE RunLock(b) \/ RunVerify(b) \/ RunLane(b) \/ RunPost(b) \/ ShelveMove(b) \/
             ShelveMeta(b)
    BY <2>1, <2>2, RunLockMoves, RunVerifyMoves, RunLaneMoves, RunPostMoves,
       ShelveMoveMoves, ShelveMetaMoves DEF Moves, Transition
  <2>3. CASE CommitCheck(b) \/ CommitDo(b) \/ CommitRecord(b) \/ Push(b) \/ Pr(b) \/ PrRecord(b)
    BY <2>1, <2>3, CommitCheckMoves, CommitDoMoves, CommitRecordMoves, PushMoves, PrMoves,
       PrRecordMoves DEF Moves, Transition
  <2>4. CASE MergeView(b) \/ MergeDo(b) \/ Sync(b) \/ MergeRecord(b) \/ PushBase(b) \/
             PushRecord(b)
    BY <2>1, <2>4, MergeViewMoves, MergeDoMoves, SyncMoves, MergeRecordMoves, PushBaseMoves,
       PushRecordMoves DEF Moves, Transition
  <2> QED
    BY <1>7, <2>2, <2>3, <2>4 DEF Continue
<1>8. ASSUME NEW b \in Actors, Finish(b) \/ Crash(b) PROVE Others(b) /\ act'[b].pc \notin Transition
  BY <1>8, Cleared DEF Finish, Crash, Basic, Typed, Transition
<1>9. CASE Environment
  BY <1>9, EnvironmentBasic
<1>10. ASSUME NEW b \in Actors, Begin(b)
       PROVE  \/ act[a].pc \in Transition /\ act'[a].item = act[a].item
              \/ act'[a].item \in Items /\ Executable(act'[a].item) /\ backlog' = backlog
  BY <1>2, <1>3, <1>4, <1>5, <1>10
<1>11. ASSUME NEW b \in Actors, Continue(b)
       PROVE  \/ act[a].pc \in Transition /\ act'[a].item = act[a].item
              \/ act'[a].item \in Items /\ Executable(act'[a].item) /\ backlog' = backlog
  BY <1>2, <1>3, <1>6, <1>7, <1>11
<1> QED
  BY <1>1, <1>2, <1>8, <1>9, <1>10, <1>11 DEF Next

-----------------------------------------------------------------------------
(* Completions and shelves do not meet.                                    *)

LEMMA HonestNext ==
  ASSUME Whole, Honest, Unraced, [Next]_vars
  PROVE  Honest'
<1> SUFFICES ASSUME NEW i \in Items, backlog'[i].run # 0
             PROVE  i \in Completed' /\ runs'[backlog'[i].run].item = i
  BY DEF Honest
<1>1. backlog \in [Items -> Files]
  BY DEF Whole, Basic, Typed
<1>2. ASSUME backlog[i].run # 0
      PROVE  /\ i \in Completed /\ backlog[i].run \in Runs /\ backlog'[i].run = backlog[i].run
             /\ runs'[backlog'[i].run].item = i
  <2>1. i \in Completed /\ backlog[i].run \in Runs /\ runs[backlog[i].run].item = i
    BY <1>1, <1>2, Numbers DEF Honest, Files
  <2>2. backlog'[i].run = backlog[i].run
    BY <1>2, CompletersKept DEF Whole
  <2> QED
    BY <2>1, <2>2, RunsStart, Numbers DEF Whole
<1>3. CASE backlog' = backlog
  BY <1>2, <1>3 DEF Completed
<1>4. ASSUME NEW a \in Actors, CompleteMove(a) \/ ShelveMove(a)
      PROVE  i \in Completed' /\ runs'[backlog'[i].run].item = i
  <2>1. /\ backlog'[i].run = backlog[i].run /\ backlog'[i].status = backlog[i].status
        /\ backlog[i].dir # "none" => backlog'[i].dir # "none"
    BY <1>1, <1>4 DEF CompleteMove, ShelveMove, ShelfOf, Files
  <2> QED
    BY <1>2, <2>1 DEF Completed
<1>5. ASSUME NEW a \in Actors, CompleteMeta(a)
      PROVE  i \in Completed' /\ runs'[backlog'[i].run].item = i
  <2>1. Works(a) /\ runs' = runs
    BY <1>5, Stand DEF Whole, Basic, CompleteMeta, Standing
  <2>2. CASE act[a].item = i /\ backlog[i].dir = "completed"
    BY <1>1, <1>5, <2>1, <2>2 DEF CompleteMeta, Completed, Works, Files
  <2>3. CASE ~(act[a].item = i /\ backlog[i].dir = "completed")
    <3>1. backlog'[i] = backlog[i]
      BY <1>1, <1>5, <2>1, <2>3 DEF CompleteMeta, Works
    <3> QED
      BY <1>2, <3>1 DEF Completed
  <2> QED
    BY <2>2, <2>3
<1>6. ASSUME NEW a \in Actors, ShelveMeta(a)
      PROVE  i \in Completed' /\ runs'[backlog'[i].run].item = i
  <2>1. backlog[act[a].item].run = 0
    BY <1>6 DEF ShelveMeta, Shelving, Unraced, UnracedBy
  <2>2. backlog[i].run # 0 /\ (backlog[i].run # 0 => backlog'[i] = backlog[i])
    BY <1>1, <1>6, <2>1 DEF ShelveMeta, Files
  <2> QED
    BY <1>2, <2>2 DEF Completed
<1>7. ASSUME NEW j \in Items, Refill(j)
      PROVE  i \in Completed' /\ runs'[backlog'[i].run].item = i
  <2>1. /\ backlog'[i].run = backlog[i].run /\ backlog'[i].status = backlog[i].status
        /\ backlog[i].dir # "none" => backlog'[i].dir # "none"
    BY <1>1, <1>7 DEF Refill, Files
  <2> QED
    BY <1>2, <2>1 DEF Completed
<1> QED
  BY <1>3, <1>4, <1>5, <1>6, <1>7, BacklogSteps DEF FileStep

LEMMA UnracedNext ==
  ASSUME Whole, Honest, Unraced, Alone, [Next]_vars
  PROVE  Unraced'
<1> SUFFICES ASSUME NEW a \in Actors PROVE UnracedBy(a)'
  BY DEF Unraced
<1>1. backlog \in [Items -> Files]
  BY DEF Whole, Basic, Typed
<1>2. ASSUME NEW i \in Items, backlog'[i].run # backlog[i].run
      PROVE  \E b \in Actors : act[b].pc = "meta"
  <2>1. \A b \in Actors : ~CompleteMove(b) /\ ~ShelveMove(b) /\ ~ShelveMeta(b)
    BY <1>1, <1>2 DEF CompleteMove, ShelveMove, ShelveMeta, Files
  <2>2. \A j \in Items : ~Refill(j)
    BY <1>1, <1>2 DEF Refill, Files
  <2> QED
    BY <1>2, <2>1, <2>2, BacklogSteps DEF FileStep, CompleteMeta
<1>3. ASSUME NEW i \in Items, backlog'[i].auto # backlog[i].auto
      PROVE  \E b \in Actors : act[b].pc = "label"
  <2>1. \A b \in Actors : ~CompleteMove(b) /\ ~CompleteMeta(b) /\ ~ShelveMove(b)
    BY <1>1, <1>3 DEF CompleteMove, CompleteMeta, ShelveMove, Files
  <2>2. \A j \in Items : ~Refill(j)
    BY <1>1, <1>3 DEF Refill, Files
  <2> QED
    BY <1>3, <2>1, <2>2, BacklogSteps DEF FileStep, ShelveMeta
<1>4. ASSUME act'[a].pc \in Shelving PROVE backlog'[act'[a].item].run = 0
  <2>1. CASE act[a].pc \in Shelving /\ act'[a].item = act[a].item
    <3>1. act[a].item \in Items /\ backlog[act[a].item].run = 0
      BY <2>1 DEF Unraced, UnracedBy, Whole, Basic, Known, KnownBy
    <3>2. \A b \in Actors : act[b].pc # "meta"
      BY <2>1 DEF Alone, Shelving
    <3> QED
      BY <1>2, <2>1, <3>1, <3>2
  <2> QED
    BY <1>4, <2>1, ToTheShelf
<1>5. ASSUME act'[a].pc \in Transition PROVE backlog'[act'[a].item].auto
  <2>1. CASE act[a].pc \in Transition /\ act'[a].item = act[a].item
    <3>1. act[a].item \in Items /\ backlog[act[a].item].auto
      BY <2>1, Stand DEF Unraced, UnracedBy, Whole, Basic, Transition, Standing, Works
    <3>2. \A b \in Actors : act[b].pc # "label"
      BY <2>1 DEF Alone, Shelving, Transition
    <3> QED
      BY <1>3, <2>1, <3>1, <3>2
  <2> QED
    BY <1>5, <2>1, ToTheTransition DEF Executable
<1> QED
  BY <1>4, <1>5 DEF UnracedBy

-----------------------------------------------------------------------------
(* The steps of WorkItem.                                                  *)


StageIs ==
  \A i \in Items :
    Stage[i] = IF backlog[i].run = 0 THEN (IF backlog[i].auto THEN "open" ELSE "shelved")
               ELSE IF Product(backlog[i].run) \in remote THEN "integrated"
               ELSE IF Product(backlog[i].run) \in local THEN "committed" ELSE "accepted"

LEMMA Staged == Whole /\ Honest => StageIs
BY StageOf DEF StageIs

LEMMA StagedNext == Whole' /\ Honest' => StageIs'
BY Staged, PTL

StageMaps == Stage = [i \in Items |-> Stage[i]]
LEMMA Mapped == StageMaps
<1> DEFINE F(i) == Stage[i]
           G(i) == LET k == backlog[i].run IN
                   CASE k # 0 /\ Product(k) \in remote -> "integrated"
                     [] k # 0 /\ Product(k) \in local \ remote -> "committed"
                     [] i \in Completed /\ Product(k) \notin local \cup remote -> "accepted"
                     [] i \notin Completed /\ Product(k) \notin local \cup remote ->
                          IF backlog[i].auto THEN "open" ELSE "shelved"
<1>1. Stage = [i \in Items |-> G(i)]
  BY DEF Stage
<1> HIDE DEF G
<1> QED
  BY <1>1 DEF StageMaps

LEMMA MappedNext == StageMaps'
BY Mapped, PTL

LEMMA Unmoved ==
  ASSUME \A i \in Items : Stage'[i] = Stage[i]
  PROVE  Stage' = Stage
BY Mapped, MappedNext DEF StageMaps

LEMMA SetTo ==
  ASSUME NEW S, NEW s, \A i \in Items : Stage'[i] = IF i \in S THEN s ELSE Stage[i]
  PROVE  W!Set(S, s)
BY MappedNext DEF StageMaps, W!Set

(* The items a run builds on have their commits in the local base.         *)
LEMMA NeedsCommitted ==
  ASSUME Whole, Honest, NEW k \in Runs, runs[k].item \in Items
  PROVE  Depends[runs[k].item] \subseteq W!In({"committed", "integrated"})
<1> SUFFICES ASSUME NEW d \in Depends[runs[k].item] PROVE d \in W!In({"committed", "integrated"})
  OBVIOUS
<1>1. d \in Items /\ backlog[d].run \in Runs /\ Product(backlog[d].run) \in local
  BY DeliveryAssumption DEF DeliveryAssumption, Whole, InOrder, Rooted
<1>2. Stage[d] \in {"committed", "integrated"}
  BY <1>1, Staged, Numbers DEF StageIs
<1> QED
  BY <1>1, <1>2 DEF W!In

LEMMA CompleteMetaPromised ==
  ASSUME Whole, Honest, Unraced, Whole', Honest', NEW a \in Actors, CompleteMeta(a)
  PROVE  [W!Next]_Stage
<1>1. backlog \in [Items -> Files] /\ act[a].pc \in Transition /\ UNCHANGED <<runs, local, remote>>
  BY DEF Whole, Basic, Typed, CompleteMeta, Transition, product, origin
<1>2. PICK i \in Items, k \in Runs : act[a].item = i /\ act[a].run = k /\ runs[k].item = i
  BY <1>1, Stand DEF Whole, Basic, Transition, Standing, Works
<1>3. StageIs /\ StageIs'
  BY Staged, StagedNext
<1>4. \A j \in Items \ {i} : backlog'[j] = backlog[j]
  BY <1>1, <1>2 DEF CompleteMeta
<1>5. \A j \in Items \ {i} : Stage'[j] = Stage[j]
  BY <1>1, <1>3, <1>4 DEF StageIs
<1>6. CASE backlog'[i].run = backlog[i].run /\ backlog'[i].auto = backlog[i].auto
  <2>1. Stage'[i] = Stage[i]
    BY <1>1, <1>3, <1>6 DEF StageIs
  <2> QED
    BY <1>5, <2>1, Unmoved
<1>7. CASE ~(backlog'[i].run = backlog[i].run /\ backlog'[i].auto = backlog[i].auto)
  <2>1. backlog'[i].run = k /\ backlog[i].run # k
    BY <1>1, <1>2, <1>7 DEF CompleteMeta, Files
  <2>2. backlog[i].run = 0
    BY <1>1, <1>2, <2>1 DEF Whole, Delivered, MovesSound, MoveSound
  <2>3. backlog[i].auto
    BY <1>1, <1>2 DEF Unraced, UnracedBy
  <2>4. Product(k) \notin local \cup remote
    BY <1>1, <1>2, <2>1 DEF Whole, Delivered, CommitsSound, CommitSound
  <2>5. Stage[i] = "open" /\ Stage'[i] = "accepted"
    BY <1>1, <1>3, <2>1, <2>2, <2>3, <2>4, Numbers DEF StageIs
  <2>6. W!Set({i}, "accepted")
    BY <1>5, <2>5, SetTo
  <2>7. W!Accept(i)
    <3>1. Depends[i] \subseteq W!In({"committed", "integrated"})
      BY <1>2, NeedsCommitted
    <3>2. W!In({"committed", "integrated"}) \subseteq W!In({"accepted", "committed", "integrated"})
      BY DEF W!In
    <3> QED
      BY <2>5, <2>6, <3>1, <3>2 DEF W!Accept, W!In
  <2> QED
    BY <2>7 DEF W!Next
<1> QED
  BY <1>6, <1>7

LEMMA CommitDoPromised ==
  ASSUME Whole, Honest, Whole', Honest', NEW a \in Actors, CommitDo(a)
  PROVE  [W!Next]_Stage
<1>1. backlog \in [Items -> Files] /\ act[a].pc = "commit" /\ UNCHANGED <<backlog, runs, remote>>
  BY DEF Whole, Basic, Typed, CommitDo, origin
<1>2. PICK i \in Items, k \in Runs : act[a].item = i /\ act[a].run = k /\ runs[k].item = i
  BY <1>1, Stand DEF Whole, Basic, Standing, Works
<1>3. StageIs /\ StageIs'
  BY Staged, StagedNext
<1>4. \/ local' = local
      \/ local' = local \cup {Product(k)}
  BY <1>2 DEF CommitDo, product
<1>5. backlog[i].run = k
  BY <1>1, <1>2 DEF Whole, Delivered, MovesSound, MoveSound
<1>6. ASSUME NEW j \in Items \ {i} PROVE Stage'[j] = Stage[j]
  <2>1. CASE backlog[j].run = 0
    BY <1>1, <1>3, <2>1 DEF StageIs
  <2>2. CASE backlog[j].run # 0
    <3>1. backlog[j].run \in Runs /\ backlog[j].run # k
      BY <1>1, <1>2, <2>2, Numbers DEF Honest, Files
    <3>2. Product(backlog[j].run) \in local' <=> Product(backlog[j].run) \in local
      BY <1>4, <3>1, Distinct
    <3> QED
      BY <1>1, <1>3, <2>2, <3>2 DEF StageIs
  <2> QED
    BY <2>1, <2>2
<1>7. CASE Product(k) \in local \/ local' = local
  <2>1. local' = local
    BY <1>4, <1>7
  <2>2. Stage'[i] = Stage[i]
    BY <1>1, <1>3, <2>1 DEF StageIs
  <2> QED
    BY <1>6, <2>2, Unmoved
<1>8. CASE Product(k) \notin local /\ local' = local \cup {Product(k)}
  <2>1. Product(k) \notin remote
    BY <1>8 DEF Whole, Delivered, CommitsSound, CommitSound
  <2>2. Stage[i] = "accepted" /\ Stage'[i] = "committed"
    BY <1>1, <1>3, <1>5, <1>8, <2>1, Numbers DEF StageIs
  <2>3. W!Set({i}, "committed")
    BY <1>6, <2>2, SetTo
  <2>4. W!Commit(i)
    BY <1>2, <2>2, <2>3, NeedsCommitted DEF W!Commit, W!In
  <2> QED
    BY <2>4 DEF W!Next
<1> QED
  BY <1>4, <1>7, <1>8

(* What the origin gets it has from the local base, in order.              *)
LEMMA OriginPromised ==
  ASSUME Whole, Honest, Whole', Honest', UNCHANGED <<backlog, runs, local>>, remote \subseteq remote'
  PROVE  [W!Next]_Stage
<1> DEFINE S == {i \in Items : backlog[i].run # 0 /\ Product(backlog[i].run) \in remote' \ remote}
<1>1. StageIs /\ StageIs'
  BY Staged, StagedNext
<1>2. backlog \in [Items -> Files]
  BY DEF Whole, Basic, Typed
<1>3. \A i \in Items : Stage'[i] = IF i \in S THEN "integrated" ELSE Stage[i]
  BY <1>1 DEF StageIs
<1>4. CASE S = {}
  BY <1>3, <1>4, Unmoved
<1>5. CASE S # {}
  <2>1. ASSUME NEW i \in S
        PROVE  /\ backlog[i].run \in Runs /\ Product(backlog[i].run) \in local
               /\ runs[backlog[i].run].item = i /\ Product(backlog[i].run) \in remote'
    <3>1. backlog[i].run \in Runs
      BY <1>2, Numbers DEF Files
    <3>2. Product(backlog[i].run) \in local'
      BY <3>1 DEF Whole, Delivered, CommitsSound, CommitSound
    <3> QED
      BY <3>1, <3>2 DEF Honest
  <2>2. S \subseteq W!In({"committed"})
    BY <1>1, <2>1, Numbers DEF StageIs, W!In
  <2>3. ASSUME NEW i \in S, NEW d \in Depends[i] PROVE d \in W!In({"integrated"}) \cup S
    <3>1. d \in Items /\ backlog[d].run \in Runs
      BY <2>1, DeliveryAssumption DEF DeliveryAssumption, Whole, InOrder, Rooted
    <3>2. Closed(remote)'
      BY DEF Whole, InOrder
    <3>3. Product(backlog[d].run) \in remote'
      BY <2>1, <3>2 DEF Closed
    <3>4. CASE Product(backlog[d].run) \in remote
      BY <1>1, <3>1, <3>4, Numbers DEF StageIs, W!In
    <3>5. CASE Product(backlog[d].run) \notin remote
      BY <3>1, <3>3, <3>5, Numbers
    <3> QED
      BY <3>4, <3>5
  <2> HIDE DEF S
  <2>4. W!Set(S, "integrated")
    BY <1>3, SetTo
  <2>5. W!Integrate(S)
    BY <1>5, <2>2, <2>3, <2>4 DEF W!Integrate
  <2>6. S \in SUBSET Items
    BY DEF S
  <2> QED
    BY <2>5, <2>6 DEF W!Next
<1> QED
  BY <1>4, <1>5

LEMMA ShelveMetaPromised ==
  ASSUME Whole, Honest, Unraced, Whole', Honest', NEW a \in Actors, ShelveMeta(a)
  PROVE  [W!Next]_Stage
<1>1. backlog \in [Items -> Files] /\ act[a].pc \in Shelving /\ UNCHANGED <<runs, local, remote>>
  BY DEF Whole, Basic, Typed, ShelveMeta, Shelving, product, origin
<1>2. PICK i \in Items : act[a].item = i
  BY <1>1 DEF Whole, Basic, Known, KnownBy
<1>3. StageIs /\ StageIs'
  BY Staged, StagedNext
<1>4. \A j \in Items \ {i} : backlog'[j] = backlog[j]
  BY <1>1, <1>2 DEF ShelveMeta
<1>5. \A j \in Items \ {i} : Stage'[j] = Stage[j]
  BY <1>1, <1>3, <1>4 DEF StageIs
<1>6. backlog[i].run = 0 /\ backlog'[i].run = 0 /\ (backlog'[i].auto => backlog[i].auto)
  BY <1>1, <1>2 DEF Unraced, UnracedBy, ShelveMeta, Files
<1>7. CASE backlog'[i].auto = backlog[i].auto
  <2>1. Stage'[i] = Stage[i]
    BY <1>3, <1>6, <1>7 DEF StageIs
  <2> QED
    BY <1>5, <2>1, Unmoved
<1>8. CASE backlog[i].auto /\ ~backlog'[i].auto
  <2>1. Stage[i] = "open" /\ Stage'[i] = "shelved"
    BY <1>3, <1>6, <1>8 DEF StageIs
  <2>2. W!Set({i}, "shelved")
    BY <1>5, <2>1, SetTo
  <2>3. W!Shelve(i)
    BY <2>1, <2>2 DEF W!Shelve, W!In
  <2> QED
    BY <2>3 DEF W!Next
<1>9. backlog[i].auto \in BOOLEAN /\ backlog'[i].auto \in BOOLEAN
  BY DEF Whole, Basic, Typed, Files
<1> QED
  BY <1>6, <1>7, <1>8, <1>9

(* Steps that neither complete nor shelve, commit or publish.              *)
LEMMA NothingPromised ==
  ASSUME Whole, Honest, Whole', Honest', remote' = remote,
         \A i \in Items : backlog'[i].run = backlog[i].run /\ backlog'[i].auto = backlog[i].auto,
         \A k \in Runs : Product(k) \in local' <=> Product(k) \in local
  PROVE  [W!Next]_Stage
<1>1. StageIs /\ StageIs'
  BY Staged, StagedNext
<1>2. \A i \in Items : backlog[i].run # 0 => backlog[i].run \in Runs
  BY Numbers DEF Whole, Basic, Typed, Files
<1>3. \A i \in Items : Stage'[i] = Stage[i]
  BY <1>1, <1>2 DEF StageIs
<1> QED
  BY <1>3, Unmoved

LEMMA WholeInit == ASSUME Init PROVE Whole /\ Honest /\ Unraced
<1>1. Basic /\ Clean /\ Delivered /\ InOrder
  BY InitBasic, CleanInit, DeliveredInit, InOrderInit
<1>2. Honest
  BY DEF Init, Honest
<1>3. Unraced
  BY DEF Init, Unraced, UnracedBy, Idle, Shelving, Transition
<1> QED
  BY <1>1, <1>2, <1>3 DEF Whole

LEMMA WholeNext == ASSUME Whole, [Next]_vars PROVE Whole'
BY NextBasic, NextClean, NextDelivered, InOrderNext DEF Whole

LEMMA InitPromised == ASSUME Init PROVE W!Init
<1>1. StageIs
  BY WholeInit, Staged
<1>2. \A i \in Items : Stage[i] = "open"
  BY <1>1 DEF Init, StageIs
<1> QED
  BY <1>2, Mapped DEF StageMaps, W!Init

LEMMA ContinuePromised ==
  ASSUME Whole, Honest, Unraced, Whole', Honest', NEW a \in Actors, Continue(a)
  PROVE  [W!Next]_Stage
<1>1. backlog \in [Items -> Files] /\ [Next]_vars
  BY DEF Whole, Basic, Typed, Next
<1>2. CASE CompleteMeta(a)
  BY <1>2, CompleteMetaPromised
<1>3. CASE CommitDo(a)
  BY <1>3, CommitDoPromised
<1>4. CASE ShelveMeta(a)
  BY <1>4, ShelveMetaPromised
<1>5. CASE MergeDo(a) \/ PushBase(a)
  <2>1. UNCHANGED <<backlog, runs, local>>
    BY <1>5 DEF MergeDo, PushBase, product
  <2>2. remote \subseteq remote'
    BY <1>1, OriginTakes DEF Whole
  <2> QED
    BY <2>1, <2>2, OriginPromised
<1>6. CASE Sync(a)
  <2>1. backlog' = backlog /\ remote' = remote /\ local' \in {local, local \cup remote}
    BY <1>6 DEF Sync, origin
  <2>2. \A k \in Runs : Product(k) \in local' <=> Product(k) \in local
    BY <2>1 DEF Whole, Delivered, CommitsSound, CommitSound
  <2> QED
    BY <2>1, <2>2, NothingPromised
<1>7. CASE CompleteMove(a) \/ ShelveMove(a)
  <2>1. local' = local /\ remote' = remote
    BY <1>7 DEF CompleteMove, ShelveMove, product, origin
  <2>2. \A i \in Items : backlog'[i].run = backlog[i].run /\ backlog'[i].auto = backlog[i].auto
    BY <1>1, <1>7 DEF CompleteMove, ShelveMove, Files
  <2> QED
    BY <2>1, <2>2, NothingPromised
<1>8. CASE ~(\/ CompleteMeta(a) \/ CommitDo(a) \/ ShelveMeta(a) \/ MergeDo(a) \/ PushBase(a) \/ Sync(a)
            \/ CompleteMove(a) \/ ShelveMove(a))
  <2>1. backlog' = backlog /\ local' = local /\ remote' = remote
    BY <1>8 DEF Continue, RunLock, RunVerify, RunLane, RunPost, CompleteCheck, CommitCheck, CommitRecord,
       Push, Pr, PrRecord, MergeView, MergeRecord, PushRecord, product, origin
  <2> QED
    BY <2>1, NothingPromised
<1> QED
  BY <1>2, <1>3, <1>4, <1>5, <1>6, <1>7, <1>8

LEMMA NextPromised ==
  ASSUME Whole, Honest, Unraced, Whole', Honest', [Next]_vars
  PROVE  [W!Next]_Stage
<1>1. backlog \in [Items -> Files]
  BY DEF Whole, Basic, Typed
<1>2. ASSUME backlog' = backlog, local' = local, remote' = remote PROVE [W!Next]_Stage
  BY <1>2, NothingPromised
<1>3. CASE UNCHANGED vars
  BY <1>2, <1>3 DEF vars
<1>4. ASSUME NEW a \in Actors, Begin(a) PROVE [W!Next]_Stage
  BY <1>2, <1>4 DEF Begin, BeginTransaction, BeginComplete, Recover, BeginCommit, BeginMerge, BeginPushBase,
     BeginRetry, BeginShelve, product, origin
<1>5. ASSUME NEW a \in Actors, Finish(a) \/ Crash(a) PROVE [W!Next]_Stage
  BY <1>2, <1>5 DEF Finish, Crash, product, origin
<1>6. CASE ClearLock \/ Restore \/ LoseCreds \/ RestoreCreds \/ \E i \in Items : HumanClose(i)
  BY <1>2, <1>6 DEF ClearLock, Restore, LoseCreds, RestoreCreds, HumanClose, product, origin
<1>7. ASSUME NEW i \in Items, HumanMerge(i) PROVE [W!Next]_Stage
  <2>1. UNCHANGED <<backlog, runs, local>> /\ remote \subseteq remote'
    BY <1>7 DEF HumanMerge, Merged, product
  <2> QED
    BY <2>1, OriginPromised
<1>8. ASSUME NEW i \in Items, Refill(i) PROVE [W!Next]_Stage
  <2>1. \A j \in Items : backlog'[j].run = backlog[j].run /\ backlog'[j].auto = backlog[j].auto
    BY <1>1, <1>8 DEF Refill, Files
  <2> QED
    BY <1>8, <2>1, NothingPromised DEF Refill, product, origin
<1> QED
  BY <1>3, <1>4, <1>5, <1>6, <1>7, <1>8, ContinuePromised DEF Next, Environment

(* Where nobody sets items aside, commands that run at the same time, die  *)
(* and are taken up by others deliver every item as WorkItem promises.     *)
THEOREM DeliveryImplements ==
  ASSUME \A a \in Actors : "shelve" \notin Jobs[a]
  PROVE  Spec => ImplementsWorkItem
<1> DEFINE NoShelf == \A a \in Actors : act[a].pc \notin Shelving
           Inv == Whole /\ Honest /\ Unraced /\ NoShelf
<1>1. Init => Inv /\ W!Init
  <2>1. Init => NoShelf
    BY DEF Init, Idle, Shelving
  <2> QED
    BY <2>1, WholeInit, InitPromised
<1>2. Inv /\ [Next]_vars => Inv' /\ [W!Next]_Stage
  <2> SUFFICES ASSUME Inv, [Next]_vars PROVE Inv' /\ [W!Next]_Stage
    OBVIOUS
  <2>1. Whole'
    BY WholeNext
  <2>2. Alone
    BY DEF Alone
  <2>3. Honest' /\ Unraced'
    BY <2>2, HonestNext, UnracedNext
  <2>4. NoShelf'
    BY ToTheShelf
  <2>5. [W!Next]_Stage
    BY <2>1, <2>3, NextPromised
  <2> QED
    BY <2>1, <2>3, <2>4, <2>5
<1>3. Spec => W!Spec
  BY <1>1, <1>2, PTL DEF Spec, W!Spec
<1> QED
  BY <1>3 DEF ImplementsWorkItem

-----------------------------------------------------------------------------
(* Least and greatest elements.                                            *)

LEMMA MinIn ==
  ASSUME NEW S \in SUBSET Nat, S # {}
  PROVE  Min(S) \in S /\ \A y \in S : Min(S) <= y
<1> DEFINE R == {ss \in Nat \X Nat : ss[1] < ss[2]}
<1>1. IsWellFoundedOn(R, Nat)
  BY NatLessThanWellFounded DEF OpToRel
<1>2. PICK x \in S : \A y \in S : ~(<<y, x>> \in R)
  BY <1>1, WFMin
<1>3. ASSUME NEW y \in S PROVE x <= y
  <2>1. x \in Nat /\ y \in Nat
    OBVIOUS
  <2>2. ~(y < x)
    BY <1>2, <2>1
  <2> QED
    BY <2>1, <2>2
<1> QED
  BY <1>3 DEF Min

LEMMA MaxIn ==
  ASSUME NEW n \in Nat, NEW S \in SUBSET (0 .. n), S # {}
  PROVE  Max(S) \in S
<1> DEFINE T == {n - i : i \in S}
<1>1. T \in SUBSET Nat /\ T # {}
  <2>1. \A i \in S : n - i \in Nat
    OBVIOUS
  <2>2. PICK i \in S : TRUE
    OBVIOUS
  <2>3. n - i \in T
    BY <2>2
  <2> QED
    BY <2>1, <2>3
<1>2. PICK i \in S : Min(T) = n - i
  BY <1>1, MinIn
<1>3. ASSUME NEW j \in S PROVE i >= j
  <2>1. n - j \in T
    OBVIOUS
  <2>2. n - i <= n - j
    BY <1>1, <1>2, <2>1, MinIn
  <2> QED
    BY <2>2
<1> QED
  BY <1>3 DEF Max

LEMMA NextOne ==
  /\ Ready \subseteq Items
  /\ Ready # {} => Min(Ready) \in Ready /\ \A j \in Ready : Min(Ready) <= j
<1>1. Ready \subseteq Items
  BY DEF Ready
<1>2. Ready \in SUBSET Nat
  BY <1>1, Numbers
<1> QED
  BY <1>1, <1>2, MinIn

-----------------------------------------------------------------------------
(* The passes by turns with the other commands.                            *)

Loops == [pc : Passes, mode : Modes \cup {"none"}, cycles : Nat, item : Items \cup {0},
          todo : SUBSET Runs, stuck : Results, then : {"none", "again", "select"},
          done : Nat, tried : Nat]
WatchTyped == loop \in Loops /\ incidents \in [Items -> [Kinds -> 0 .. Threshold]]

Busy == {"merging", "pushing", "working", "blocking"}
Holding == {"verify", "lane", "post"}

Serial ==
  /\ loop.pc # "stopped" => lock # "dead" /\ \A a \in Actors \ {Watcher} : act[a].pc = "idle"
  /\ loop.pc \notin Busy => act[Watcher].pc = "idle"
  /\ \A a \in Actors : lock = a => act[a].pc \in Holding
  /\ \A a \in Actors \ {Watcher} : act[a].pc \notin Shelving \cup {"lock"} \cup Holding

(* The item of a pass is the one its command will select.                  *)
Chosen ==
  /\ loop.pc \in {"attempt", "working", "block", "blocking"} => loop.item \in Items
  /\ loop.pc = "attempt" => Ready # {} /\ loop.item = Min(Ready)
  /\ loop.pc = "creds" => loop.then # "none"
  /\ loop.pc = "working" /\ act[Watcher].pc \in {"lock", "verify"} => Selected(loop.item)

(* What a pass has still to merge is pending, but what it is just merging. *)
Merges == {"idle", "view", "merge", "sync", "merge-record", "done"}
MergesLeft ==
  loop.pc = "merging" =>
    /\ act[Watcher].pc \in Merges
    /\ \A k \in loop.todo : k \in PendingMerge \/ (act[Watcher].pc # "idle" /\ act[Watcher].run = k)

Turn == WatchTyped /\ Serial /\ Chosen /\ MergesLeft
Course == Whole /\ Honest /\ Unraced /\ Turn

LEMMA TurnsAlone ==
  ASSUME Turn
  PROVE  Alone
BY DEF Turn, Serial, Alone, Busy, Shelving

LEMMA WatcherActs == Watcher \in Actors /\ Threshold \in Nat /\ Threshold > 0 /\ IsFiniteSet(Items)
BY WatchAssumption DEF WatchAssumption

LEMMA TookFinishes ==
  ASSUME NEW pc, Ended(pc), Took
  PROVE  Finish(Watcher)
BY DEF Ended, Took, Finish

(* Each step of the watch is one of Delivery.                              *)
LEMMA LoopIsDelivery ==
  ASSUME Turns, Course, Loop
  PROVE  [Next]_vars
<1>1. Watcher \in Actors
  BY WatcherActs
<1>2. CASE LoopRefill \/ LoopEmpty
  BY <1>2 DEF LoopRefill, LoopEmpty, Quiet, Next, Environment
<1>3. CASE LoopMerge \/ LoopMergesDone \/ LoopPoll \/ LoopPollEnds \/ LoopSelect
  BY <1>3 DEF LoopMerge, LoopMergesDone, LoopPoll, LoopPollEnds, LoopSelect, Quiet
<1>4. CASE LoopMerged \/ LoopPushed \/ LoopFailed \/ LoopWorked \/ LoopBlocked
  <2>1. Finish(Watcher)
    BY <1>4, TookFinishes DEF LoopMerged, LoopPushed, LoopFailed, LoopWorked, LoopBlocked
  <2> QED
    BY <1>1, <2>1 DEF Next
<1>5. CASE LoopMergeNext
  <2> DEFINE k == Min(loop.todo)
  <2>1. loop.todo \in SUBSET Nat /\ loop.todo \in SUBSET Runs /\ loop.todo # {}
    BY <1>5 DEF LoopMergeNext, Course, Turn, WatchTyped, Loops, Runs
  <2>2. k \in loop.todo
    BY <2>1, MinIn
  <2>3. act[Watcher].pc = "idle" /\ loop.pc = "merging"
    BY <1>5 DEF LoopMergeNext, Launch
  <2>4. k \in PendingMerge /\ k \in Runs
    BY <2>1, <2>2, <2>3 DEF Course, Turn, MergesLeft
  <2>5. BeginMerge(Watcher, k)
    BY <1>5, <2>4 DEF LoopMergeNext, BeginMerge, Turns
  <2> QED
    BY <1>1, <2>4, <2>5 DEF Next, Begin
<1>6. CASE LoopPush
  <2>1. CASE PendingPush = {}
    BY <1>6, <2>1 DEF LoopPush
  <2>2. CASE PendingPush # {}
    <3> DEFINE k == Max(PendingPush)
               job == IF Watching THEN "retry" ELSE "republish"
    <3>1. PendingPush \in SUBSET (0 .. MaxRuns) /\ PendingPush \subseteq Runs /\ MaxRuns \in Nat
      BY DeliveryAssumption, Numbers DEF DeliveryAssumption, PendingPush, Course, Whole, Basic, Typed, Records
    <3>2. k \in PendingPush /\ k \in Runs
      BY <2>2, <3>1, MaxIn
    <3>3. job \in {"retry", "republish"} \cap Jobs[Watcher]
      BY DEF Turns
    <3>4. BeginRetry(Watcher, k, job)
      BY <1>6, <2>2, <3>2, <3>3 DEF LoopPush, BeginRetry
    <3> QED
      BY <1>1, <3>2, <3>3, <3>4 DEF Next, Begin
  <2> QED
    BY <2>1, <2>2
<1>7. CASE LoopAttempt
  <2>1. Ready # {} /\ Min(Ready) \in Items
    BY <1>7, NextOne DEF LoopAttempt, Course, Turn, Chosen
  <2> DEFINE job == IF Watching THEN "transaction" ELSE "run"
  <2>2. UNCHANGED vars \/ BeginTransaction(Watcher, Min(Ready), job)
    BY <1>7, <2>1 DEF LoopAttempt, Transact
  <2>3. job \in Transactions
    BY DEF Transactions
  <2> QED
    BY <1>1, <2>1, <2>2, <2>3 DEF Next, Begin
<1>8. CASE LoopBlock
  <2>1. loop.item \in Items
    BY <1>8 DEF LoopBlock, Course, Turn, Chosen
  <2>2. UNCHANGED vars \/ BeginShelve(Watcher, loop.item, "blocked")
    BY <1>8 DEF LoopBlock
  <2> QED
    BY <1>1, <2>1, <2>2 DEF Next, Begin
<1> QED
  BY <1>2, <1>3, <1>4, <1>5, <1>6, <1>7, <1>8 DEF Loop

LEMMA WatchIsNext ==
  ASSUME Turns, Course, [WatchNext]_watchVars
  PROVE  [Next]_vars
<1>1. CASE UNCHANGED watchVars
  BY <1>1 DEF watchVars
<1>2. CASE Loop
  BY <1>2, LoopIsDelivery
<1>3. CASE Work \/ WatchDies
  BY <1>3, WatcherActs DEF Work, WatchDies, Next
<1>4. ASSUME NEW m \in Modes, Start(m) PROVE [Next]_vars
  BY <1>4 DEF Start, Quiet
<1>5. ASSUME NEW a \in Actors, Beside(a) PROVE [Next]_vars
  BY <1>5 DEF Beside, Next
<1>6. CASE Around
  BY <1>6 DEF Around, Next, Environment
<1> QED
  BY <1>1, <1>2, <1>3, <1>4, <1>5, <1>6 DEF WatchNext

-----------------------------------------------------------------------------
(* The types of a pass.                                                    *)

LEMMA AgainTyped ==
  ASSUME loop \in Loops, Again
  PROVE  /\ loop' \in Loops /\ loop'.pc \in {"refill", "push"}
BY DEF Again, Loops, Passes, Results

LEMMA StopTyped ==
  ASSUME Stop
  PROVE  loop' \in Loops /\ loop'.pc = "stopped"
BY DEF Stop, Stopped, Loops, Passes, Results

LEMMA PassTyped ==
  ASSUME loop \in Loops, NEW pc \in Passes, Pass(pc)
  PROVE  /\ loop' \in Loops /\ loop'.pc = pc /\ loop'.item = loop.item /\ loop'.todo = loop.todo
BY DEF Pass, Loops

LEMMA StartTyped ==
  ASSUME WatchTyped, NEW m \in Modes, Start(m)
  PROVE  WatchTyped' /\ loop'.pc \in {"refill", "push"}
<1>1. IsFiniteSet(Ready)
  BY WatcherActs, NextOne, FS_Subset
<1>2. Cardinality(Ready) \in Nat
  BY <1>1, FS_CardinalityType
<1> DEFINE n == CASE m = "run" -> Cardinality(Ready)
                  [] m \in {"run-once", "watch-once"} -> 1
                  [] OTHER -> 0
           pc == IF m \in {"run", "run-once"} THEN "push" ELSE "refill"
<1>3. n \in Nat
  BY <1>2
<1>4. loop' = [Stopped EXCEPT !.mode = m, !.pc = pc, !.cycles = n] /\ incidents' = incidents
  BY DEF Start, Quiet
<1> HIDE DEF n
<1>5. loop' \in Loops /\ loop'.pc \in {"refill", "push"}
  BY <1>3, <1>4 DEF Stopped, Loops, Passes, Results
<1> QED
  BY <1>4, <1>5 DEF WatchTyped

LEMMA CountTyped ==
  ASSUME incidents \in [Items -> [Kinds -> 0 .. Threshold]], NEW i \in Items, NEW c \in Kinds,
         incidents' = [incidents EXCEPT ![i][c] = Counted(@)]
  PROVE  /\ incidents' \in [Items -> [Kinds -> 0 .. Threshold]]
         /\ incidents'[i][c] = Counted(incidents[i][c])
         /\ \A d \in Kinds \ {c} : incidents'[i][d] = incidents[i][d]
         /\ \A j \in Items \ {i} : incidents'[j] = incidents[j]
<1>1. incidents[i] \in [Kinds -> 0 .. Threshold]
  OBVIOUS
<1>2. Counted(incidents[i][c]) \in 0 .. Threshold
  BY <1>1, WatcherActs DEF Counted
<1> DEFINE f == [incidents[i] EXCEPT ![c] = Counted(incidents[i][c])]
<1>3. incidents' = [incidents EXCEPT ![i] = f]
  OBVIOUS
<1>4. /\ f \in [Kinds -> 0 .. Threshold] /\ f[c] = Counted(incidents[i][c])
      /\ \A d \in Kinds \ {c} : f[d] = incidents[i][d]
  BY <1>1, <1>2
<1> HIDE DEF f
<1> QED
  BY <1>3, <1>4

LEMMA LoopTyped ==
  ASSUME Course, Loop
  PROVE  WatchTyped'
<1> USE DEF Course, Turn, WatchTyped
<1>1. loop \in Loops
  OBVIOUS
<1>2. CASE LoopRefill \/ LoopMerge \/ LoopMergesDone \/ LoopPoll \/ LoopPollEnds \/ LoopEmpty
  <2>1. incidents' = incidents
    BY <1>2 DEF LoopRefill, LoopMerge, LoopMergesDone, LoopPoll, LoopPollEnds, LoopEmpty, Quiet
  <2>2. {"merge", "push", "select", "again", "creds", "merging"} \ {"again"} \subseteq Passes
    BY DEF Passes
  <2>3. CASE Again \/ Stop \/ Pass("merge") \/ Pass("push") \/ Pass("select")
    BY <2>1, <2>2, <2>3, AgainTyped, StopTyped, PassTyped
  <2>4. CASE LoopMerge /\ loop' = [loop EXCEPT !.pc = "merging", !.todo = PendingMerge]
    <3>1. PendingMerge \subseteq Runs
      BY DEF PendingMerge, Whole, Basic, Typed, Records
    <3>2. loop' \in Loops
      BY <2>2, <2>4, <3>1 DEF Loops
    <3> QED
      BY <2>1, <3>2
  <2>5. CASE loop' = [loop EXCEPT !.pc = "creds", !.then = "again"]
    <3>1. loop' \in Loops
      BY <2>2, <2>5 DEF Loops
    <3> QED
      BY <2>1, <3>1
  <2>6. CASE LoopPoll
    <3>1. loop.then = "again" \/ loop.then = "select"
      BY <2>6 DEF LoopPoll, Loops, Chosen
    <3> QED
      BY <2>3, <2>6, <3>1 DEF LoopPoll
  <2> QED
    BY <1>2, <2>3, <2>4, <2>5, <2>6 DEF LoopRefill, LoopMerge, LoopMergesDone, LoopPollEnds, LoopEmpty
<1>3. CASE LoopMergeNext \/ LoopPush \/ LoopSelect
  <2>1. incidents' = incidents
    BY <1>3 DEF LoopMergeNext, LoopPush, LoopSelect, Quiet, watch
  <2>2. {"pushing", "select", "empty", "attempt"} \subseteq Passes
    BY DEF Passes
  <2>3. CASE loop' = loop \/ Stop \/ Pass("select") \/ Pass("pushing") \/ Pass("empty")
    BY <2>1, <2>2, <2>3, StopTyped, PassTyped
  <2>4. CASE LoopSelect /\ Ready # {} /\ loop' = [loop EXCEPT !.pc = "attempt", !.item = Min(Ready)]
    <3>1. Min(Ready) \in Items
      BY <2>4, NextOne
    <3>2. loop' \in Loops
      BY <2>2, <2>4, <3>1 DEF Loops
    <3> QED
      BY <2>1, <3>2
  <2> QED
    BY <1>3, <2>3, <2>4 DEF LoopMergeNext, LoopPush, LoopSelect, watch
<1>4. CASE LoopMerged
  <2>1. act[Watcher].result \in Results
    BY WatcherActs DEF Whole, Basic, Typed, Acts, Commands
  <2>2. loop' \in Loops
    BY <1>4, <2>1 DEF LoopMerged, Loops
  <2> QED
    BY <1>4, <2>2 DEF LoopMerged
<1>5. CASE LoopPushed \/ LoopWorked
  <2>1. incidents' = incidents
    BY <1>5 DEF LoopPushed, LoopWorked
  <2>2. {"creds", "select", "refill", "push"} \subseteq Passes
    BY DEF Passes
  <2>3. CASE Again \/ loop' = Stopped \/ Pass("select")
    BY <2>1, <2>2, <2>3, AgainTyped, StopTyped, PassTyped DEF Stop
  <2>4. CASE loop' = [loop EXCEPT !.pc = "creds", !.then = "select"]
    <3>1. loop' \in Loops
      BY <2>2, <2>4 DEF Loops
    <3> QED
      BY <2>1, <3>1
  <2>5. CASE LoopWorked
    <3> DEFINE did == [loop EXCEPT !.done = IF loop.cycles = 0 THEN 0 ELSE @ + 1]
    <3>1. did \in Loops
      BY DEF Loops
    <3>2. \/ loop' = [did EXCEPT !.pc = "creds", !.then = "again"]
          \/ loop' = Stopped
          \/ loop' = [did EXCEPT !.pc = IF Watching THEN "refill" ELSE "push", !.item = 0]
      BY <2>5 DEF LoopWorked
    <3> HIDE DEF did
    <3>5. \/ loop' = [did EXCEPT !.pc = "creds", !.then = "again"]
          \/ loop' = Stopped
          \/ loop' = [did EXCEPT !.pc = "refill", !.item = 0]
          \/ loop' = [did EXCEPT !.pc = "push", !.item = 0]
      BY <3>2
    <3>3. CASE loop' = Stopped
      BY <2>3, <3>3
    <3>4. CASE loop' = [did EXCEPT !.pc = "creds", !.then = "again"]
      <4>1. loop' \in Loops
        BY <2>2, <3>1, <3>4 DEF Loops
      <4> QED
        BY <2>1, <4>1
    <3>6. CASE loop' = [did EXCEPT !.pc = "refill", !.item = 0]
      <4>1. loop' \in Loops
        BY <2>2, <3>1, <3>6 DEF Loops
      <4> QED
        BY <2>1, <4>1
    <3>7. CASE loop' = [did EXCEPT !.pc = "push", !.item = 0]
      <4>1. loop' \in Loops
        BY <2>2, <3>1, <3>7 DEF Loops
      <4> QED
        BY <2>1, <4>1
    <3> QED
      BY <3>3, <3>4, <3>5, <3>6, <3>7
  <2> QED
    BY <1>5, <2>3, <2>4, <2>5 DEF LoopPushed
<1>6. CASE LoopAttempt
  <2>1. incidents' = incidents /\ {"working", "block"} \subseteq Passes
    BY <1>6 DEF LoopAttempt, Passes
  <2>2. CASE Stop \/ Pass("block")
    BY <2>1, <2>2, StopTyped, PassTyped
  <2>3. CASE loop' = [loop EXCEPT !.pc = "working", !.tried = IF loop.cycles = 0 THEN 0 ELSE @ + 1]
    <3> DEFINE n == IF loop.cycles = 0 THEN 0 ELSE loop.tried + 1
    <3>1. n \in Nat
      BY DEF Loops
    <3>2. loop' = [loop EXCEPT !.pc = "working", !.tried = n]
      BY <2>3
    <3> HIDE DEF n
    <3>3. loop' \in Loops
      BY <1>1, <2>1, <3>1, <3>2 DEF Loops
    <3> QED
      BY <2>1, <3>3
  <2> QED
    BY <1>6, <2>2, <2>3 DEF LoopAttempt
<1>7. CASE LoopFailed
  <2>1. loop.item \in Items
    BY <1>7 DEF LoopFailed, Ended, Chosen
  <2>2. PICK c \in Blamed(act[Watcher].result) :
          /\ incidents' = [incidents EXCEPT ![loop.item][c] = Counted(@)]
          /\ Stop \/ Pass("block") \/ Again
    BY <1>7 DEF LoopFailed
  <2>3. c \in Kinds
    BY <1>7, <2>2 DEF LoopFailed, Blamed, Kinds
  <2>4. incidents' \in [Items -> [Kinds -> 0 .. Threshold]]
    BY <2>1, <2>2, <2>3, CountTyped
  <2>5. "block" \in Passes
    BY DEF Passes
  <2> QED
    BY <2>2, <2>4, <2>5, StopTyped, PassTyped, AgainTyped
<1>8. CASE LoopBlock \/ LoopBlocked
  <2>1. incidents' = incidents /\ "blocking" \in Passes
    BY <1>8 DEF LoopBlock, LoopBlocked, Passes
  <2> QED
    BY <1>8, <2>1, StopTyped, PassTyped, AgainTyped DEF LoopBlock, LoopBlocked
<1> QED
  BY <1>2, <1>3, <1>4, <1>5, <1>6, <1>7, <1>8 DEF Loop

LEMMA TypedNext ==
  ASSUME Course, [WatchNext]_watchVars
  PROVE  WatchTyped'
<1>1. CASE UNCHANGED <<loop, incidents>>
  BY <1>1 DEF Course, Turn, WatchTyped
<1>2. CASE Loop
  BY <1>2, LoopTyped
<1>3. ASSUME NEW m \in Modes, Start(m) PROVE WatchTyped'
  BY <1>3, StartTyped DEF Course, Turn
<1>4. CASE WatchDies
  BY <1>4, StopTyped DEF WatchDies, Course, Turn, WatchTyped
<1> QED
  BY <1>1, <1>2, <1>3, <1>4 DEF WatchNext, Work, Beside, Around, watch, watchVars

-----------------------------------------------------------------------------
(* One command at a time.                                                  *)

LEMMA NotALock == \A a \in Actors : a # "free" /\ a # "dead"
BY DeliveryAssumption DEF DeliveryAssumption

(* What a step of a command does to itself and to the lock.                *)
LEMMA ContinueHolds ==
  ASSUME Basic, NEW a \in Actors, Continue(a), lock = a => act[a].pc \in Holding
  PROVE  /\ Others(a) /\ act[a].pc \notin {"idle", "done"} /\ act'[a].pc # "idle"
         /\ lock' \in {lock, a, "free"} /\ (lock' = a => act'[a].pc \in Holding)
         /\ act'[a].pc \in Shelving \cup {"lock"} \cup Holding =>
              act[a].pc \in Shelving \cup {"lock"} \cup Holding
         /\ act'[a].pc \in {"lock", "verify"} => act[a].pc = "lock" /\ backlog' = backlog
<1>1. Acts
  BY DEF Basic, Typed
<1>2. CASE RunLock(a)
  BY <1>1, <1>2, RunLockMoves, NotALock DEF RunLock, Moves, Holding, Shelving, Go, End
<1>3. CASE RunVerify(a)
  BY <1>3, RunVerifyMoves, NotALock DEF Moves, Holding, Shelving
<1>4. CASE RunLane(a)
  BY <1>1, <1>4, RunLaneMoves DEF RunLane, Moves, Holding, Shelving
<1>5. CASE RunPost(a)
  BY <1>1, <1>5, RunPostMoves, NotALock DEF RunPost, Moves, Holding, Shelving
<1>6. CASE CompleteCheck(a) \/ CompleteMove(a) \/ CompleteMeta(a) \/ CommitCheck(a) \/ CommitDo(a) \/ CommitRecord(a)
  <2>1. lock' = lock
    BY <1>6 DEF CompleteCheck, CompleteMove, CompleteMeta, CommitCheck, CommitDo, CommitRecord
  <2> QED
    BY <1>1, <1>6, <2>1, CompleteCheckMoves, CompleteMoveMoves, CompleteMetaMoves, CommitCheckMoves,
       CommitDoMoves, CommitRecordMoves DEF Moves, Holding, Shelving
<1>7. CASE ShelveMove(a) \/ ShelveMeta(a)
  <2>1. lock' = lock
    BY <1>7 DEF ShelveMove, ShelveMeta
  <2> QED
    BY <1>1, <1>7, <2>1, ShelveMoveMoves, ShelveMetaMoves DEF Moves, Holding, Shelving
<1>8. CASE Push(a) \/ Pr(a) \/ PrRecord(a) \/ PushBase(a) \/ PushRecord(a)
  <2>1. lock' = lock
    BY <1>8 DEF Push, Pr, PrRecord, PushBase, PushRecord
  <2> QED
    BY <1>1, <1>8, <2>1, PushMoves, PrMoves, PrRecordMoves, PushBaseMoves, PushRecordMoves
    DEF Moves, Holding, Shelving
<1>9. CASE MergeView(a) \/ MergeDo(a) \/ Sync(a) \/ MergeRecord(a)
  <2>1. lock' = lock
    BY <1>9 DEF MergeView, MergeDo, Sync, MergeRecord
  <2> QED
    BY <1>1, <1>9, <2>1, MergeViewMoves, MergeDoMoves, SyncMoves, MergeRecordMoves
    DEF Moves, Holding, Shelving
<1> QED
  BY <1>2, <1>3, <1>4, <1>5, <1>6, <1>7, <1>8, <1>9 DEF Continue

LEMMA SerialQuiet ==
  ASSUME Serial, UNCHANGED <<act, lock>>, loop.pc # "stopped" \/ loop'.pc = "stopped", act[Watcher].pc = "idle"
  PROVE  Serial'
BY DEF Serial

LEMMA SerialTook ==
  ASSUME Acts, Serial, Took, act[Watcher].pc = "done", loop.pc # "stopped"
  PROVE  Serial'
<1>1. Others(Watcher) /\ act'[Watcher].pc = "idle" /\ lock' = lock
  BY WatcherActs, Cleared DEF Took
<1>2. lock # Watcher
  BY WatcherActs DEF Serial, Holding
<1> QED
  BY <1>1, <1>2, WatcherActs DEF Serial, Others, Kept

LEMMA SerialLaunched ==
  ASSUME Serial, act[Watcher].pc = "idle", Others(Watcher), lock' = lock, loop.pc # "stopped", loop'.pc \in Busy
  PROVE  Serial'
<1>1. lock # Watcher
  BY WatcherActs DEF Serial, Holding
<1> QED
  BY <1>1, WatcherActs DEF Serial, Others, Kept, Busy

LEMMA SerialWork ==
  ASSUME Basic, Serial, Work
  PROVE  Serial'
<1>1. Continue(Watcher) /\ loop' = loop
  BY DEF Work, watch
<1>2. /\ Others(Watcher) /\ act[Watcher].pc # "idle"
      /\ lock' \in {lock, Watcher, "free"} /\ (lock' = Watcher => act'[Watcher].pc \in Holding)
  BY <1>1, WatcherActs, ContinueHolds DEF Serial
<1>3. lock' # Watcher => lock' = lock \/ lock' = "free"
  BY <1>2
<1>4. loop.pc \in Busy
  BY <1>2 DEF Serial
<1> QED
  BY <1>1, <1>2, <1>3, <1>4, WatcherActs, NotALock DEF Serial, Others, Kept

LEMMA SerialDies ==
  ASSUME Basic, Serial, WatchDies
  PROVE  Serial'
<1>1. Others(Watcher) /\ act'[Watcher].pc = "idle"
  BY WatcherActs, Cleared DEF WatchDies, Crash, Basic, Typed
<1>2. loop'.pc = "stopped"
  BY StopTyped DEF WatchDies
<1>3. lock' = IF lock = Watcher THEN "dead" ELSE lock
  BY DEF WatchDies, Crash
<1> QED
  BY <1>1, <1>2, <1>3, WatcherActs, NotALock DEF Serial, Others, Kept

LEMMA SerialBeside ==
  ASSUME Turns, Basic, Serial, NEW a \in Actors, Beside(a)
  PROVE  Serial'
<1>1. a # Watcher /\ loop.pc = "stopped" /\ loop' = loop
  BY DEF Beside, Turns, watch
<1>2. act[a].pc \notin Shelving \cup {"lock"} \cup Holding /\ lock # a
  BY <1>1 DEF Serial
<1>3. ASSUME Others(a), act'[a].pc \notin Shelving \cup {"lock"} \cup Holding, lock' = lock
      PROVE  Serial'
  BY <1>1, <1>2, <1>3, WatcherActs DEF Serial, Others, Kept
<1>4. CASE Begin(a)
  <2>1. lock' = lock
    BY <1>4 DEF Begin, BeginTransaction, BeginComplete, Recover, BeginCommit, BeginMerge, BeginPushBase,
       BeginRetry, BeginShelve
  <2>2. \A i \in Items, job \in Transactions : ~BeginTransaction(a, i, job)
    BY <1>1 DEF BeginTransaction, Transactions, Turns
  <2>3. \A i \in Items, to \in {"blocked", "manual-review"} : ~BeginShelve(a, i, to)
    BY <1>1 DEF BeginShelve, Turns
  <2>4. Others(a) /\ act'[a].pc \notin Shelving \cup {"lock"} \cup Holding
    BY <1>4, <2>2, <2>3, BeginCompleteBegins, BeginCommitBegins, BeginMergeBegins, BeginPushBaseBegins,
       BeginRetryBegins, RecoverBegins DEF Begin, Begins, Shelving, Holding
  <2> QED
    BY <1>3, <2>1, <2>4
<1>5. CASE Continue(a)
  BY <1>1, <1>2, <1>5, ContinueHolds, WatcherActs, NotALock DEF Serial, Others, Kept
<1>6. CASE Finish(a) \/ Crash(a)
  <2>1. Others(a) /\ act'[a].pc = "idle"
    BY <1>6, Cleared DEF Finish, Crash, Basic, Typed
  <2>2. lock' = lock
    BY <1>2, <1>6 DEF Finish, Crash
  <2> QED
    BY <1>3, <2>1, <2>2 DEF Shelving, Holding
<1> QED
  BY <1>4, <1>5, <1>6 DEF Beside

LEMMA AroundLeaves ==
  ASSUME Around
  PROVE  /\ UNCHANGED <<act, loop, incidents, backlog, runs, receipts, local, crashes>>
         /\ lock' = lock \/ (lock = "dead" /\ lock' = "free")
BY DEF Around, ClearLock, Restore, LoseCreds, RestoreCreds, HumanMerge, HumanClose, watch, product, origin

LEMMA SerialAround ==
  ASSUME Serial, Around
  PROVE  Serial'
BY AroundLeaves, NotALock DEF Serial

(* The commands the passes begin.                                          *)
LEMMA MergeLaunched ==
  ASSUME Course, LoopMergeNext
  PROVE  /\ Others(Watcher) /\ act[Watcher].pc = "idle" /\ act'[Watcher].pc = "view"
         /\ act'[Watcher].run = Min(loop.todo) /\ act'[Watcher].item = runs[Min(loop.todo)].item
         /\ Min(loop.todo) \in loop.todo /\ Min(loop.todo) \in PendingMerge
         /\ UNCHANGED <<loop, incidents, lock, backlog, runs, receipts, crashes>>
<1> DEFINE k == Min(loop.todo)
<1>1. loop.todo \in SUBSET Runs /\ loop.todo \in SUBSET Nat /\ loop.todo # {} /\ act[Watcher].pc = "idle"
  BY DEF LoopMergeNext, Launch, Course, Turn, WatchTyped, Loops, Runs
<1>2. k \in loop.todo /\ k \in Runs
  BY <1>1, MinIn
<1>3. k \in PendingMerge
  BY <1>1, <1>2 DEF LoopMergeNext, Course, Turn, MergesLeft
<1>4. "view" \in Places /\ "merge" \in Tasks
  BY DEF Places, Tasks
<1>5. Acts /\ runs[k].item \in Items
  BY <1>2, <1>3 DEF Course, Whole, Basic, Typed, Named, PendingMerge
<1>6. Begins(Watcher, "view", "merge", runs[k].item, k)
  BY <1>2, <1>4, <1>5, Numbers, WatcherActs, Begun DEF LoopMergeNext
<1> QED
  BY <1>2, <1>3, <1>6 DEF Begins, LoopMergeNext, watch

LEMMA PushLaunched ==
  ASSUME Course, LoopPush, loop'.pc \in Busy
  PROVE  /\ Others(Watcher) /\ act[Watcher].pc = "idle" /\ act'[Watcher].pc = "push" /\ loop'.pc = "pushing"
         /\ UNCHANGED <<incidents, lock, backlog, runs, receipts, crashes>>
<1> DEFINE k == Max(PendingPush)
           job == IF Watching THEN "retry" ELSE "republish"
<1>1. PendingPush # {} /\ Launch(Watcher, Task(job, "push", runs[k].item, k)) /\ loop'.pc = "pushing"
  BY PassTyped DEF LoopPush, Pass, Busy, Course, Turn, WatchTyped, Loops
<1>2. PendingPush \in SUBSET (0 .. MaxRuns) /\ PendingPush \subseteq Runs /\ MaxRuns \in Nat
  BY DeliveryAssumption, Numbers DEF DeliveryAssumption, PendingPush, Course, Whole, Basic, Typed, Records
<1>3. k \in PendingPush /\ k \in Runs
  BY <1>1, <1>2, MaxIn
<1>4. "push" \in Places /\ job \in Tasks
  BY DEF Places, Tasks
<1>5. Acts /\ runs[k].item \in Items
  BY <1>3 DEF Course, Whole, Basic, Typed, Named, PendingPush
<1>6. Begins(Watcher, "push", job, runs[k].item, k)
  BY <1>1, <1>3, <1>4, <1>5, Numbers, WatcherActs, Begun
<1>7. UNCHANGED <<incidents, lock, backlog, runs, receipts, crashes>>
  BY <1>1 DEF LoopPush
<1> QED
  BY <1>1, <1>6, <1>7 DEF Begins

LEMMA TransactionLaunched ==
  ASSUME Course, LoopAttempt, loop'.pc \in Busy
  PROVE  /\ Others(Watcher) /\ act[Watcher].pc = "idle" /\ loop'.pc = "working" /\ loop'.item = loop.item
         /\ loop.item = Min(Ready) /\ loop.item \in Items /\ Selected(loop.item)
         /\ \E job \in Transactions : BeginTransaction(Watcher, loop.item, job)
         /\ Repeated = {} \/ \E c \in Repeated : Resolved(c)
         /\ UNCHANGED <<incidents, lock, backlog, runs, receipts, crashes>>
<1>1. loop.pc = "attempt" /\ Ready # {} /\ loop.item = Min(Ready) /\ loop.item \in Items
  BY DEF LoopAttempt, Course, Turn, Chosen
<1>2. ~Stop /\ ~Pass("block")
  BY StopTyped DEF Pass, Busy, Course, Turn, WatchTyped, Loops
<1>3. /\ Repeated = {} \/ \E c \in Repeated : Resolved(c)
      /\ loop' = [loop EXCEPT !.pc = "working", !.tried = IF loop.cycles = 0 THEN 0 ELSE @ + 1]
      /\ Transact /\ incidents' = incidents
  BY <1>2 DEF LoopAttempt
<1>4. PICK job \in Transactions : BeginTransaction(Watcher, loop.item, job)
  BY <1>1, <1>3 DEF Transact, Transactions
<1>5. Others(Watcher) /\ act[Watcher].pc = "idle" /\ Selected(loop.item)
  BY <1>1, <1>4, WatcherActs, BeginTransactionBegins DEF Course, Whole, BeginTransaction
<1>6. UNCHANGED <<lock, backlog, runs, receipts, crashes>>
  BY <1>4 DEF BeginTransaction
<1>7. loop'.pc = "working" /\ loop'.item = loop.item
  BY <1>3 DEF Course, Turn, WatchTyped, Loops
<1> QED
  BY <1>1, <1>3, <1>4, <1>5, <1>6, <1>7

LEMMA BlockLaunched ==
  ASSUME Course, LoopBlock, loop'.pc \in Busy
  PROVE  /\ Others(Watcher) /\ act[Watcher].pc = "idle" /\ loop'.pc = "blocking" /\ act'[Watcher].pc = "shelve"
         /\ loop'.item = loop.item
         /\ UNCHANGED <<incidents, lock, backlog, runs, receipts, crashes>>
<1>1. loop.item \in Items
  BY DEF LoopBlock, Course, Turn, Chosen
<1>2. ~Stop
  BY StopTyped DEF Busy
<1>3. BeginShelve(Watcher, loop.item, "blocked") /\ Pass("blocking") /\ incidents' = incidents
  BY <1>2 DEF LoopBlock
<1>4. UNCHANGED <<lock, backlog, runs, receipts, crashes>>
  BY <1>3 DEF BeginShelve
<1>5. loop'.pc = "blocking" /\ loop'.item = loop.item
  BY <1>3 DEF Pass, Course, Turn, WatchTyped, Loops
<1> QED
  BY <1>1, <1>3, <1>4, <1>5, WatcherActs, BeginShelveBegins DEF Course, Whole

(* The other steps of a pass: they leave the command alone, or take note   *)
(* of its end.                                                             *)
LEMMA LoopRests ==
  ASSUME Course, Loop, loop'.pc \notin Busy \/ LoopMerge \/ LoopMerged
  PROVE  \/ UNCHANGED <<act, lock>> /\ act[Watcher].pc = "idle" /\ loop.pc # "stopped"
         \/ Took /\ act[Watcher].pc = "done" /\ loop.pc # "stopped"
<1>1. loop.pc \notin Busy => act[Watcher].pc = "idle"
  BY DEF Course, Turn, Serial
<1>2. CASE LoopRefill \/ LoopMerge \/ LoopMergesDone \/ LoopPoll \/ LoopPollEnds \/ LoopSelect \/ LoopEmpty
  <2>1. UNCHANGED <<act, lock>> /\ loop.pc # "stopped"
    BY <1>2 DEF LoopRefill, LoopMerge, LoopMergesDone, LoopPoll, LoopPollEnds, LoopSelect, LoopEmpty, Quiet, Refill, vars
  <2>2. act[Watcher].pc = "idle"
    BY <1>1, <1>2 DEF LoopRefill, LoopMerge, LoopMergesDone, LoopPoll, LoopPollEnds, LoopSelect, LoopEmpty, Busy
  <2> QED
    BY <2>1, <2>2
<1>3. CASE LoopMerged \/ LoopPushed \/ LoopFailed \/ LoopWorked \/ LoopBlocked
  <2>1. Took /\ \E pc \in Busy : Ended(pc)
    BY <1>3 DEF LoopMerged, LoopPushed, LoopFailed, LoopWorked, LoopBlocked, Busy
  <2> QED
    BY <2>1 DEF Ended, Busy
<1>4. CASE LoopMergeNext
  BY <1>4 DEF LoopMergeNext, watch, Busy, LoopMerge, LoopMerged, Ended, Launch
<1>5. CASE LoopPush
  <2>1. ~LoopMerge /\ ~LoopMerged
    BY <1>5 DEF LoopPush, LoopMerge, LoopMerged, Ended
  <2>2. UNCHANGED vars
    BY <1>5, <2>1 DEF LoopPush, Pass, Busy, Course, Turn, WatchTyped, Loops
  <2> QED
    BY <1>5, <2>2 DEF LoopPush, vars
<1>6. CASE LoopAttempt
  <2>1. ~LoopMerge /\ ~LoopMerged
    BY <1>6 DEF LoopAttempt, LoopMerge, LoopMerged, Ended
  <2>2. UNCHANGED vars
    BY <1>6, <2>1 DEF LoopAttempt, Busy, Course, Turn, WatchTyped, Loops
  <2> QED
    BY <1>1, <1>6, <2>2 DEF LoopAttempt, vars, Busy
<1>7. CASE LoopBlock
  <2>1. ~LoopMerge /\ ~LoopMerged
    BY <1>7 DEF LoopBlock, LoopMerge, LoopMerged, Ended
  <2>2. UNCHANGED vars
    BY <1>7, <2>1 DEF LoopBlock, Pass, Busy, Course, Turn, WatchTyped, Loops
  <2> QED
    BY <1>7, <2>2 DEF LoopBlock, vars
<1> QED
  BY <1>2, <1>3, <1>4, <1>5, <1>6, <1>7 DEF Loop

(* Where each step of a pass leads.                                        *)
LEMMA LoopLeads ==
  ASSUME Course, Loop
  PROVE  \/ LoopMergeNext \/ LoopPush \/ LoopAttempt \/ LoopBlock \/ LoopMerge \/ LoopMerged
         \/ loop'.pc \in {"stopped", "refill", "merge", "push", "select", "empty"}
         \/ LoopSelect /\ Ready # {} /\ loop' = [loop EXCEPT !.pc = "attempt", !.item = Min(Ready)]
         \/ LoopFailed /\ Pass("block")
         \/ loop'.pc = "creds" /\ loop'.then # "none"
<1> DEFINE Free == {"stopped", "refill", "merge", "push", "select", "empty"}
<1>1. loop \in Loops
  BY DEF Course, Turn, WatchTyped
<1>2. CASE Again \/ Stop \/ loop' = Stopped \/ \E pc \in Free : Pass(pc)
  <2>1. Free \subseteq Passes
    BY DEF Passes
  <2> QED
    BY <1>1, <1>2, <2>1, AgainTyped, StopTyped, PassTyped DEF Stop
<1>3. ASSUME NEW then \in {"again", "select"}, loop' = [loop EXCEPT !.pc = "creds", !.then = then]
      PROVE  loop'.pc = "creds" /\ loop'.then # "none"
  BY <1>1, <1>3 DEF Loops
<1>4. CASE LoopRefill \/ LoopMergesDone \/ LoopPollEnds \/ LoopEmpty \/ LoopPushed \/ LoopBlocked
  BY <1>2, <1>3, <1>4 DEF LoopRefill, LoopMergesDone, LoopPollEnds, LoopEmpty, LoopPushed, LoopBlocked
<1>5. CASE LoopPoll
  <2>1. loop.then = "again" \/ loop.then = "select"
    BY <1>1, <1>5 DEF LoopPoll, Loops, Course, Turn, Chosen
  <2> QED
    BY <1>2, <1>5, <2>1 DEF LoopPoll
<1>6. CASE LoopSelect
  BY <1>2, <1>6 DEF LoopSelect
<1>7. CASE LoopFailed
  BY <1>2, <1>7 DEF LoopFailed
<1>8. CASE LoopWorked
  <2> DEFINE did == [loop EXCEPT !.done = IF loop.cycles = 0 THEN 0 ELSE @ + 1]
             pc == IF Watching THEN "refill" ELSE "push"
  <2>1. did \in Loops
    BY <1>1 DEF Loops
  <2>2. \/ loop' = [did EXCEPT !.pc = "creds", !.then = "again"]
        \/ loop' = Stopped
        \/ loop' = [did EXCEPT !.pc = pc, !.item = 0]
    BY <1>8 DEF LoopWorked
  <2>3. pc \in {"refill", "push"}
    OBVIOUS
  <2> HIDE DEF did, pc
  <2>4. CASE loop' = [did EXCEPT !.pc = "creds", !.then = "again"]
    BY <2>1, <2>4 DEF Loops
  <2>5. CASE loop' = [did EXCEPT !.pc = pc, !.item = 0]
    BY <2>1, <2>3, <2>5 DEF Loops
  <2> QED
    BY <1>2, <2>2, <2>4, <2>5
<1> QED
  BY <1>4, <1>5, <1>6, <1>7, <1>8 DEF Loop

LEMMA MergeLeads ==
  ASSUME Course, LoopMerge \/ LoopMerged
  PROVE  loop'.pc \in {"merging", "push"}
<1>1. loop \in Loops
  BY DEF Course, Turn, WatchTyped
<1>2. CASE LoopMerge
  BY <1>1, <1>2 DEF LoopMerge, Pass, Loops
<1>3. CASE LoopMerged
  BY <1>1, <1>3 DEF LoopMerged, Ended, Loops
<1> QED
  BY <1>2, <1>3

LEMMA SerialNext ==
  ASSUME Turns, Course, [WatchNext]_watchVars
  PROVE  Serial'
<1>1. Basic /\ Acts /\ Serial /\ loop \in Loops
  BY DEF Course, Whole, Basic, Typed, Turn, WatchTyped
<1>2. CASE UNCHANGED watchVars
  BY <1>1, <1>2 DEF watchVars, vars, Serial
<1>3. CASE Loop
  <2>1. CASE loop'.pc \notin Busy \/ LoopMerge \/ LoopMerged
    <3>1. CASE UNCHANGED <<act, lock>> /\ act[Watcher].pc = "idle" /\ loop.pc # "stopped"
      BY <1>1, <3>1, SerialQuiet
    <3>2. CASE Took /\ act[Watcher].pc = "done" /\ loop.pc # "stopped"
      BY <1>1, <3>2, SerialTook
    <3> QED
      BY <1>3, <2>1, <3>1, <3>2, LoopRests
  <2>2. CASE loop'.pc \in Busy /\ (LoopMergeNext \/ LoopPush \/ LoopAttempt \/ LoopBlock)
    <3>1. Others(Watcher) /\ act[Watcher].pc = "idle" /\ lock' = lock
      BY <2>2, MergeLaunched, PushLaunched, TransactionLaunched, BlockLaunched
    <3>2. loop.pc # "stopped"
      BY <2>2 DEF LoopMergeNext, LoopPush, LoopAttempt, LoopBlock
    <3> QED
      BY <1>1, <2>2, <3>1, <3>2, SerialLaunched
  <2>3. ~(loop'.pc \notin Busy \/ LoopMerge \/ LoopMerged) =>
          LoopMergeNext \/ LoopPush \/ LoopAttempt \/ LoopBlock
    <3>1. SUFFICES ASSUME LoopFailed, Pass("block") PROVE loop'.pc \notin Busy
      BY <1>1, <1>3, LoopLeads DEF Busy, Loops
    <3> QED
      BY <1>1, <3>1 DEF Pass, Loops, Busy
  <2> QED
    BY <2>1, <2>2, <2>3
<1>4. ASSUME NEW m \in Modes, Start(m) PROVE Serial'
  <2>1. \A a \in Actors : act[a].pc = "idle"
    BY <1>4 DEF Start, Turns, Removed
  <2>2. UNCHANGED <<act, lock>> /\ lock # "dead"
    BY <1>4 DEF Start, Turns, Removed, Quiet, vars
  <2> QED
    BY <1>1, <2>1, <2>2, WatcherActs DEF Serial
<1> QED
  BY <1>1, <1>2, <1>3, <1>4, SerialWork, SerialDies, SerialBeside, SerialAround DEF WatchNext

LEMMA ChosenNext ==
  ASSUME Turns, Course, [WatchNext]_watchVars
  PROVE  Chosen'
<1>1. loop \in Loops /\ Chosen /\ Serial
  BY DEF Course, Turn, WatchTyped
<1>2. ASSUME loop'.pc \in {"stopped", "refill", "merge", "merging", "push", "pushing", "select", "empty"} PROVE Chosen'
  BY <1>2 DEF Chosen
<1>3. CASE UNCHANGED <<loop, act, backlog>>
  BY <1>1, <1>3 DEF Chosen, Selected, Ready, Executable, Completed
<1>4. CASE Loop
  <2>1. CASE LoopSelect /\ Ready # {} /\ loop' = [loop EXCEPT !.pc = "attempt", !.item = Min(Ready)]
    <3>1. Ready' = Ready
      BY <2>1 DEF LoopSelect, Quiet, vars, Ready, Executable, Completed
    <3>2. loop'.pc = "attempt" /\ loop'.item = Min(Ready) /\ Min(Ready) \in Items
      BY <1>1, <2>1, NextOne DEF Loops
    <3> QED
      BY <2>1, <3>1, <3>2 DEF Chosen
  <2>2. CASE (LoopFailed \/ LoopAttempt) /\ Pass("block")
    <3>1. loop'.pc = "block" /\ loop'.item = loop.item
      BY <1>1, <2>2 DEF Pass, Loops
    <3>2. loop.item \in Items
      BY <1>1, <2>2 DEF LoopFailed, LoopAttempt, Ended, Chosen
    <3> QED
      BY <3>1, <3>2 DEF Chosen
  <2>3. CASE loop'.pc = "creds" /\ loop'.then # "none"
    BY <2>3 DEF Chosen
  <2>4. CASE LoopMergeNext
    BY <1>2, <2>4, MergeLaunched DEF LoopMergeNext, watch
  <2>5. CASE LoopPush
    <3>1. loop'.pc \in {"select", "pushing"}
      BY <1>1, <2>5 DEF LoopPush, Pass, Loops
    <3> QED
      BY <1>2, <3>1
  <2>6. CASE LoopAttempt /\ ~Pass("block")
    <3>1. CASE loop'.pc \in Busy
      <4>1. loop'.pc = "working" /\ loop'.item = loop.item /\ loop.item \in Items /\ Selected(loop.item) /\ backlog' = backlog
        BY <2>6, <3>1, TransactionLaunched
      <4>2. Selected(loop.item)'
        BY <4>1 DEF Selected, Ready, Executable, Completed
      <4> QED
        BY <4>1, <4>2 DEF Chosen
    <3>2. CASE loop'.pc \notin Busy
      <4>1. Stop
        BY <1>1, <2>6, <3>2 DEF LoopAttempt, Loops, Busy
      <4> QED
        BY <1>2, <4>1, StopTyped
    <3> QED
      BY <3>1, <3>2
  <2>7. CASE LoopBlock
    <3>1. CASE loop'.pc \in Busy
      <4>1. loop'.pc = "blocking" /\ loop'.item = loop.item
        BY <2>7, <3>1, BlockLaunched
      <4>2. loop.item \in Items
        BY <1>1, <2>7 DEF LoopBlock, Chosen
      <4> QED
        BY <4>1, <4>2 DEF Chosen
    <3>2. CASE loop'.pc \notin Busy
      <4>1. Stop
        BY <1>1, <2>7, <3>2 DEF LoopBlock, Pass, Loops, Busy
      <4> QED
        BY <1>2, <4>1, StopTyped
    <3> QED
      BY <3>1, <3>2
  <2>8. CASE LoopMerge \/ LoopMerged
    BY <1>2, <2>8, MergeLeads
  <2> QED
    BY <1>2, <1>4, <2>1, <2>2, <2>3, <2>4, <2>5, <2>6, <2>7, <2>8, LoopLeads
<1>5. CASE Work
  <2>1. /\ act'[Watcher].pc \in {"lock", "verify"} => act[Watcher].pc = "lock" /\ backlog' = backlog
    BY <1>1, <1>5, WatcherActs, ContinueHolds DEF Work, Serial, Course, Whole
  <2>2. act[Watcher].pc # "idle" /\ loop' = loop
    BY <1>1, <1>5, WatcherActs, ContinueHolds DEF Work, Serial, Course, Whole, watch
  <2>3. loop.pc \in Busy
    BY <1>1, <2>2 DEF Serial
  <2>4. loop.pc = "working" /\ act'[Watcher].pc \in {"lock", "verify"} => Selected(loop.item)'
    BY <1>1, <2>1, <2>2 DEF Chosen, Selected, Ready, Executable, Completed
  <2>5. loop.pc \in {"attempt", "working", "block", "blocking"} => loop.item \in Items
    BY <1>1 DEF Chosen
  <2> QED
    BY <2>2, <2>3, <2>4, <2>5 DEF Chosen, Busy
<1>6. CASE WatchDies
  BY <1>2, <1>6, StopTyped DEF WatchDies
<1>7. ASSUME NEW m \in Modes, Start(m) PROVE Chosen'
  BY <1>2, <1>7, StartTyped DEF Course, Turn
<1>8. ASSUME NEW a \in Actors, Beside(a) PROVE Chosen'
  BY <1>2, <1>8 DEF Beside, Turns, watch
<1>9. CASE Around
  BY <1>3, <1>9, AroundLeaves
<1> QED
  BY <1>3, <1>4, <1>5, <1>6, <1>7, <1>8, <1>9 DEF WatchNext, watchVars, vars

(* A merge in progress takes no other item's receipt away.                 *)
LEMMA MergeContinues ==
  ASSUME Basic, NEW a \in Actors, Continue(a), act[a].pc \in Merges
  PROVE  /\ act'[a].pc \in Merges /\ act'[a].pc # "idle" /\ act'[a].run = act[a].run
         /\ PendingMerge \ {act[a].run} \subseteq PendingMerge'
<1>1. Acts /\ receipts \in Records
  BY DEF Basic, Typed
<1>2. MergeView(a) \/ MergeDo(a) \/ Sync(a) \/ MergeRecord(a)
  BY DEF Continue, Merges, RunLock, RunVerify, RunLane, RunPost, CompleteCheck, CompleteMove, CompleteMeta,
     ShelveMove, ShelveMeta, CommitCheck, CommitDo, CommitRecord, Push, Pr, PrRecord, PushBase, PushRecord
<1>3. CASE MergeView(a)
  BY <1>1, <1>3, MergeViewMoves DEF MergeView, Moves, Merges, PendingMerge
<1>4. CASE MergeDo(a)
  BY <1>1, <1>4, MergeDoMoves DEF MergeDo, Moves, Merges, PendingMerge
<1>5. CASE Sync(a)
  BY <1>1, <1>5, SyncMoves DEF Sync, Moves, Merges, PendingMerge
<1>6. CASE MergeRecord(a)
  BY <1>1, <1>6, MergeRecordMoves DEF MergeRecord, Moves, Merges, PendingMerge, Records
<1> QED
  BY <1>2, <1>3, <1>4, <1>5, <1>6

LEMMA MergesLeftNext ==
  ASSUME Turns, Course, [WatchNext]_watchVars
  PROVE  MergesLeft'
<1>1. loop \in Loops /\ MergesLeft /\ Serial /\ Basic
  BY DEF Course, Turn, WatchTyped, Whole
<1>2. ASSUME loop'.pc # "merging" PROVE MergesLeft'
  BY <1>2 DEF MergesLeft
<1>3. CASE UNCHANGED <<loop, act, receipts>>
  BY <1>1, <1>3 DEF MergesLeft, PendingMerge
<1>4. CASE Loop
  <2>1. CASE LoopMerge
    <3>1. loop'.pc = "merging" => loop'.todo = PendingMerge
      BY <1>1, <2>1 DEF LoopMerge, Pass, Loops
    <3>2. act[Watcher].pc = "idle" /\ UNCHANGED <<act, receipts>>
      BY <1>1, <2>1 DEF LoopMerge, Serial, Busy, Quiet, vars
    <3> QED
      BY <3>1, <3>2 DEF MergesLeft, Merges, PendingMerge
  <2>2. CASE LoopMerged
    <3>1. loop'.todo = loop.todo \ {act[Watcher].run} /\ loop.pc = "merging"
      BY <1>1, <2>2 DEF LoopMerged, Ended, Loops
    <3>2. act'[Watcher].pc = "idle" /\ receipts' = receipts
      BY <1>1, <2>2, WatcherActs, Cleared DEF LoopMerged, Took, Basic, Typed
    <3> QED
      BY <1>1, <3>1, <3>2 DEF MergesLeft, Merges, PendingMerge
  <2>3. CASE LoopMergeNext
    <3>1. /\ act[Watcher].pc = "idle" /\ act'[Watcher].pc = "view" /\ loop' = loop /\ receipts' = receipts
          /\ loop.pc = "merging"
      BY <2>3, MergeLaunched DEF LoopMergeNext
    <3> QED
      BY <1>1, <3>1 DEF MergesLeft, Merges, PendingMerge
  <2>4. CASE LoopPush \/ LoopBlock
    <3>1. loop'.pc # "merging"
      BY <1>1, <2>4, StopTyped DEF LoopPush, LoopBlock, Pass, Loops
    <3> QED
      BY <1>2, <3>1
  <2>5. CASE LoopAttempt
    <3>1. loop'.pc # "merging"
      BY <1>1, <2>5, StopTyped DEF LoopAttempt, Pass, Loops
    <3> QED
      BY <1>2, <3>1
  <2>6. CASE LoopSelect \/ LoopFailed
    <3>1. loop'.pc # "merging"
      BY <1>1, <2>6, StopTyped, AgainTyped DEF LoopSelect, LoopFailed, Pass, Loops
    <3> QED
      BY <1>2, <3>1
  <2> QED
    BY <1>2, <1>4, <2>1, <2>2, <2>3, <2>4, <2>5, <2>6, LoopLeads
<1>5. CASE Work
  <2>1. Continue(Watcher) /\ loop' = loop
    BY <1>5 DEF Work, watch
  <2>2. act[Watcher].pc # "idle"
    BY <1>1, <2>1, WatcherActs, ContinueHolds DEF Serial
  <2>3. CASE loop.pc = "merging"
    <3>1. /\ act'[Watcher].pc \in Merges /\ act'[Watcher].pc # "idle" /\ act'[Watcher].run = act[Watcher].run
          /\ PendingMerge \ {act[Watcher].run} \subseteq PendingMerge'
      BY <1>1, <2>1, <2>3, WatcherActs, MergeContinues DEF MergesLeft
    <3> QED
      BY <1>1, <2>1, <2>2, <2>3, <3>1 DEF MergesLeft
  <2> QED
    BY <1>2, <2>1, <2>3
<1>6. CASE WatchDies
  BY <1>2, <1>6, StopTyped DEF WatchDies
<1>7. ASSUME NEW m \in Modes, Start(m) PROVE MergesLeft'
  BY <1>2, <1>7, StartTyped DEF Course, Turn
<1>8. ASSUME NEW a \in Actors, Beside(a) PROVE MergesLeft'
  BY <1>2, <1>8 DEF Beside, Turns, watch
<1>9. CASE Around
  BY <1>3, <1>9, AroundLeaves
<1> QED
  BY <1>3, <1>4, <1>5, <1>6, <1>7, <1>8, <1>9 DEF WatchNext, watchVars, vars

-----------------------------------------------------------------------------
(* The passes as runs of the commands.                                     *)

LEMMA CourseInit ==
  ASSUME WatchInit
  PROVE  Course
<1>1. Init /\ loop = Stopped /\ incidents = [i \in Items |-> [c \in Kinds |-> 0]]
  BY DEF WatchInit
<1>2. Whole /\ Honest /\ Unraced
  BY <1>1, WholeInit
<1>3. loop \in Loops /\ loop.pc = "stopped"
  BY <1>1 DEF Stopped, Loops, Passes, Results
<1>4. incidents \in [Items -> [Kinds -> 0 .. Threshold]]
  BY <1>1, WatcherActs
<1>5. \A a \in Actors : act[a].pc = "idle"
  BY <1>1 DEF Init, Idle
<1>6. Serial
  BY <1>1, <1>3, <1>5, WatcherActs, NotALock DEF Init, Serial, Shelving, Holding
<1> QED
  BY <1>2, <1>3, <1>4, <1>6 DEF Course, Turn, WatchTyped, Chosen, MergesLeft

LEMMA CourseNext ==
  ASSUME Turns, Course, [WatchNext]_watchVars
  PROVE  Course' /\ [Next]_vars
<1>1. [Next]_vars
  BY WatchIsNext
<1>2. Whole'
  BY <1>1, WholeNext DEF Course
<1>3. Honest' /\ Unraced'
  BY <1>1, TurnsAlone, HonestNext, UnracedNext DEF Course
<1>4. Turn'
  BY TypedNext, SerialNext, ChosenNext, MergesLeftNext DEF Turn
<1> QED
  BY <1>1, <1>2, <1>3, <1>4 DEF Course

(* A watch by turns is nothing but commands of Delivery: what is proved of *)
(* those holds of its passes.                                              *)
THEOREM WatchIsDelivery == ASSUME Turns PROVE WatchSpec => Spec
<1>1. WatchInit => Course /\ Init
  BY CourseInit DEF WatchInit
<1>2. Course /\ [WatchNext]_watchVars => Course' /\ [Next]_vars
  BY CourseNext
<1> QED
  BY <1>1, <1>2, PTL DEF WatchSpec, Spec

(* The counters of a pass and of the incidents stay in their range.        *)
THEOREM WatchTypeCorrect == ASSUME Turns PROVE WatchSpec => []WatchTypeOK
<1>1. WatchInit => Course
  BY CourseInit
<1>2. Course /\ [WatchNext]_watchVars => Course'
  BY CourseNext
<1>3. Course => WatchTypeOK
  BY TypeParts DEF Course, Whole, Basic, Turn, WatchTyped, WatchTypeOK, Loops
<1> QED
  BY <1>1, <1>2, <1>3, PTL DEF WatchSpec

(* Passes that set aside what fails too often, and the commands people run *)
(* between them, deliver every item as WorkItem promises.                  *)
THEOREM WatchImplements == ASSUME Turns PROVE WatchSpec => ImplementsWorkItem
<1>1. WatchInit => Course /\ W!Init
  BY CourseInit, InitPromised DEF WatchInit
<1>2. Course /\ [WatchNext]_watchVars => Course' /\ [W!Next]_Stage
  <2> SUFFICES ASSUME Course, [WatchNext]_watchVars PROVE Course' /\ [W!Next]_Stage
    OBVIOUS
  <2>1. Course' /\ [Next]_vars
    BY CourseNext
  <2> QED
    BY <2>1, NextPromised DEF Course
<1>3. WatchSpec => W!Spec
  BY <1>1, <1>2, PTL DEF WatchSpec, W!Spec
<1> QED
  BY <1>3 DEF ImplementsWorkItem

-----------------------------------------------------------------------------
(* What becomes of an attempt.                                             *)

Before == {"lock", "verify"}
Undecided == {"lane", "post", "check", "move", "meta"}
After == {"commit-check", "commit", "record", "push", "pr", "pr-record", "view", "merge", "sync", "merge-record"}

(* A transaction works on the item of its pass, that had not failed too    *)
(* often; past the transition the item is completed, and it ends otherwise *)
(* only as a failure that is counted.                                      *)
Attempting ==
  loop.pc = "working" =>
    /\ act[Watcher].pc \in Before \cup Undecided \cup After \cup {"done"}
    /\ act[Watcher].job \in Transactions
    /\ act[Watcher].pc \in Before => \A c \in Causes : incidents[loop.item][c] < Threshold
    /\ act[Watcher].pc \in Undecided \cup After => act[Watcher].item = loop.item
    /\ act[Watcher].pc \in After => backlog[loop.item].run # 0
    /\ act[Watcher].pc = "done" => act[Watcher].result \in {"dirty", "failed"} \/ backlog[loop.item].run # 0
    /\ act[Watcher].pc = "done" => act[Watcher].result # "locked"

(* Nobody else holds the lock while a watch runs.                          *)
NeverLocked == \A i \in Items : incidents[i]["locked"] = 0

(* The watch starts no implementation but in an attempt.                   *)
Starting == act[Watcher].pc \in Before => loop.pc = "working"

Tried == Course /\ Attempting /\ NeverLocked /\ Starting

LEMMA EndsWith ==
  ASSUME Acts, NEW a \in Actors, NEW r, End(a, r) \/ FileAndEnd(a, r)
  PROVE  /\ act'[a].pc = "done" /\ act'[a].result = r
         /\ act'[a].job = act[a].job /\ act'[a].item = act[a].item
<1> DEFINE d == [act[a] EXCEPT !.pc = "done", !.result = r]
<1>1. act[a] \in Commands
  BY DEF Acts
<1>2. act'[a] = d
  BY DEF Acts, End, FileAndEnd, Filed
<1>3. d.pc = "done" /\ d.result = r /\ d.job = act[a].job /\ d.item = act[a].item
  BY <1>1 DEF Commands
<1> QED
  BY <1>2, <1>3

(* Until the transition an attempt goes on or fails.                       *)
LEMMA UndecidedContinues ==
  ASSUME Basic, NEW a \in Actors, Continue(a), act[a].pc \in Undecided, act[a].job \in Transactions
  PROVE  /\ act'[a].job = act[a].job /\ act'[a].item = act[a].item
         /\ \/ act'[a].pc \in Undecided
            \/ act'[a].pc = "done" /\ act'[a].result = "failed"
            \/ act'[a].pc = "commit-check" /\ backlog'[act[a].item].run # 0
<1>1. Acts /\ backlog \in [Items -> Files]
  BY DEF Basic, Typed
<1>2. RunLane(a) \/ RunPost(a) \/ CompleteCheck(a) \/ CompleteMove(a) \/ CompleteMeta(a)
  BY DEF Continue, Undecided, RunLock, RunVerify, ShelveMove, ShelveMeta, CommitCheck, CommitDo, CommitRecord,
     Push, Pr, PrRecord, MergeView, MergeDo, Sync, MergeRecord, PushBase, PushRecord
<1>3. CASE RunLane(a)
  BY <1>1, <1>3, RunLaneMoves DEF Moves, Undecided
<1>4. CASE RunPost(a)
  <2>1. CASE End(a, "failed")
    BY <1>1, <2>1, EndsWith
  <2>2. CASE Go(a, "check")
    <3>1. "check" \in Places
      BY DEF Places
    <3> QED
      BY <1>1, <2>2, <3>1, Gone DEF Moves, Undecided
  <2> QED
    BY <1>4, <2>1, <2>2 DEF RunPost
<1>5. CASE CompleteCheck(a)
  <2>1. CASE End(a, "failed")
    BY <1>1, <2>1, EndsWith
  <2>2. CASE Go(a, "move")
    <3>1. "move" \in Places
      BY DEF Places
    <3> QED
      BY <1>1, <2>2, <3>1, Gone DEF Moves, Undecided
  <2> QED
    BY <1>5, <2>1, <2>2 DEF CompleteCheck
<1>6. CASE CompleteMove(a)
  <2>1. CASE End(a, "failed")
    BY <1>1, <2>1, EndsWith
  <2>2. CASE Go(a, "meta")
    <3>1. "meta" \in Places
      BY DEF Places
    <3> QED
      BY <1>1, <2>2, <3>1, Gone DEF Moves, Undecided
  <2> QED
    BY <1>6, <2>1, <2>2 DEF CompleteMove
<1>7. CASE CompleteMeta(a)
  <2>1. CASE End(a, "failed")
    BY <1>1, <2>1, EndsWith
  <2>2. CASE /\ FileAndGo(a, "commit-check")
             /\ backlog' = [backlog EXCEPT ![act[a].item].status = "completed", ![act[a].item].run = act[a].run]
    <3>1. "commit-check" \in Places
      BY DEF Places
    <3>2. Moves(a, "commit-check")
      BY <1>1, <2>2, <3>1, FileGone
    <3>3. Works(a)
      BY <1>7, Stand DEF Basic, CompleteMeta, Standing
    <3>4. backlog'[act[a].item].run = act[a].run
      BY <1>1, <2>2, <3>3 DEF Works, Files
    <3> QED
      BY <3>2, <3>3, <3>4, Numbers DEF Moves, Works
  <2> QED
    BY <1>7, <2>1, <2>2 DEF CompleteMeta
<1> QED
  BY <1>2, <1>3, <1>4, <1>5, <1>6, <1>7

(* After it, it goes on or ends, but never for want of the lock.           *)
LEMMA AfterContinues ==
  ASSUME Basic, NEW a \in Actors, Continue(a), act[a].pc \in After, act[a].job \in Transactions
  PROVE  /\ act'[a].job = act[a].job /\ act'[a].item = act[a].item
         /\ act'[a].pc \in After \/ (act'[a].pc = "done" /\ act'[a].result # "locked")
<1>1. Acts /\ act[a] \in Commands
  BY DEF Basic, Typed, Acts
<1>2. CommitCheck(a) \/ CommitDo(a) \/ CommitRecord(a) \/ Push(a) \/ Pr(a) \/ PrRecord(a)
      \/ MergeView(a) \/ MergeDo(a) \/ Sync(a) \/ MergeRecord(a)
  BY DEF Continue, After, RunLock, RunVerify, RunLane, RunPost, CompleteCheck, CompleteMove, CompleteMeta,
     ShelveMove, ShelveMeta, PushBase, PushRecord
<1>3. ASSUME NEW r, End(a, r) \/ FileAndEnd(a, r), r # "locked"
      PROVE  /\ act'[a].job = act[a].job /\ act'[a].item = act[a].item
             /\ act'[a].pc \in After \/ (act'[a].pc = "done" /\ act'[a].result # "locked")
  BY <1>1, <1>3, EndsWith
<1>4. ASSUME NEW pc \in After, Go(a, pc) \/ FileAndGo(a, pc) \/ (\E r \in Results :
               act' = [act EXCEPT ![a].pc = pc, ![a].result = r] \/ Filed(a, [act[a] EXCEPT !.pc = pc, !.result = r]))
      PROVE  act'[a].job = act[a].job /\ act'[a].item = act[a].item /\ act'[a].pc \in After
  <2>1. pc \in Places
    BY DEF After, Places
  <2> QED
    <3>1. CASE Go(a, pc) \/ FileAndGo(a, pc)
      BY <1>1, <2>1, <3>1, Gone, FileGone DEF Moves
    <3>2. ASSUME NEW r \in Results, act' = [act EXCEPT ![a].pc = pc, ![a].result = r]
          PROVE  Moves(a, pc)
      BY <1>1, <2>1, <3>2, GoneWith
    <3>3. ASSUME NEW r \in Results, Filed(a, [act[a] EXCEPT !.pc = pc, !.result = r])
          PROVE  Moves(a, pc)
      BY <1>1, <2>1, <3>3, FileGoneWith
    <3> QED
      BY <1>4, <3>1, <3>2, <3>3 DEF Moves
<1>5. CASE CommitCheck(a) \/ CommitDo(a) \/ CommitRecord(a)
  <2>1. Go(a, "commit") \/ Go(a, "record") \/ FileAndGo(a, "push") \/ FileAndEnd(a, "committed") \/ End(a, "failed")
    BY <1>5 DEF CommitCheck, CommitDo, CommitRecord
  <2> QED
    BY <1>3, <1>4, <2>1 DEF After
<1>6. ASSUME NEW status \in {"credential-blocked", "push-blocked", "pr-blocked"}, Refuse(a, status)
      PROVE  /\ act'[a].job = act[a].job /\ act'[a].item = act[a].item
             /\ act'[a].pc \in After \/ (act'[a].pc = "done" /\ act'[a].result # "locked")
  BY <1>3, <1>6 DEF Refuse
<1>7. CASE Push(a)
  <2>1. Go(a, "pr") \/ \E status \in {"credential-blocked", "push-blocked", "pr-blocked"} : Refuse(a, status)
    BY <1>7 DEF Push
  <2> QED
    BY <1>4, <1>6, <2>1 DEF After
<1>8. CASE Pr(a)
  <2>1. \/ \E status \in {"credential-blocked", "push-blocked", "pr-blocked"} : Refuse(a, status)
        \/ \E r \in Results : act' = [act EXCEPT ![a].pc = "pr-record", ![a].result = r]
    BY <1>8 DEF Pr, Results
  <2> QED
    BY <1>4, <1>6, <2>1 DEF After
<1>9. CASE PrRecord(a)
  <2>1. \/ \E r \in Results : Filed(a, [act[a] EXCEPT !.pc = "view", !.result = r])
        \/ FileAndEnd(a, "merged") \/ FileAndEnd(a, "published")
    BY <1>9 DEF PrRecord, Results, Transactions
  <2> QED
    BY <1>3, <1>4, <2>1 DEF After
<1>10. CASE MergeView(a) \/ MergeDo(a) \/ Sync(a) \/ MergeRecord(a)
  <2>1. \/ \E pc \in {"sync", "merge", "merge-record"} : Go(a, pc)
        \/ \E r \in {"merge-credential-blocked", "merge-blocked", "merge-sync-blocked", "merged"} : FileAndEnd(a, r)
    BY <1>10 DEF MergeView, MergeDo, Sync, MergeRecord
  <2> QED
    BY <1>3, <1>4, <2>1 DEF After
<1> QED
  BY <1>2, <1>5, <1>7, <1>8, <1>9, <1>10

(* The lock is free, and what is selected is the item of the pass.         *)
LEMMA BeforeContinues ==
  ASSUME Course, Work, loop.pc = "working", act[Watcher].pc \in Before
  PROVE  /\ act'[Watcher].job = act[Watcher].job
         /\ \/ act'[Watcher].pc = "verify" /\ runs' = runs
            \/ /\ act'[Watcher].pc = "lane" /\ act'[Watcher].item = loop.item
               /\ \E k \in Runs : /\ runs[k].item = 0
                                  /\ runs' = [runs EXCEPT ![k] = [item |-> loop.item, before |-> local, evidence |-> "none"]]
            \/ act'[Watcher].pc = "done" /\ act'[Watcher].result \in {"dirty", "failed"} /\ runs' = runs
<1>1. Basic /\ Acts /\ act[Watcher] \in Commands /\ Watcher \in Actors /\ Continue(Watcher)
  BY WatcherActs DEF Course, Whole, Basic, Typed, Acts, Work
<1>2. Selected(loop.item) /\ loop.item \in Items
  BY DEF Course, Turn, Chosen, Before
<1>3. RunLock(Watcher) \/ RunVerify(Watcher)
  BY <1>1 DEF Continue, Before, RunLane, RunPost, CompleteCheck, CompleteMove, CompleteMeta, ShelveMove, ShelveMeta,
     CommitCheck, CommitDo, CommitRecord, Push, Pr, PrRecord, MergeView, MergeDo, Sync, MergeRecord, PushBase,
     PushRecord
<1>4. CASE RunLock(Watcher)
  <2>1. lock = "free"
    <3>1. lock # "dead" /\ \A a \in Actors : lock = a => act[a].pc \in Holding /\ (a = Watcher \/ act[a].pc = "idle")
      BY DEF Course, Turn, Serial
    <3>2. \A a \in Actors : lock # a
      BY <1>4, <3>1 DEF RunLock, Holding
    <3> QED
      BY <3>1, <3>2 DEF Course, Whole, Basic, Typed
  <2>2. Go(Watcher, "verify") /\ runs' = runs /\ "verify" \in Places
    BY <1>4, <2>1 DEF RunLock, Places
  <2> QED
    BY <1>1, <2>2, Gone DEF Moves
<1>5. CASE RunVerify(Watcher)
  <2>1. CASE tree = 0 /\ \E i \in Items : Selected(i) /\ backlog[i].dir = "queued"
    <3>1. PICK i \in Items, k \in Runs :
            /\ Selected(i) /\ runs[k].item = 0
            /\ runs' = [runs EXCEPT ![k] = [item |-> i, before |-> local, evidence |-> "none"]]
            /\ act' = [act EXCEPT ![Watcher].pc = "lane", ![Watcher].run = k, ![Watcher].item = i]
      BY <1>5, <2>1 DEF RunVerify
    <3>2. i = loop.item
      <4>1. i \in Nat /\ loop.item \in Nat
        BY <1>2, Numbers
      <4>2. i <= loop.item /\ loop.item <= i
        BY <1>2, <3>1 DEF Selected
      <4> QED
        BY <4>1, <4>2
    <3> DEFINE d == [act[Watcher] EXCEPT !.pc = "lane", !.run = k, !.item = i]
    <3>3. act'[Watcher] = d
      BY <1>1, <3>1 DEF Acts, Commands
    <3>4. d.pc = "lane" /\ d.item = i /\ d.job = act[Watcher].job
      BY <1>1 DEF Commands
    <3> HIDE DEF d
    <3> QED
      BY <3>1, <3>2, <3>3, <3>4
  <2>2. CASE ~(tree = 0 /\ \E i \in Items : Selected(i) /\ backlog[i].dir = "queued")
    <3>1. (End(Watcher, "dirty") \/ End(Watcher, "failed")) /\ runs' = runs
      BY <1>5, <2>2 DEF RunVerify
    <3> QED
      BY <1>1, <3>1, EndsWith
  <2> QED
    BY <2>1, <2>2
<1> QED
  BY <1>3, <1>4, <1>5

LEMMA AttemptBegins ==
  ASSUME Basic, NEW i \in Items, NEW job \in Transactions, BeginTransaction(Watcher, i, job)
  PROVE  /\ act'[Watcher].job \in Transactions
         /\ act'[Watcher].pc = "lock" \/ (act'[Watcher].pc = "check" /\ act'[Watcher].item = i)
<1>1. {"check", "lock"} \subseteq Places /\ job \in Tasks
  BY DEF Places, Tasks, Transactions
<1>2. Acts /\ tree \in 0 .. MaxRuns
  BY DEF Basic, Typed
<1>3. \/ Launch(Watcher, Task(job, "check", i, tree))
      \/ Launch(Watcher, Task(job, "lock", i, 0))
  BY DEF BeginTransaction
<1>4. Begins(Watcher, "check", job, i, tree) \/ Begins(Watcher, "lock", job, i, 0)
  BY <1>1, <1>2, <1>3, Numbers, WatcherActs, Begun
<1> QED
  BY <1>4 DEF Begins

(* What the loop does when an implementation ended.                        *)
LEMMA Failing ==
  ASSUME Tried, LoopFailed
  PROVE  /\ loop.item \in Items
         /\ \E c \in Kinds \ {"locked"} :
              /\ act[Watcher].result = "dirty" => c = "dirty"
              /\ act[Watcher].result # "dirty" => c \in Causes
              /\ incidents'[loop.item][c] = Counted(incidents[loop.item][c])
              /\ \A d \in Kinds \ {c} : incidents'[loop.item][d] = incidents[loop.item][d]
              /\ \A j \in Items \ {loop.item} : incidents'[j] = incidents[j]
<1>1. loop.pc = "working" /\ act[Watcher].pc = "done" /\ loop.item \in Items
  BY DEF LoopFailed, Ended, Tried, Course, Turn, Chosen
<1>2. act[Watcher].result \in {"dirty", "failed"}
  BY <1>1 DEF LoopFailed, Tried, Attempting
<1>3. PICK c \in Blamed(act[Watcher].result) : incidents' = [incidents EXCEPT ![loop.item][c] = Counted(@)]
  BY DEF LoopFailed
<1>4. c \in Kinds \ {"locked"}
  BY <1>2, <1>3, WatchAssumption DEF WatchAssumption, Blamed, Kinds
<1>5. /\ act[Watcher].result = "dirty" => c = "dirty"
      /\ act[Watcher].result # "dirty" => c \in Causes
  BY <1>2, <1>3 DEF Blamed
<1>6. incidents \in [Items -> [Kinds -> 0 .. Threshold]]
  BY DEF Tried, Course, Turn, WatchTyped
<1> QED
  BY <1>1, <1>3, <1>4, <1>5, <1>6, CountTyped

LEMMA NeverLockedNext ==
  ASSUME Tried, [WatchNext]_watchVars
  PROVE  NeverLocked'
<1>1. CASE incidents' = incidents
  BY <1>1 DEF Tried, NeverLocked
<1>2. CASE LoopFailed
  <2>1. \A i \in Items : incidents'[i]["locked"] = incidents[i]["locked"]
    BY <1>2, Failing DEF Kinds
  <2> QED
    BY <2>1 DEF Tried, NeverLocked
<1>3. Loop /\ ~LoopFailed => incidents' = incidents
  BY DEF Loop, LoopRefill, LoopMerge, LoopMergeNext, LoopMerged, LoopMergesDone, LoopPoll, LoopPollEnds, LoopPush,
     LoopPushed, LoopSelect, LoopEmpty, LoopAttempt, LoopWorked, LoopBlock, LoopBlocked, Quiet, watch
<1> QED
  BY <1>1, <1>2, <1>3 DEF WatchNext, Work, WatchDies, Start, Quiet, Beside, Around, watch, watchVars

LEMMA AttemptingNext ==
  ASSUME Turns, Tried, [WatchNext]_watchVars
  PROVE  Attempting'
<1>1. loop \in Loops /\ Attempting /\ Serial /\ Whole /\ Basic /\ Course /\ WatchTyped
  BY DEF Tried, Course, Turn, WatchTyped, Whole
<1>2. ASSUME loop'.pc # "working" PROVE Attempting'
  BY <1>2 DEF Attempting
<1>3. CASE UNCHANGED <<loop, act, backlog, incidents>>
  BY <1>1, <1>3 DEF Attempting
<1>4. CASE Loop /\ loop'.pc = "working"
  <2>1. LoopAttempt
    <3>1. ~(LoopPush \/ LoopBlock)
      BY <1>1, <1>4, StopTyped DEF LoopPush, LoopBlock, Pass, Loops
    <3>2. ~(LoopMerge \/ LoopMerged)
      BY <1>1, <1>4, MergeLeads
    <3>3. ~LoopMergeNext
      BY <1>1, <1>4, MergeLaunched DEF LoopMergeNext
    <3>4. ~(LoopFailed /\ Pass("block"))
      BY <1>1, <1>4 DEF Pass, Loops
    <3>5. ~(loop' = [loop EXCEPT !.pc = "attempt", !.item = Min(Ready)])
      BY <1>1, <1>4 DEF Loops
    <3> QED
      BY <1>1, <1>4, <3>1, <3>2, <3>3, <3>4, <3>5, LoopLeads
  <2>2. /\ loop'.item = loop.item /\ loop.item \in Items /\ incidents' = incidents
        /\ \E job \in Transactions : BeginTransaction(Watcher, loop.item, job)
        /\ Repeated = {} \/ \E c \in Repeated : Resolved(c)
    BY <1>1, <1>4, <2>1, TransactionLaunched DEF Busy
  <2>3. /\ act'[Watcher].job \in Transactions
        /\ act'[Watcher].pc = "lock" \/ (act'[Watcher].pc = "check" /\ act'[Watcher].item = loop.item)
    BY <1>1, <2>2, AttemptBegins
  <2>4. \A c \in Causes : incidents[loop.item][c] < Threshold
    <3>1. "locked" \notin Repeated
      BY <2>2, WatcherActs DEF Repeated, Tried, NeverLocked
    <3>2. Repeated = {}
      BY <2>2, <3>1 DEF Resolved
    <3>3. \A c \in Causes : c \in Kinds /\ incidents[loop.item][c] \in 0 .. Threshold
      BY <1>1, <2>2 DEF Kinds, WatchTyped
    <3> QED
      BY <3>2, <3>3, WatcherActs DEF Repeated
  <2> QED
    BY <2>2, <2>3, <2>4 DEF Attempting, Before, Undecided, After
<1>5. CASE Work /\ loop.pc = "working"
  <2>1. Continue(Watcher) /\ loop' = loop /\ incidents' = incidents /\ Watcher \in Actors
    BY <1>5, WatcherActs DEF Work, watch
  <2>2. loop.item \in Items /\ act[Watcher].job \in Transactions
    BY <1>1, <1>5 DEF Course, Turn, Chosen, Attempting
  <2>3. act[Watcher].pc \in Before \cup Undecided \cup After
    <3>1. act[Watcher].pc # "done"
      BY <1>1, <2>1, ContinueHolds DEF Serial
    <3> QED
      BY <1>1, <1>5, <3>1 DEF Attempting
  <2>4. CASE act[Watcher].pc \in Before
    <3>1. \A c \in Causes : incidents[loop.item][c] < Threshold
      BY <1>1, <1>5, <2>4 DEF Attempting
    <3> QED
      BY <1>1, <1>5, <2>1, <2>2, <2>4, <3>1, BeforeContinues DEF Attempting, Before, Undecided, After
  <2>5. CASE act[Watcher].pc \in Undecided
    <3>1. act[Watcher].item = loop.item
      BY <1>1, <1>5, <2>5 DEF Attempting
    <3>2. /\ act'[Watcher].job = act[Watcher].job /\ act'[Watcher].item = loop.item
          /\ \/ act'[Watcher].pc \in Undecided
             \/ act'[Watcher].pc = "done" /\ act'[Watcher].result = "failed"
             \/ act'[Watcher].pc = "commit-check" /\ backlog'[loop.item].run # 0
      BY <1>1, <2>1, <2>2, <2>5, <3>1, UndecidedContinues
    <3> QED
      BY <2>1, <2>2, <3>2 DEF Attempting, Before, Undecided, After
  <2>6. CASE act[Watcher].pc \in After
    <3>1. act[Watcher].item = loop.item /\ backlog[loop.item].run # 0
      BY <1>1, <1>5, <2>6 DEF Attempting
    <3>2. /\ act'[Watcher].job = act[Watcher].job /\ act'[Watcher].item = loop.item
          /\ act'[Watcher].pc \in After \/ (act'[Watcher].pc = "done" /\ act'[Watcher].result # "locked")
      BY <1>1, <2>1, <2>2, <2>6, <3>1, AfterContinues
    <3>3. backlog'[loop.item].run # 0
      <4>1. [Next]_vars
        BY <2>1 DEF Next
      <4> QED
        BY <1>1, <2>2, <3>1, <4>1, CompletersKept DEF Whole
    <3> QED
      BY <2>1, <2>2, <3>2, <3>3 DEF Attempting, Before, Undecided, After
  <2> QED
    BY <2>3, <2>4, <2>5, <2>6
<1>6. CASE WatchDies
  BY <1>2, <1>6, StopTyped DEF WatchDies
<1>7. ASSUME NEW m \in Modes, Start(m) PROVE Attempting'
  BY <1>1, <1>2, <1>7, StartTyped
<1>8. ASSUME NEW a \in Actors, Beside(a) PROVE Attempting'
  BY <1>2, <1>8 DEF Beside, Turns, watch
<1>9. CASE Around
  BY <1>3, <1>9, AroundLeaves
<1>10. Work => loop' = loop
  BY DEF Work, watch
<1> QED
  BY <1>2, <1>3, <1>4, <1>5, <1>6, <1>7, <1>8, <1>9, <1>10 DEF WatchNext, watchVars, vars

-----------------------------------------------------------------------------
(* Every attempt is accounted for.                                         *)

Attempts(i) == {k \in Runs : runs[k].item = i}

(* The failures that were counted, short of the one that ends the item.    *)
Low(i, c) ==
  IF c \notin Causes THEN 0 ELSE IF incidents[i][c] < Threshold THEN incidents[i][c] ELSE Threshold - 1

(* An attempt that has begun, or failed and is not counted yet.            *)
Underway(i) ==
  /\ loop.pc = "working" /\ loop.item = i
  /\ act[Watcher].pc \in Undecided \cup After \/ (act[Watcher].pc = "done" /\ act[Watcher].result # "dirty")

(* No other attempt begins before this one ends.                           *)
Over(i) == backlog[i].run # 0 \/ (\E c \in Causes : incidents[i][c] = Threshold) \/ Underway(i)

(* Each attempt of an item was counted as a failure of some cause, ended   *)
(* with a crash, or is the last one.                                       *)
ChargedTo(i) ==
  Cardinality(Attempts(i)) <= Low(i, "product") + Low(i, "external") + crashes + (IF Over(i) THEN 1 ELSE 0)
Charged == \A i \in Items : ChargedTo(i)

LEMMA AttemptsFinite ==
  ASSUME NEW i
  PROVE  IsFiniteSet(Attempts(i)) /\ Cardinality(Attempts(i)) \in Nat
<1>1. IsFiniteSet(Runs)
  BY DeliveryAssumption, FS_Interval DEF DeliveryAssumption, Runs
<1>2. Attempts(i) \subseteq Runs
  BY DEF Attempts
<1>3. IsFiniteSet(Attempts(i))
  BY <1>1, <1>2, FS_Subset
<1> QED
  BY <1>3, FS_CardinalityType

AttemptsCount == \A i \in Items : Cardinality(Attempts(i)) \in Nat
LEMMA AttemptsCounted == AttemptsCount
BY AttemptsFinite DEF AttemptsCount
LEMMA AttemptsCountedNext == AttemptsCount'
BY AttemptsCounted, PTL

LEMMA LowTypes ==
  ASSUME WatchTyped, NEW i \in Items, NEW c \in {"product", "external"}
  PROVE  Low(i, c) \in 0 .. Threshold - 1
<1>1. c \in Causes => incidents[i][c] \in 0 .. Threshold
  BY DEF WatchTyped, Kinds
<1> QED
  BY <1>1, WatcherActs DEF Low

LowTyped == \A i \in Items : \A c \in {"product", "external"} : Low(i, c) \in 0 .. Threshold - 1
LEMMA LowsTyped == WatchTyped => LowTyped
BY LowTypes DEF LowTyped
LEMMA LowsTypedNext == WatchTyped' => LowTyped'
BY LowsTyped, PTL

(* Only the check before an implementation starts a run.                   *)
LEMMA RunsVerified ==
  ASSUME Basic, [Next]_vars, \A a \in Actors : ~RunVerify(a)
  PROVE  \A i : Attempts(i)' = Attempts(i)
<1>1. runs \in [Runs -> Entries]
  BY DEF Basic, Typed
<1>2. ASSUME \A k \in Runs : runs'[k].item = runs[k].item PROVE \A i : Attempts(i)' = Attempts(i)
  BY <1>2 DEF Attempts
<1>3. ASSUME NEW a \in Actors, RunLane(a) \/ \E j \in Runs : Recover(a, j)
      PROVE  \A k \in Runs : runs'[k].item = runs[k].item
  BY <1>1, <1>3 DEF RunLane, Recover, Entries
<1>4. CASE UNCHANGED vars
  BY <1>2, <1>4 DEF vars
<1>5. ASSUME NEW a \in Actors, Begin(a), ~\E j \in Runs : Recover(a, j)
      PROVE  runs' = runs
  BY <1>5 DEF Begin, BeginTransaction, BeginComplete, BeginCommit, BeginMerge, BeginPushBase,
     BeginRetry, BeginShelve
<1>6. ASSUME NEW a \in Actors, Continue(a), ~RunLane(a)
      PROVE  runs' = runs
  BY <1>6 DEF Continue, RunLock, RunPost, CompleteCheck, CompleteMove, CompleteMeta, ShelveMove, ShelveMeta,
     CommitCheck, CommitDo, CommitRecord, Push, Pr, PrRecord, MergeView, MergeDo, Sync, MergeRecord,
     PushBase, PushRecord
<1>7. CASE Environment
  BY <1>2, <1>7, EnvironmentBasic
<1>8. ASSUME NEW a \in Actors, Finish(a) \/ Crash(a) PROVE runs' = runs
  BY <1>8 DEF Finish, Crash
<1> QED
  BY <1>2, <1>3, <1>4, <1>5, <1>6, <1>7, <1>8 DEF Next

(* A step that counts nothing, and ends no attempt but by a crash.         *)
LEMMA ChargedKept ==
  ASSUME Tried, Course', NEW i \in Items, ChargedTo(i), Attempts(i)' = Attempts(i), incidents' = incidents,
         (crashes' = crashes /\ (Over(i) => Over(i)')) \/ crashes' = crashes + 1
  PROVE  ChargedTo(i)'
<1>1. crashes \in Nat /\ crashes' \in Nat
  BY DeliveryAssumption DEF DeliveryAssumption, Tried, Course, Whole, Basic, Typed
<1>2. Low(i, "product") \in Nat /\ Low(i, "external") \in Nat
  BY WatcherActs, LowTypes DEF Tried, Course, Turn
<1>3. Low(i, "product")' = Low(i, "product") /\ Low(i, "external")' = Low(i, "external")
  BY DEF Low
<1>4. Cardinality(Attempts(i)) \in Nat
  BY AttemptsFinite
<1> DEFINE p == Low(i, "product")
           e == Low(i, "external")
           n == Cardinality(Attempts(i))
<1>5. n <= p + e + crashes + (IF Over(i) THEN 1 ELSE 0)
  BY DEF ChargedTo
<1>6. n' = n /\ p' = p /\ e' = e
  BY <1>3
<1>7. n \in Nat /\ p \in Nat /\ e \in Nat
  BY <1>2, <1>4
<1> HIDE DEF n, p, e
<1>8. n <= p + e + crashes' + (IF Over(i)' THEN 1 ELSE 0)
  <2>1. CASE crashes' = crashes + 1
    BY <1>1, <1>5, <1>7, <2>1
  <2>2. CASE crashes' = crashes /\ (Over(i) => Over(i)')
    BY <1>1, <1>5, <1>7, <2>2
  <2> QED
    BY <2>1, <2>2
<1>9. n' <= p' + e' + crashes' + (IF Over(i)' THEN 1 ELSE 0)
  BY <1>6, <1>8
<1> QED
  BY <1>9 DEF n, p, e, ChargedTo

LEMMA StartingNext ==
  ASSUME Turns, Tried, [WatchNext]_watchVars
  PROVE  Starting'
<1>1. Acts /\ Basic /\ Serial /\ Starting /\ Course /\ loop \in Loops
  BY DEF Tried, Course, Whole, Basic, Typed, Turn, WatchTyped
<1>2. ASSUME act'[Watcher].pc \notin Before PROVE Starting'
  BY <1>2 DEF Starting
<1>3. CASE Loop
  <2>1. CASE loop'.pc \notin Busy \/ LoopMerge \/ LoopMerged
    <3>1. CASE UNCHANGED <<act, lock>> /\ act[Watcher].pc = "idle"
      BY <1>2, <3>1 DEF Before
    <3>2. CASE Took
      BY <1>1, <1>2, <3>2, WatcherActs, Cleared DEF Took, Before
    <3> QED
      BY <1>1, <1>3, <2>1, <3>1, <3>2, LoopRests
  <2>2. CASE LoopMergeNext
    BY <1>1, <1>2, <2>2, MergeLaunched DEF Before
  <2>3. CASE LoopPush /\ loop'.pc \in Busy
    BY <1>1, <1>2, <2>3, PushLaunched DEF Before
  <2>4. CASE LoopAttempt /\ loop'.pc \in Busy
    BY <1>1, <2>4, TransactionLaunched DEF Starting
  <2>5. CASE LoopBlock /\ loop'.pc \in Busy
    BY <1>1, <1>2, <2>5, BlockLaunched DEF Before
  <2>6. LoopFailed /\ Pass("block") => loop'.pc \notin Busy
    BY <1>1 DEF Pass, Loops, Busy
  <2>7. loop' = [loop EXCEPT !.pc = "attempt", !.item = Min(Ready)] => loop'.pc \notin Busy
    BY <1>1 DEF Loops, Busy
  <2>8. {"stopped", "refill", "merge", "push", "select", "empty", "creds"} \cap Busy = {}
    BY DEF Busy
  <2> QED
    BY <1>1, <1>3, <2>1, <2>2, <2>3, <2>4, <2>5, <2>6, <2>7, <2>8, LoopLeads
<1>4. CASE Work
  <2>1. act'[Watcher].pc \in Before => act[Watcher].pc = "lock"
    BY <1>1, <1>4, WatcherActs, ContinueHolds DEF Work, Serial, Before
  <2> QED
    BY <1>1, <1>4, <2>1 DEF Starting, Before, Work, watch
<1>5. CASE WatchDies
  BY <1>1, <1>2, <1>5, WatcherActs, Cleared DEF WatchDies, Crash, Before
<1>6. ASSUME NEW m \in Modes, Start(m) PROVE Starting'
  BY <1>2, <1>6 DEF Start, Quiet, vars, Before
<1>7. ASSUME NEW a \in Actors, Beside(a) PROVE Starting'
  <2>1. act[Watcher].pc = "idle" /\ a # Watcher
    BY <1>1, <1>7 DEF Beside, Turns, Serial, Busy
  <2>2. Others(a)
    <3>1. CASE Begin(a)
      BY <1>1, <3>1, BeginTransactionBegins, BeginShelveBegins, BeginCompleteBegins, BeginCommitBegins,
         BeginMergeBegins, BeginPushBaseBegins, BeginRetryBegins, RecoverBegins DEF Begin, Begins
    <3>2. CASE Continue(a)
      BY <1>1, <3>2, <2>1, ContinueHolds DEF Serial
    <3>3. CASE Finish(a) \/ Crash(a)
      BY <1>1, <3>3, Cleared DEF Finish, Crash
    <3> QED
      BY <1>7, <3>1, <3>2, <3>3 DEF Beside
  <2>3. act'[Watcher].pc = "idle"
    BY <2>1, <2>2, WatcherActs DEF Others, Kept
  <2> QED
    BY <1>2, <2>3 DEF Before
<1>8. CASE Around
  BY <1>1, <1>8, AroundLeaves DEF Starting
<1>9. CASE UNCHANGED watchVars
  BY <1>1, <1>9 DEF watchVars, vars, Starting
<1> QED
  BY <1>3, <1>4, <1>5, <1>6, <1>7, <1>8, <1>9 DEF WatchNext

LEMMA TriedNext ==
  ASSUME Turns, Tried, [WatchNext]_watchVars
  PROVE  Tried'
<1>1. Course'
  BY CourseNext DEF Tried
<1> QED
  BY <1>1, AttemptingNext, NeverLockedNext, StartingNext DEF Tried

(* An item is over for good, unless the last attempt counts for less.      *)
LEMMA OverKept ==
  ASSUME Tried, [Next]_vars, NEW i \in Items, incidents' = incidents, Underway(i) => Over(i)'
  PROVE  Over(i) => Over(i)'
<1>1. backlog[i].run # 0 => backlog'[i].run # 0
  BY CompletersKept DEF Tried, Course, Whole
<1> QED
  BY <1>1 DEF Over

(* A run that starts is the last of its item, as far as is known.          *)
LEMMA ChargedStarts ==
  ASSUME Turns, Tried, Course', Charged, Work, loop.pc = "working", act[Watcher].pc \in Before,
         NEW i \in Items
  PROVE  ChargedTo(i)'
<1>1. /\ [Next]_vars /\ loop' = loop /\ incidents' = incidents /\ Watcher \in Actors
  BY WatcherActs DEF Work, watch, Next
<1>2. crashes' = crashes
  BY DEF Work, Continue, RunLock, RunVerify, RunLane, RunPost, CompleteCheck, CompleteMove, CompleteMeta, ShelveMove,
     ShelveMeta, CommitCheck, CommitDo, CommitRecord, Push, Pr, PrRecord, MergeView, MergeDo, Sync, MergeRecord,
     PushBase, PushRecord
<1>3. ~Underway(i)
  BY DEF Underway, Before, Undecided, After
<1>4. Over(i) => Over(i)'
  BY <1>1, <1>3, OverKept
<1>5. CASE runs' = runs
  <2>1. Attempts(i)' = Attempts(i)
    BY <1>5 DEF Attempts
  <2> QED
    BY <1>1, <1>2, <1>4, <2>1, ChargedKept DEF Charged
<1>6. CASE runs' # runs
  <2>1. /\ act'[Watcher].pc = "lane"
        /\ \E k \in Runs : /\ runs[k].item = 0
                           /\ runs' = [runs EXCEPT ![k] = [item |-> loop.item, before |-> local, evidence |-> "none"]]
    BY <1>6, BeforeContinues DEF Tried
  <2>2. PICK k \in Runs : /\ runs[k].item = 0
                          /\ runs' = [runs EXCEPT ![k] = [item |-> loop.item, before |-> local, evidence |-> "none"]]
    BY <2>1
  <2>3. runs \in [Runs -> Entries] /\ i # 0
    BY Numbers DEF Tried, Course, Whole, Basic, Typed
  <2>4. runs'[k].item = loop.item /\ \A j \in Runs \ {k} : runs'[j].item = runs[j].item
    BY <2>2, <2>3
  <2>5. CASE i # loop.item
    <3>1. Attempts(i)' = Attempts(i)
      BY <2>2, <2>3, <2>4, <2>5 DEF Attempts
    <3> QED
      BY <1>1, <1>2, <1>4, <3>1, ChargedKept DEF Charged
  <2>6. CASE i = loop.item
    <3>1. Attempts(i)' = Attempts(i) \cup {k} /\ k \notin Attempts(i)
      BY <2>2, <2>3, <2>4, <2>6 DEF Attempts
    <3>2. Cardinality(Attempts(i)') = Cardinality(Attempts(i)) + 1
      BY <3>1, AttemptsFinite, FS_AddElement
    <3>3. ~Over(i)
      <4>1. Selected(i)
        BY <2>6 DEF Tried, Course, Turn, Chosen, Before
      <4>2. backlog[i].run = 0
        BY <4>1 DEF Selected, Ready, Executable, Tried, Course, Honest, Completed
      <4>3. \A c \in Causes : incidents[i][c] < Threshold /\ incidents[i][c] \in 0 .. Threshold
        BY <2>6 DEF Tried, Attempting, Course, Turn, WatchTyped, Kinds
      <4> QED
        BY <1>3, <4>2, <4>3, WatcherActs DEF Over
    <3>4. Over(i)'
      BY <1>1, <2>1, <2>6 DEF Over, Underway, Undecided
    <3>5. Low(i, "product")' = Low(i, "product") /\ Low(i, "external")' = Low(i, "external")
      BY <1>1 DEF Low
    <3>6. crashes \in Nat /\ Low(i, "product") \in Nat /\ Low(i, "external") \in Nat /\ Cardinality(Attempts(i)) \in Nat
      BY DeliveryAssumption, WatcherActs, LowTypes, AttemptsFinite
      DEF DeliveryAssumption, Tried, Course, Whole, Basic, Typed, Turn
    <3> DEFINE p == Low(i, "product")
               e == Low(i, "external")
               n == Cardinality(Attempts(i))
    <3>7. n <= p + e + crashes
      BY <3>3, <3>6 DEF Charged, ChargedTo
    <3>8. n' = n + 1 /\ p' = p /\ e' = e /\ n \in Nat /\ p \in Nat /\ e \in Nat
      BY <3>2, <3>5, <3>6
    <3> HIDE DEF n, p, e
    <3>9. n' <= p' + e' + crashes' + 1
      BY <1>2, <3>6, <3>7, <3>8
    <3> QED
      BY <3>4, <3>9 DEF n, p, e, ChargedTo
  <2> QED
    BY <2>5, <2>6
<1> QED
  BY <1>5, <1>6

(* A failure that is counted pays for its attempt, or is the last one.     *)
LEMMA ChargedFails ==
  ASSUME Tried, Course', Charged, [Next]_vars, LoopFailed, NEW i \in Items
  PROVE  ChargedTo(i)'
<1>1. /\ loop.pc = "working" /\ act[Watcher].pc = "done" /\ act[Watcher].result \in {"dirty", "failed"}
      /\ UNCHANGED <<runs, crashes>>
  BY DEF LoopFailed, Ended, Tried, Attempting, Took
<1>2. PICK c \in Kinds \ {"locked"} :
         /\ act[Watcher].result = "dirty" => c = "dirty"
         /\ act[Watcher].result # "dirty" => c \in Causes
         /\ incidents'[loop.item][c] = Counted(incidents[loop.item][c])
         /\ \A d \in Kinds \ {c} : incidents'[loop.item][d] = incidents[loop.item][d]
         /\ \A j \in Items \ {loop.item} : incidents'[j] = incidents[j]
  BY Failing
<1>3. Attempts(i)' = Attempts(i)
  BY <1>1 DEF Attempts
<1>4. backlog[i].run # 0 => backlog'[i].run # 0
  BY CompletersKept DEF Tried, Course, Whole
<1>5. /\ crashes \in Nat /\ Cardinality(Attempts(i)) \in Nat
      /\ LowTyped /\ LowTyped' /\ Threshold \in Nat /\ Threshold > 0
  BY DeliveryAssumption, WatcherActs, LowsTyped, LowsTypedNext, AttemptsFinite
  DEF DeliveryAssumption, Tried, Course, Whole, Basic, Typed, Turn
<1>6. "dirty" \notin Causes /\ Causes \subseteq {"product", "external"} /\ Causes \subseteq Kinds
  BY WatchAssumption DEF WatchAssumption, Kinds
<1> DEFINE p == Low(i, "product")
           e == Low(i, "external")
           n == Cardinality(Attempts(i))
<1>7. /\ n \in Nat /\ p \in Nat /\ e \in Nat /\ p' \in Nat /\ e' \in Nat /\ n' = n
      /\ n <= p + e + crashes + (IF Over(i) THEN 1 ELSE 0)
  <2>1. p \in Nat /\ e \in Nat /\ p' \in Nat /\ e' \in Nat
    BY <1>5 DEF LowTyped
  <2> QED
    BY <1>3, <1>5, <2>1 DEF Charged, ChargedTo
<1>8. ASSUME \A d \in Causes : incidents'[i][d] = incidents[i][d], ~Underway(i)
      PROVE  ChargedTo(i)'
  <2>1. p' = p /\ e' = e
    BY <1>8 DEF Low
  <2>2. Over(i) => Over(i)'
    BY <1>4, <1>8 DEF Over
  <2> HIDE DEF n, p, e
  <2>3. n' <= p' + e' + crashes' + (IF Over(i)' THEN 1 ELSE 0)
    BY <1>1, <1>5, <1>7, <2>1, <2>2
  <2> QED
    BY <2>3 DEF n, p, e, ChargedTo
<1>9. CASE i # loop.item
  <2>1. ~Underway(i)
    BY <1>9 DEF Underway
  <2>2. \A d \in Causes : incidents'[i][d] = incidents[i][d]
    BY <1>2, <1>9
  <2> QED
    BY <1>8, <2>1, <2>2
<1>10. CASE i = loop.item /\ act[Watcher].result = "dirty"
  <2>1. ~Underway(i)
    BY <1>1, <1>10 DEF Underway, Undecided, After
  <2>2. \A d \in Causes : incidents'[i][d] = incidents[i][d]
    BY <1>2, <1>6, <1>10
  <2> QED
    BY <1>8, <2>1, <2>2
<1>11. CASE i = loop.item /\ act[Watcher].result # "dirty"
  <2>1. /\ c \in Causes /\ incidents[i][c] \in 0 .. Threshold /\ incidents'[i][c] = Counted(incidents[i][c])
        /\ \A d \in Causes \ {c} : incidents'[i][d] = incidents[i][d]
    BY <1>2, <1>6, <1>11 DEF Tried, Course, Turn, WatchTyped
  <2>2. \A d \in {"product", "external"} \ {c} : Low(i, d)' = Low(i, d)
    BY <2>1 DEF Low
  <2>3. \/ Low(i, c)' = Low(i, c) + 1
        \/ Low(i, c)' = Low(i, c) /\ incidents'[i][c] = Threshold
    BY <1>5, <2>1 DEF Low, Counted
  <2>4. \/ p' + e' = p + e + 1
        \/ p' + e' = p + e /\ Over(i)'
    <3>1. CASE c = "product"
      BY <1>7, <2>1, <2>2, <2>3, <3>1 DEF Over
    <3>2. CASE c = "external"
      BY <1>7, <2>1, <2>2, <2>3, <3>2 DEF Over
    <3> QED
      BY <1>6, <2>1, <3>1, <3>2
  <2> HIDE DEF n, p, e
  <2>5. n' <= p' + e' + crashes' + (IF Over(i)' THEN 1 ELSE 0)
    BY <1>1, <1>5, <1>7, <2>4
  <2> QED
    BY <2>5 DEF n, p, e, ChargedTo
<1> QED
  BY <1>9, <1>10, <1>11

(* The command of the watch goes on with an attempt that has begun.        *)
LEMMA ChargedWork ==
  ASSUME Turns, Tried, Course', Charged, Work, NEW i \in Items
  PROVE  ChargedTo(i)'
<1>1. /\ [Next]_vars /\ loop' = loop /\ incidents' = incidents /\ Watcher \in Actors /\ Continue(Watcher)
      /\ Basic /\ Serial /\ Attempting
  BY WatcherActs DEF Work, watch, Next, Tried, Course, Turn, Whole
<1>2. crashes' = crashes
  BY DEF Work, Continue, RunLock, RunVerify, RunLane, RunPost, CompleteCheck, CompleteMove, CompleteMeta, ShelveMove,
     ShelveMeta, CommitCheck, CommitDo, CommitRecord, Push, Pr, PrRecord, MergeView, MergeDo, Sync, MergeRecord,
     PushBase, PushRecord
<1>3. CASE act[Watcher].pc \in Before
  BY <1>3, ChargedStarts DEF Tried, Starting
<1>4. CASE act[Watcher].pc \notin Before
  <2>1. \A a \in Actors : ~RunVerify(a)
    BY <1>1, <1>4 DEF RunVerify, Serial, Holding, Before
  <2>2. Attempts(i)' = Attempts(i)
    BY <1>1, <2>1, RunsVerified
  <2>3. ASSUME Underway(i) PROVE Over(i)'
    <3>1. loop.pc = "working" /\ loop.item = i /\ act[Watcher].job \in Transactions
      BY <1>1, <2>3 DEF Underway, Attempting
    <3>2. act[Watcher].pc # "done"
      BY <1>1, ContinueHolds DEF Serial
    <3>3. CASE act[Watcher].pc \in Undecided
      <4>1. act[Watcher].item = i
        BY <1>1, <3>1, <3>3 DEF Attempting
      <4>2. \/ act'[Watcher].pc \in Undecided
            \/ act'[Watcher].pc = "done" /\ act'[Watcher].result = "failed"
            \/ act'[Watcher].pc = "commit-check" /\ backlog'[i].run # 0
        BY <1>1, <3>1, <3>3, <4>1, UndecidedContinues
      <4> QED
        BY <1>1, <3>1, <4>2 DEF Over, Underway
    <3>4. CASE act[Watcher].pc \in After
      <4>1. backlog[i].run # 0
        BY <1>1, <3>1, <3>4 DEF Attempting
      <4> QED
        BY <1>1, <4>1, CompletersKept DEF Over, Tried, Course, Whole
    <3> QED
      BY <2>3, <3>2, <3>3, <3>4 DEF Underway
  <2>4. Over(i) => Over(i)'
    BY <1>1, <2>3, OverKept
  <2> QED
    BY <1>1, <1>2, <2>2, <2>4, ChargedKept DEF Charged
<1> QED
  BY <1>3, <1>4

LEMMA ChargedNext ==
  ASSUME Turns, Tried, Course', Charged, [WatchNext]_watchVars
  PROVE  Charged'
<1> SUFFICES ASSUME NEW i \in Items PROVE ChargedTo(i)'
  BY DEF Charged
<1>1. [Next]_vars /\ Basic /\ Serial /\ Attempting
  BY CourseNext DEF Tried, Course, Turn, Whole
<1>2. ASSUME Attempts(i)' = Attempts(i), incidents' = incidents,
             (crashes' = crashes /\ (Underway(i) => Over(i)')) \/ crashes' = crashes + 1
      PROVE  ChargedTo(i)'
  BY <1>1, <1>2, OverKept, ChargedKept DEF Charged
<1>3. CASE UNCHANGED <<runs, incidents, crashes, loop, act>>
  <2>1. Attempts(i)' = Attempts(i)
    BY <1>3 DEF Attempts
  <2>2. Underway(i) => Over(i)'
    BY <1>3 DEF Underway, Over
  <2> QED
    BY <1>2, <1>3, <2>1, <2>2
<1>4. CASE LoopFailed
  BY <1>1, <1>4, ChargedFails
<1>5. CASE Loop /\ ~LoopFailed
  <2>1. UNCHANGED <<runs, incidents, crashes>>
    <3>1. CASE LoopAttempt
      BY <1>5, <3>1 DEF LoopAttempt, Transact, BeginTransaction, vars
    <3>2. CASE LoopBlock
      BY <1>5, <3>2 DEF LoopBlock, BeginShelve, vars
    <3> QED
      BY <1>5, <3>1, <3>2 DEF Loop, LoopRefill, LoopMerge, LoopMergeNext, LoopMerged, LoopMergesDone, LoopPoll,
         LoopPollEnds, LoopPush, LoopPushed, LoopSelect, LoopEmpty, LoopWorked, LoopBlocked, Quiet, watch, Refill,
         Took, vars
  <2>2. Attempts(i)' = Attempts(i)
    BY <2>1 DEF Attempts
  <2>3. ASSUME Underway(i) PROVE Over(i)'
    <3>1. loop.pc = "working" /\ loop.item = i
      BY <2>3 DEF Underway
    <3>2. LoopWorked
      BY <1>5, <3>1 DEF Loop, LoopRefill, LoopMerge, LoopMergeNext, LoopMerged, LoopMergesDone, LoopPoll,
         LoopPollEnds, LoopPush, LoopPushed, LoopSelect, LoopEmpty, LoopAttempt, LoopBlock, LoopBlocked, Ended
    <3>3. act[Watcher].pc = "done" /\ act[Watcher].result \notin {"locked", "dirty", "failed"}
      BY <3>2 DEF LoopWorked, Ended
    <3>4. backlog[i].run # 0
      BY <1>1, <3>1, <3>3 DEF Attempting
    <3> QED
      BY <1>1, <3>4, CompletersKept DEF Over, Tried, Course, Whole
  <2> QED
    BY <1>2, <2>1, <2>2, <2>3
<1>6. CASE WatchDies
  <2>1. crashes' = crashes + 1 /\ incidents' = incidents /\ Attempts(i)' = Attempts(i)
    BY <1>6 DEF WatchDies, Crash, Attempts
  <2> QED
    BY <1>2, <2>1
<1>7. ASSUME NEW m \in Modes, Start(m) PROVE ChargedTo(i)'
  <2>1. UNCHANGED <<runs, incidents, crashes>> /\ loop.pc = "stopped"
    BY <1>7 DEF Start, Quiet, vars
  <2>2. Attempts(i)' = Attempts(i) /\ ~Underway(i)
    BY <2>1 DEF Attempts, Underway
  <2> QED
    BY <1>2, <2>1, <2>2
<1>8. ASSUME NEW a \in Actors, Beside(a) PROVE ChargedTo(i)'
  <2>1. loop.pc = "stopped" /\ incidents' = incidents /\ a # Watcher /\ ~Underway(i)
    BY <1>8 DEF Beside, Turns, watch, Underway
  <2>2. crashes' = crashes \/ crashes' = crashes + 1
    BY <1>8 DEF Beside, Begin, BeginTransaction, BeginComplete, Recover, BeginCommit, BeginMerge, BeginPushBase,
       BeginRetry, BeginShelve, Continue, RunLock, RunVerify, RunLane, RunPost, CompleteCheck, CompleteMove,
       CompleteMeta, ShelveMove, ShelveMeta, CommitCheck, CommitDo, CommitRecord, Push, Pr, PrRecord, MergeView,
       MergeDo, Sync, MergeRecord, PushBase, PushRecord, Finish, Crash
  <2>3. \A b \in Actors : ~RunVerify(b)
    BY <1>1, <2>1 DEF RunVerify, Serial, Busy, Holding
  <2>4. Attempts(i)' = Attempts(i)
    BY <1>1, <2>3, RunsVerified
  <2> QED
    BY <1>2, <2>1, <2>2, <2>4
<1> QED
  BY <1>3, <1>4, <1>5, <1>6, <1>7, <1>8, ChargedWork, AroundLeaves DEF WatchNext, watchVars, vars

(* The causes an implementation may be blamed on are at most two.          *)
LEMMA CausesCount ==
  ASSUME Tried, Charged, NEW i \in Items
  PROVE  Cardinality(Attempts(i)) <= (Threshold - 1) * Cardinality(Causes) + 1 + crashes
<1>1. Causes \in {{}, {"product"}, {"external"}, {"product", "external"}}
  BY WatchAssumption DEF WatchAssumption
<1>2. Cardinality({}) = 0 /\ \A c : IsFiniteSet({c}) /\ Cardinality({c}) = 1
  BY FS_EmptySet, FS_Singleton
<1>3. Cardinality({"product", "external"}) = 2
  <2>1. {"product", "external"} = {"product"} \cup {"external"} /\ "external" \notin {"product"}
    OBVIOUS
  <2> QED
    <3>1. Cardinality({"product"} \cup {"external"}) = Cardinality({"product"}) + 1
      BY <1>2, <2>1, FS_AddElement
    <3> QED
      BY <1>2, <2>1, <3>1
<1> DEFINE p == Low(i, "product")
           e == Low(i, "external")
           n == Cardinality(Attempts(i))
           k == Cardinality(Causes)
<1>4. /\ Threshold \in Nat /\ Threshold > 0 /\ crashes \in Nat /\ n \in Nat
      /\ p \in 0 .. Threshold - 1 /\ e \in 0 .. Threshold - 1
  BY DeliveryAssumption, WatcherActs, LowTypes, AttemptsFinite
  DEF DeliveryAssumption, Tried, Course, Whole, Basic, Typed, Turn
<1>5. n <= p + e + crashes + 1
  BY <1>4 DEF Charged, ChargedTo
<1>6. /\ "product" \notin Causes => p = 0
      /\ "external" \notin Causes => e = 0
  BY DEF Low
<1> HIDE DEF n, p, e
<1>7. CASE Causes = {}
  BY <1>2, <1>4, <1>5, <1>6, <1>7 DEF n
<1>8. CASE Causes = {"product"}
  <2>1. k = 1 /\ e = 0
    BY <1>2, <1>6, <1>8
  <2> QED
    BY <1>4, <1>5, <2>1 DEF n
<1>9. CASE Causes = {"external"}
  <2>1. k = 1 /\ p = 0
    BY <1>2, <1>6, <1>9
  <2> QED
    BY <1>4, <1>5, <2>1 DEF n
<1>10. CASE Causes = {"product", "external"}
  <2>1. k = 2
    BY <1>3, <1>10
  <2> QED
    BY <1>4, <1>5, <2>1 DEF n
<1> QED
  BY <1>1, <1>7, <1>8, <1>9, <1>10

(* No item is implemented more often than its failures of each cause       *)
(* allow, whatever crashes in between.                                     *)
THEOREM AttemptsAreBounded == ASSUME Turns PROVE WatchSpec => []AttemptsBounded
<1>1. WatchInit => Tried /\ Charged
  <2> SUFFICES ASSUME WatchInit PROVE Tried /\ Charged
    OBVIOUS
  <2>1. /\ Init /\ loop = Stopped /\ incidents = [i \in Items |-> [c \in Kinds |-> 0]] /\ Course
    BY CourseInit DEF WatchInit
  <2>2. loop.pc = "stopped" /\ act[Watcher].pc = "idle" /\ crashes = 0
    BY <2>1, WatcherActs DEF Stopped, Init, Idle
  <2>3. Attempting /\ Starting /\ NeverLocked
    BY <2>1, <2>2 DEF Attempting, Starting, NeverLocked, Before, Kinds
  <2>4. ASSUME NEW i \in Items PROVE ChargedTo(i)
    <3>1. Attempts(i) = {}
      BY <2>1, <2>4, Numbers DEF Attempts, Init, NoRun
    <3>2. Cardinality(Attempts(i)) = 0
      BY <3>1, FS_EmptySet
    <3>3. Low(i, "product") \in Nat /\ Low(i, "external") \in Nat
      BY <2>1, WatcherActs, LowTypes DEF Course, Turn
    <3> QED
      BY <2>2, <3>2, <3>3 DEF ChargedTo
  <2> QED
    BY <2>1, <2>3, <2>4 DEF Tried, Charged
<1>2. Tried /\ Charged /\ [WatchNext]_watchVars => Tried' /\ Charged'
  <2> SUFFICES ASSUME Tried, Charged, [WatchNext]_watchVars PROVE Tried' /\ Charged'
    OBVIOUS
  <2>1. Tried' /\ Course'
    BY TriedNext DEF Tried
  <2> QED
    BY <2>1, ChargedNext
<1>3. Tried /\ Charged => AttemptsBounded
  BY CausesCount DEF AttemptsBounded, Attempts
<1> QED
  BY <1>1, <1>2, <1>3, PTL DEF WatchSpec

=============================================================================
