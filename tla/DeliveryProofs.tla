-------------------------- MODULE DeliveryProofs ---------------------------
(***************************************************************************)
(* Proofs about the commands over one target, for every set of items, runs *)
(* and commands, whatever fails and whichever of them die.                 *)
(***************************************************************************)
EXTENDS Delivery, TLAPS

-----------------------------------------------------------------------------
(* The types of TypeOK, by name, and the steps that keep them.             *)

Commands == [pc : Places, job : Tasks, item : Items \cup {0}, run : 0 .. MaxRuns, from : Dirs,
             alone : BOOLEAN, result : Results]
Files == [dir : Dirs, status : Dirs \ {"none"}, auto : BOOLEAN, run : 0 .. MaxRuns]
Entries == [item : Items \cup {0}, before : SUBSET Commits, evidence : {"none", "pass"}]
Branches == [branch : 0 .. MaxRuns, pr : {"none", "open", "merged", "closed"}, head : 0 .. MaxRuns]
Records == [commit : SUBSET Runs, published : SUBSET Runs, refused : SUBSET Runs,
            linked : SUBSET Runs, merged : SUBSET Runs, pushed : SUBSET Runs]

Acts == act \in [Actors -> Commands]

Typed ==
  /\ backlog \in [Items -> Files] /\ runs \in [Runs -> Entries]
  /\ tree \in 0 .. MaxRuns /\ report \in 0 .. MaxRuns
  /\ local \in SUBSET Commits /\ remote \in SUBSET Commits
  /\ tip \in [Runs -> SUBSET Commits] /\ hub \in [Items -> Branches]
  /\ receipts \in Records /\ lock \in Actors \cup {"free", "dead"}
  /\ Acts /\ creds \in BOOLEAN /\ faults \in 0 .. MaxFaults /\ crashes \in 0 .. MaxCrashes

LEMMA TypeParts == TypeOK <=> Typed
BY DEF TypeOK, Typed, Files, Entries, Branches, Records, Acts, Commands

LEMMA TaskType ==
  ASSUME NEW job \in Tasks, NEW pc \in Places, NEW i \in Items \cup {0}, NEW k \in 0 .. MaxRuns
  PROVE  Task(job, pc, i, k) \in Commands
<1>1. "none" \in Dirs /\ "none" \in Results
  BY DEF Dirs, Results
<1> QED
  BY <1>1 DEF Task, Idle, Commands

LEMMA IdleType == Idle \in Commands
<1>1. /\ "none" \in Dirs /\ "none" \in Results /\ "none" \in Tasks /\ "idle" \in Places
      /\ 0 \in 0 .. MaxRuns
  BY DeliveryAssumption DEF DeliveryAssumption, Dirs, Results, Tasks, Places
<1> QED
  BY <1>1 DEF Idle, Commands

LEMMA CommandMoves ==
  ASSUME NEW c \in Commands, NEW pc \in Places
  PROVE  [c EXCEPT !.pc = pc] \in Commands /\ [c EXCEPT !.alone = FALSE] \in Commands
BY DEF Commands

(* What a step of command a does to the others: they stand where they      *)
(* stood, but may have lost the directory listing they relied on.          *)
Kept(b) ==
  /\ act'[b].pc = act[b].pc /\ act'[b].job = act[b].job /\ act'[b].item = act[b].item
  /\ act'[b].run = act[b].run /\ act'[b].from = act[b].from /\ act'[b].result = act[b].result
Others(a) == \A b \in Actors \ {a} : Kept(b)
Moves(a, pc) ==
  /\ act'[a].pc = pc /\ act'[a].job = act[a].job /\ act'[a].item = act[a].item
  /\ act'[a].run = act[a].run /\ act'[a].from = act[a].from
  /\ Others(a)
Begins(a, pc, job, i, k) ==
  /\ act[a].pc = "idle"
  /\ act'[a].pc = pc /\ act'[a].job = job /\ act'[a].item = i /\ act'[a].run = k
  /\ Others(a)

LEMMA Launched ==
  ASSUME Acts, NEW a \in Actors, NEW task \in Commands, Launch(a, task)
  PROVE  Acts' /\ act[a].pc = "idle" /\ act'[a] = task /\ Others(a)
BY DEF Acts, Launch, Others, Kept

LEMMA Begun ==
  ASSUME Acts, NEW a \in Actors, NEW job \in Tasks, NEW pc \in Places, NEW i \in Items \cup {0},
         NEW k \in 0 .. MaxRuns, Launch(a, Task(job, pc, i, k))
  PROVE  Acts' /\ Begins(a, pc, job, i, k)
<1>1. Task(job, pc, i, k) \in Commands
  BY TaskType
<1>2. Acts' /\ act[a].pc = "idle" /\ act'[a] = Task(job, pc, i, k) /\ Others(a)
  BY <1>1, Launched
<1> QED
  BY <1>2 DEF Begins, Task, Idle

LEMMA Assigned ==
  ASSUME Acts, NEW a \in Actors, NEW c \in Commands, act' = [act EXCEPT ![a] = c]
  PROVE  Acts' /\ act'[a] = c /\ Others(a)
BY DEF Acts, Others, Kept

LEMMA Gone ==
  ASSUME Acts, NEW a \in Actors, NEW pc \in Places, Go(a, pc)
  PROVE  Acts' /\ Moves(a, pc)
<1>1. act' = [act EXCEPT ![a] = [act[a] EXCEPT !.pc = pc]]
  BY DEF Go, Acts, Commands
<1>2. act[a] \in Commands
  BY DEF Acts
<1>3. [act[a] EXCEPT !.pc = pc] \in Commands
  BY <1>2, CommandMoves
<1>4. Acts' /\ act'[a] = [act[a] EXCEPT !.pc = pc] /\ Others(a)
  BY <1>1, <1>3, Assigned
<1> QED
  BY <1>2, <1>4 DEF Moves, Commands

LEMMA GoneWith ==
  ASSUME Acts, NEW a \in Actors, NEW pc \in Places, NEW r \in Results,
         act' = [act EXCEPT ![a].pc = pc, ![a].result = r]
  PROVE  Acts' /\ Moves(a, pc)
<1> DEFINE d == [act[a] EXCEPT !.pc = pc, !.result = r]
<1>1. act' = [act EXCEPT ![a] = d]
  BY DEF Acts, Commands
<1>2. act[a] \in Commands
  BY DEF Acts
<1>3. /\ d \in Commands /\ d.pc = pc /\ d.job = act[a].job /\ d.item = act[a].item
      /\ d.run = act[a].run /\ d.from = act[a].from
  BY <1>2 DEF Commands
<1> HIDE DEF d
<1>4. Acts' /\ act'[a] = d /\ Others(a)
  BY <1>1, <1>3, Assigned
<1> QED
  BY <1>3, <1>4 DEF Moves

LEMMA HasEnded ==
  ASSUME Acts, NEW a \in Actors, NEW r \in Results, End(a, r)
  PROVE  Acts' /\ Moves(a, "done")
<1>1. "done" \in Places
  BY DEF Places
<1> QED
  BY <1>1, GoneWith DEF End

LEMMA FiledBy ==
  ASSUME Acts, NEW a \in Actors, NEW c \in Commands, Filed(a, c)
  PROVE  Acts' /\ act'[a] = c /\ Others(a)
<1>1. \A b \in Actors : act[b] \in Commands
  BY DEF Acts
<1>2. \A b \in Actors : act'[b] \in Commands /\ (b # a => Kept(b))
  BY <1>1, CommandMoves DEF Filed, Kept, Commands
<1> QED
  BY <1>2 DEF Filed, Acts, Others

LEMMA FileGone ==
  ASSUME Acts, NEW a \in Actors, NEW pc \in Places, FileAndGo(a, pc)
  PROVE  Acts' /\ Moves(a, pc)
<1>1. act[a] \in Commands
  BY DEF Acts
<1>2. [act[a] EXCEPT !.pc = pc] \in Commands
  BY <1>1, CommandMoves
<1>3. Acts' /\ act'[a] = [act[a] EXCEPT !.pc = pc] /\ Others(a)
  BY <1>2, FiledBy DEF FileAndGo
<1> QED
  BY <1>1, <1>3 DEF Moves, Commands

LEMMA FileGoneWith ==
  ASSUME Acts, NEW a \in Actors, NEW pc \in Places, NEW r \in Results,
         Filed(a, [act[a] EXCEPT !.pc = pc, !.result = r])
  PROVE  Acts' /\ Moves(a, pc)
<1> DEFINE d == [act[a] EXCEPT !.pc = pc, !.result = r]
<1>1. act[a] \in Commands
  BY DEF Acts
<1>2. /\ d \in Commands /\ d.pc = pc /\ d.job = act[a].job /\ d.item = act[a].item
      /\ d.run = act[a].run /\ d.from = act[a].from
  BY <1>1 DEF Commands
<1>3. Filed(a, d)
  OBVIOUS
<1> HIDE DEF d
<1>4. Acts' /\ act'[a] = d /\ Others(a)
  BY <1>2, <1>3, FiledBy
<1> QED
  BY <1>2, <1>4 DEF Moves

LEMMA FileEnded ==
  ASSUME Acts, NEW a \in Actors, NEW r \in Results, FileAndEnd(a, r)
  PROVE  Acts' /\ Moves(a, "done")
<1>1. "done" \in Places
  BY DEF Places
<1> QED
  BY <1>1, FileGoneWith DEF FileAndEnd

-----------------------------------------------------------------------------
(* What the steps of a command leave of its run and its item.              *)

(* From the run's start on, a command works for a run whose item it knows. *)
Standing == {"lane", "post", "check", "move", "meta", "commit-check", "commit", "record", "push",
             "pr", "pr-record", "view", "merge", "sync", "merge-record", "push-base", "push-record"}
Shelving == {"shelve", "label"}

Works(a) == act[a].run \in Runs /\ act[a].item \in Items /\ runs[act[a].run].item = act[a].item
KnownBy(a) ==
  /\ act[a].pc \in Standing => Works(a)
  /\ act[a].pc \in Shelving => act[a].item \in Items /\ act[a].from # "none"
Known == \A a \in Actors : KnownBy(a)

(* Evidence and receipts are of runs that have an item.                    *)
Named ==
  \A k \in Runs :
    runs[k].evidence = "pass" \/ k \in receipts.commit \cup receipts.linked => runs[k].item \in Items

(* An open pull request has the commit of a run at its head.               *)
Headed == \A i \in Items : hub[i].pr = "open" => hub[i].head \in Runs

Basic == Typed /\ Known /\ Named /\ Headed

(* A run keeps its item.                                                   *)
RunsKept == \A k \in Runs : runs[k].item \in Items => runs'[k].item = runs[k].item

LEMMA Numbers ==
  /\ 0 \notin Items /\ Items \subseteq Nat
  /\ Runs \subseteq 0 .. MaxRuns /\ 0 \notin Runs /\ 0 .. MaxRuns = Runs \cup {0} /\ 0 \in 0 .. MaxRuns
BY DeliveryAssumption DEF DeliveryAssumption, Runs

LEMMA KnownMoves ==
  ASSUME Known, RunsKept, NEW a \in Actors, NEW pc, Moves(a, pc),
         pc \in Standing => act[a].pc \in Standing,
         pc \in Shelving => act[a].pc \in Shelving
  PROVE  Known'
<1>1. KnownBy(a)'
  BY DEF Known, KnownBy, Works, RunsKept, Moves
<1>2. ASSUME NEW b \in Actors \ {a}
      PROVE  KnownBy(b)'
  <2>1. Kept(b)
    BY DEF Moves, Others
  <2> QED
    BY <2>1 DEF Known, KnownBy, Works, RunsKept, Kept
<1> QED
  BY <1>1, <1>2 DEF Known

LEMMA KnownBegins ==
  ASSUME Known, RunsKept, NEW a \in Actors, Others(a), KnownBy(a)'
  PROVE  Known'
<1>1. ASSUME NEW b \in Actors \ {a}
      PROVE  KnownBy(b)'
  <2>1. Kept(b)
    BY DEF Others
  <2> QED
    BY <2>1 DEF Known, KnownBy, Works, RunsKept, Kept
<1> QED
  BY <1>1 DEF Known

LEMMA Stand ==
  ASSUME Known, NEW a \in Actors, act[a].pc \in Standing
  PROVE  Works(a)
BY DEF Known, KnownBy

LEMMA RunLockMoves ==
  ASSUME Acts, NEW a \in Actors, RunLock(a)
  PROVE  Acts' /\ act[a].pc = "lock" /\ ((Moves(a, "verify") /\ lock' = a) \/ (Moves(a, "done") /\ lock' = lock))
<1>1. {"verify", "done"} \subseteq Places
  BY DEF Places
<1> QED
  BY <1>1, Gone, HasEnded DEF RunLock, Results

LEMMA RunLaneMoves ==
  ASSUME Acts, NEW a \in Actors, RunLane(a)
  PROVE  Acts' /\ act[a].pc = "lane" /\ (Moves(a, "post"))
<1>1. {"post"} \subseteq Places
  BY DEF Places
<1> QED
  BY <1>1, Gone, FileGone DEF RunLane, Results

LEMMA RunPostMoves ==
  ASSUME Acts, NEW a \in Actors, RunPost(a)
  PROVE  Acts' /\ act[a].pc = "post" /\ (Moves(a, "check") \/ Moves(a, "done"))
<1>1. {"check", "done"} \subseteq Places
  BY DEF Places
<1> QED
  BY <1>1, Gone, HasEnded DEF RunPost, Results

LEMMA CompleteCheckMoves ==
  ASSUME Acts, NEW a \in Actors, CompleteCheck(a)
  PROVE  Acts' /\ act[a].pc = "check" /\ ((Moves(a, "move") /\ MayComplete(act[a].run)) \/ Moves(a, "done"))
<1>1. {"move", "done"} \subseteq Places
  BY DEF Places
<1> QED
  BY <1>1, Gone, HasEnded DEF CompleteCheck, Results

LEMMA CompleteMoveMoves ==
  ASSUME Acts, NEW a \in Actors, CompleteMove(a)
  PROVE  Acts' /\ act[a].pc = "move" /\ (Moves(a, "meta") \/ Moves(a, "done"))
<1>1. {"meta", "done"} \subseteq Places
  BY DEF Places
<1> QED
  BY <1>1, Gone, HasEnded DEF CompleteMove, Results

LEMMA CompleteMetaMoves ==
  ASSUME Acts, NEW a \in Actors, CompleteMeta(a)
  PROVE  Acts' /\ act[a].pc = "meta" /\ (Moves(a, "commit-check") \/ Moves(a, "done"))
<1>1. {"commit-check", "done"} \subseteq Places
  BY DEF Places
<1> QED
  BY <1>1, HasEnded, FileGone, FileEnded DEF CompleteMeta, Results

LEMMA ShelveMoveMoves ==
  ASSUME Acts, NEW a \in Actors, ShelveMove(a)
  PROVE  Acts' /\ act[a].pc = "shelve" /\ (Moves(a, "label") \/ Moves(a, "done"))
<1>1. {"label", "done"} \subseteq Places
  BY DEF Places
<1> QED
  BY <1>1, Gone, HasEnded DEF ShelveMove, Results

LEMMA ShelveMetaMoves ==
  ASSUME Acts, NEW a \in Actors, ShelveMeta(a)
  PROVE  Acts' /\ act[a].pc = "label" /\ (Moves(a, "done"))
<1>1. {"done"} \subseteq Places
  BY DEF Places
<1> QED
  BY <1>1, HasEnded, FileEnded DEF ShelveMeta, Results

LEMMA CommitCheckMoves ==
  ASSUME Acts, NEW a \in Actors, CommitCheck(a)
  PROVE  Acts' /\ act[a].pc = "commit-check" /\ ((Moves(a, "commit") /\ MayCommit(act[a].run)) \/ Moves(a, "done"))
<1>1. {"commit", "done"} \subseteq Places
  BY DEF Places
<1> QED
  BY <1>1, Gone, HasEnded DEF CommitCheck, Results

LEMMA CommitDoMoves ==
  ASSUME Acts, NEW a \in Actors, CommitDo(a)
  PROVE  Acts' /\ act[a].pc = "commit" /\ (Moves(a, "record") \/ (Moves(a, "done") /\ UNCHANGED product))
<1>1. {"record", "done"} \subseteq Places
  BY DEF Places
<1> QED
  BY <1>1, Gone, HasEnded DEF CommitDo, Results

LEMMA CommitRecordMoves ==
  ASSUME Acts, NEW a \in Actors, CommitRecord(a)
  PROVE  Acts' /\ act[a].pc = "record" /\ (Moves(a, "push") \/ Moves(a, "done"))
<1>1. {"push", "done"} \subseteq Places
  BY DEF Places
<1> QED
  BY <1>1, HasEnded, FileGone, FileEnded DEF CommitRecord, Results

LEMMA PushMoves ==
  ASSUME Acts, NEW a \in Actors, Push(a)
  PROVE  Acts' /\ act[a].pc = "push" /\ (Moves(a, "pr") \/ Moves(a, "done"))
<1>1. {"pr", "done"} \subseteq Places
  BY DEF Places
<1> QED
  BY <1>1, Gone, FileEnded DEF Push, Refuse, Results

LEMMA PrMoves ==
  ASSUME Acts, NEW a \in Actors, Pr(a)
  PROVE  Acts' /\ act[a].pc = "pr" /\ (Moves(a, "pr-record") \/ Moves(a, "done"))
<1>1. {"pr-record", "done"} \subseteq Places
  BY DEF Places
<1> QED
  BY <1>1, FileEnded, GoneWith DEF Pr, Refuse, Results

LEMMA PrRecordMoves ==
  ASSUME Acts, NEW a \in Actors, PrRecord(a)
  PROVE  Acts' /\ act[a].pc = "pr-record" /\ (Moves(a, "view") \/ Moves(a, "done"))
<1>1. "view" \in Places /\ act[a].result \in Results /\ {"none", "merged", "published"} \subseteq Results
  BY DEF Places, Results, Acts, Commands
<1>2. CASE act[a].result # "already-in-base" /\ act[a].job \in Merging
  BY <1>1, <1>2, FileGoneWith DEF PrRecord
<1>3. CASE ~(act[a].result # "already-in-base" /\ act[a].job \in Merging)
  <2> DEFINE r == CASE act[a].job = "republish" \/ (act[a].job = "retry" /\ act[a].result = "already-in-base")
                         -> act[a].result
                    [] act[a].result = "already-in-base" -> "merged"
                    [] OTHER -> "published"
  <2>1. r \in Results
    BY <1>1
  <2>2. FileAndEnd(a, r)
    BY <1>3 DEF PrRecord
  <2> HIDE DEF r
  <2> QED
    BY <2>1, <2>2, FileEnded DEF PrRecord
<1> QED
  BY <1>2, <1>3

LEMMA MergeViewMoves ==
  ASSUME Acts, NEW a \in Actors, MergeView(a)
  PROVE  Acts' /\ act[a].pc = "view" /\ (Moves(a, "sync") \/ Moves(a, "merge") \/ Moves(a, "done"))
<1>1. {"sync", "merge", "done"} \subseteq Places
  BY DEF Places
<1> QED
  BY <1>1, Gone, FileEnded DEF MergeView, Results

LEMMA MergeDoMoves ==
  ASSUME Acts, NEW a \in Actors, MergeDo(a)
  PROVE  Acts' /\ act[a].pc = "merge" /\ (Moves(a, "sync") \/ Moves(a, "done"))
<1>1. {"sync", "done"} \subseteq Places
  BY DEF Places
<1> QED
  BY <1>1, Gone, FileEnded DEF MergeDo, Results

LEMMA SyncMoves ==
  ASSUME Acts, NEW a \in Actors, Sync(a)
  PROVE  Acts' /\ act[a].pc = "sync" /\ (Moves(a, "merge-record") \/ Moves(a, "done"))
<1>1. {"merge-record", "done"} \subseteq Places
  BY DEF Places
<1> QED
  BY <1>1, Gone, FileEnded DEF Sync, Results

LEMMA MergeRecordMoves ==
  ASSUME Acts, NEW a \in Actors, MergeRecord(a)
  PROVE  Acts' /\ act[a].pc = "merge-record" /\ (Moves(a, "done"))
<1>1. {"done"} \subseteq Places
  BY DEF Places
<1> QED
  BY <1>1, FileEnded DEF MergeRecord, Results

LEMMA PushBaseMoves ==
  ASSUME Acts, NEW a \in Actors, PushBase(a)
  PROVE  Acts' /\ act[a].pc = "push-base" /\ (Moves(a, "push-record") \/ Moves(a, "done"))
<1>1. {"push-record", "done"} \subseteq Places
  BY DEF Places
<1> QED
  BY <1>1, Gone, HasEnded DEF PushBase, Results

LEMMA PushRecordMoves ==
  ASSUME Acts, NEW a \in Actors, PushRecord(a)
  PROVE  Acts' /\ act[a].pc = "push-record" /\ (Moves(a, "done"))
<1>1. {"done"} \subseteq Places
  BY DEF Places
<1> QED
  BY <1>1, HasEnded, FileEnded DEF PushRecord, Results

(* The steps that are no single move of a command.                         *)
LEMMA RunVerifyMoves ==
  ASSUME Basic, NEW a \in Actors, RunVerify(a)
  PROVE  /\ Acts' /\ act[a].pc = "verify" /\ RunsKept /\ runs' \in [Runs -> Entries]
         /\ \/ /\ Others(a) /\ act'[a].pc = "lane" /\ Works(a)'
               /\ lock' = lock /\ tree = 0 /\ report' \in Runs /\ runs'[act'[a].run].evidence = "none"
            \/ Moves(a, "done") /\ lock' = "free" /\ report' = 0 /\ runs' = runs
<1>1. "lane" \in Places /\ {"dirty", "failed"} \subseteq Results
  BY DEF Places, Results
<1>2. Acts /\ runs \in [Runs -> Entries] /\ local \in SUBSET Commits /\ act[a].pc = "verify"
  BY DEF Basic, Typed, RunVerify
<1>3. CASE ~(tree = 0 /\ \E i \in Items : Selected(i) /\ backlog[i].dir = "queued")
  BY <1>1, <1>2, <1>3, HasEnded DEF RunVerify, RunsKept
<1>4. CASE tree = 0 /\ \E i \in Items : Selected(i) /\ backlog[i].dir = "queued"
  <2>1. PICK i \in Items, k \in Runs :
          /\ runs[k].item = 0
          /\ runs' = [runs EXCEPT ![k] = [item |-> i, before |-> local, evidence |-> "none"]]
          /\ report' = k
          /\ act' = [act EXCEPT ![a].pc = "lane", ![a].run = k, ![a].item = i]
    BY <1>4 DEF RunVerify
  <2>2. runs' \in [Runs -> Entries] /\ runs'[k].item = i /\ RunsKept /\ runs'[k].evidence = "none"
    BY <1>2, <2>1, Numbers DEF Entries, RunsKept
  <2> DEFINE d == [act[a] EXCEPT !.pc = "lane", !.run = k, !.item = i]
  <2>3. act' = [act EXCEPT ![a] = d]
    BY <1>2, <2>1 DEF Acts, Commands
  <2>4. d \in Commands /\ d.pc = "lane" /\ d.run = k /\ d.item = i
    BY <1>1, <1>2, Numbers DEF Acts, Commands
  <2> HIDE DEF d
  <2>5. Acts' /\ act'[a] = d /\ Others(a)
    BY <1>2, <2>3, <2>4, Assigned
  <2>6. lock' = lock
    BY <1>4 DEF RunVerify
  <2> QED
    BY <1>2, <1>4, <2>1, <2>2, <2>4, <2>5, <2>6 DEF Works
<1> QED
  BY <1>3, <1>4

LEMMA Cleared ==
  ASSUME Acts, NEW a \in Actors, act' = [act EXCEPT ![a] = Idle]
  PROVE  Acts' /\ Others(a) /\ act'[a].pc = "idle"
<1>1. Acts' /\ act'[a] = Idle /\ Others(a)
  BY IdleType, Assigned
<1> QED
  BY <1>1 DEF Idle

LEMMA BeginCompleteBegins ==
  ASSUME Basic, NEW k \in Runs, NEW a \in Actors, BeginComplete(a, k)
  PROVE  Acts' /\ Begins(a, "move", "finish", runs[k].item, k) /\ Works(a)'
<1>1. "move" \in Places /\ "finish" \in Tasks
  BY DEF Places, Tasks
<1>2. Acts /\ runs[k].item \in Items
  BY DEF Basic, Typed, Named, BeginComplete, MayComplete, DiffMatches
<1>3. Acts' /\ Begins(a, "move", "finish", runs[k].item, k)
  BY <1>1, <1>2, Numbers, Begun DEF BeginComplete
<1> QED
  BY <1>2, <1>3 DEF Begins, Works, BeginComplete

LEMMA BeginCommitBegins ==
  ASSUME Basic, NEW k \in Runs, NEW a \in Actors, BeginCommit(a, k)
  PROVE  Acts' /\ Begins(a, "commit", "finish", runs[k].item, k) /\ Works(a)'
<1>1. "commit" \in Places /\ "finish" \in Tasks
  BY DEF Places, Tasks
<1>2. Acts /\ runs[k].item \in Items
  BY DEF Basic, Typed, Named, BeginCommit, MayCommit, DiffMatches
<1>3. Acts' /\ Begins(a, "commit", "finish", runs[k].item, k)
  BY <1>1, <1>2, Numbers, Begun DEF BeginCommit
<1> QED
  BY <1>2, <1>3 DEF Begins, Works, BeginCommit

LEMMA BeginMergeBegins ==
  ASSUME Basic, NEW k \in Runs, NEW a \in Actors, BeginMerge(a, k)
  PROVE  Acts' /\ Begins(a, "view", "merge", runs[k].item, k) /\ Works(a)'
<1>1. "view" \in Places /\ "merge" \in Tasks
  BY DEF Places, Tasks
<1>2. Acts /\ runs[k].item \in Items
  BY DEF Basic, Typed, Named, BeginMerge, PendingMerge
<1>3. Acts' /\ Begins(a, "view", "merge", runs[k].item, k)
  BY <1>1, <1>2, Numbers, Begun DEF BeginMerge
<1> QED
  BY <1>2, <1>3 DEF Begins, Works, BeginMerge

LEMMA BeginPushBaseBegins ==
  ASSUME Basic, NEW k \in Runs, NEW a \in Actors, BeginPushBase(a, k)
  PROVE  Acts' /\ Begins(a, "push-base", "push", runs[k].item, k) /\ Works(a)'
<1>1. "push-base" \in Places /\ "push" \in Tasks
  BY DEF Places, Tasks
<1>2. Acts /\ runs[k].item \in Items
  BY DEF Basic, Typed, Named, BeginPushBase
<1>3. Acts' /\ Begins(a, "push-base", "push", runs[k].item, k)
  BY <1>1, <1>2, Numbers, Begun DEF BeginPushBase
<1> QED
  BY <1>2, <1>3 DEF Begins, Works, BeginPushBase

LEMMA BeginRetryBegins ==
  ASSUME Basic, NEW k \in Runs, NEW job \in {"retry", "republish"}, NEW a \in Actors, BeginRetry(a, k, job)
  PROVE  Acts' /\ Begins(a, "push", job, runs[k].item, k) /\ Works(a)'
<1>1. "push" \in Places /\ job \in Tasks
  BY DEF Places, Tasks
<1>2. Acts /\ runs[k].item \in Items
  BY DEF Basic, Typed, Named, BeginRetry, PendingPush
<1>3. Acts' /\ Begins(a, "push", job, runs[k].item, k)
  BY <1>1, <1>2, Numbers, Begun DEF BeginRetry
<1> QED
  BY <1>2, <1>3 DEF Begins, Works, BeginRetry

LEMMA RecoverBegins ==
  ASSUME Basic, NEW k \in Runs, NEW a \in Actors, Recover(a, k)
  PROVE  /\ Acts' /\ Others(a) /\ act[a].pc = "idle" /\ act'[a].pc = "check" /\ Works(a)' /\ RunsKept
         /\ runs' \in [Runs -> Entries] /\ runs[k].item \in Items
         /\ \A j \in Runs : runs'[j].item = runs[j].item /\ (j # k => runs'[j] = runs[j])
<1>1. "check" \in Places /\ "finish" \in Tasks
  BY DEF Places, Tasks
<1>2. Acts /\ runs \in [Runs -> Entries] /\ runs[k].item \in Items
  BY DEF Basic, Typed, Recover, Entries
<1>3. Task("finish", "check", runs[k].item, k) \in Commands
  BY <1>1, <1>2, Numbers, TaskType
<1>4. Acts' /\ act'[a] = Task("finish", "check", runs[k].item, k) /\ Others(a)
  BY <1>2, <1>3, FiledBy DEF Recover
<1>5. /\ RunsKept /\ runs' \in [Runs -> Entries]
      /\ \A j \in Runs : runs'[j].item = runs[j].item /\ (j # k => runs'[j] = runs[j])
  BY <1>2 DEF Recover, RunsKept, Entries
<1>6. act'[a].pc = "check" /\ act'[a].run = k /\ act'[a].item = runs[k].item
  BY <1>4 DEF Task, Idle
<1> QED
  BY <1>2, <1>4, <1>5, <1>6 DEF Works, Recover

LEMMA BeginTransactionBegins ==
  ASSUME Basic, NEW i \in Items, NEW job \in Transactions, NEW a \in Actors, BeginTransaction(a, i, job)
  PROVE  /\ Acts' /\ Others(a) /\ act[a].pc = "idle"
         /\ act'[a].pc = "lock" \/ (act'[a].pc = "check" /\ Works(a)')
<1>1. {"check", "lock"} \subseteq Places /\ job \in Tasks
  BY DEF Places, Tasks, Transactions
<1>2. Acts /\ tree \in Runs \cup {0}
  BY Numbers DEF Basic, Typed
<1>3. CASE tree # 0 /\ Resumable(tree) /\ runs[tree].item = i
  <2>1. Acts' /\ Begins(a, "check", job, i, tree)
    BY <1>1, <1>2, <1>3, Numbers, Begun DEF BeginTransaction
  <2> QED
    BY <1>2, <1>3, <2>1 DEF Begins, Works, BeginTransaction
<1>4. CASE ~(tree # 0 /\ Resumable(tree) /\ runs[tree].item = i)
  <2>1. Acts' /\ Begins(a, "lock", job, i, 0)
    BY <1>1, <1>2, <1>4, Numbers, Begun DEF BeginTransaction
  <2> QED
    BY <2>1 DEF Begins
<1> QED
  BY <1>3, <1>4

LEMMA BeginShelveBegins ==
  ASSUME Basic, NEW i \in Items, NEW to \in {"blocked", "manual-review"}, NEW a \in Actors,
         BeginShelve(a, i, to)
  PROVE  /\ Acts' /\ Others(a) /\ act[a].pc = "idle" /\ act'[a].pc = "shelve"
         /\ act'[a].item \in Items /\ act'[a].from # "none"
<1>1. "shelve" \in Places /\ to \in Tasks
  BY DEF Places, Tasks
<1>2. Acts /\ backlog[i].dir \in Dirs
  BY DEF Basic, Typed, Files
<1>3. Task(to, "shelve", i, 0) \in Commands
  BY <1>1, Numbers, TaskType
<1> DEFINE d == [Task(to, "shelve", i, 0) EXCEPT !.from = backlog[i].dir]
<1>4. d \in Commands /\ d.pc = "shelve" /\ d.item = i /\ d.from = backlog[i].dir
  BY <1>2, <1>3 DEF Task, Idle, Commands
<1>5. Launch(a, d) /\ backlog[i].dir # "none"
  BY DEF BeginShelve
<1> HIDE DEF d
<1> QED
  BY <1>2, <1>4, <1>5, Launched

-----------------------------------------------------------------------------
(* Every step keeps the types, and what commands know of their runs.       *)

LEMMA Faulted ==
  ASSUME Typed, Fault
  PROVE  faults' \in 0 .. MaxFaults
BY DeliveryAssumption DEF DeliveryAssumption, Typed, Fault

LEMMA Refused ==
  ASSUME Typed, NEW a \in Actors, act[a].run \in Runs, NEW status, Refuse(a, status)
  PROVE  receipts' \in Records /\ receipts'.commit = receipts.commit /\ receipts'.linked = receipts.linked
BY DEF Typed, Refuse, Records

LEMMA MergedTypes ==
  ASSUME Typed, Headed, NEW i \in Items, hub[i].pr = "open", Merged(i)
  PROVE  /\ remote' \in SUBSET Commits /\ hub' \in [Items -> Branches]
         /\ \A j \in Items : hub'[j].pr = "open" => hub[j].pr = "open" /\ hub'[j].head = hub[j].head
<1>1. hub[i].head \in Runs /\ tip[hub[i].head] \in SUBSET Commits
  BY DEF Typed, Headed
<1>2. remote' \in SUBSET Commits
  BY <1>1 DEF Typed, Merged, Commits
<1>3. ASSUME NEW j \in Items
      PROVE  /\ hub'[j] \in Branches
             /\ hub'[j].pr = "open" => hub[j].pr = "open" /\ hub'[j].head = hub[j].head
  <2>1. hub[j] \in Branches /\ 0 \in 0 .. MaxRuns
    BY Numbers DEF Typed
  <2>2. CASE j = i
    <3> DEFINE d == [hub[j] EXCEPT !.pr = "merged", !.branch = 0]
    <3>1. d \in Branches /\ d.pr = "merged"
      BY <2>1 DEF Branches
    <3>2. hub'[j] = d
      BY <2>2 DEF Merged
    <3> HIDE DEF d
    <3> QED
      BY <3>1, <3>2
  <2>3. CASE j # i
    BY <2>1, <2>3 DEF Merged, Branches
  <2> QED
    BY <2>2, <2>3
<1> QED
  BY <1>2, <1>3 DEF Merged

LEMMA Moved ==
  ASSUME Typed, NEW i \in Items, NEW d \in Dirs
  PROVE  [backlog EXCEPT ![i].dir = d] \in [Items -> Files]
<1>1. backlog[i] \in Files
  BY DEF Typed
<1>2. [backlog[i] EXCEPT !.dir = d] \in Files
  BY <1>1 DEF Files
<1> QED
  BY <1>2 DEF Typed

LEMMA RunLockBasic ==
  ASSUME Basic, NEW a \in Actors, RunLock(a)
  PROVE  Basic'
<1>1. Acts' /\ act[a].pc = "lock" /\ (Moves(a, "verify") \/ Moves(a, "done"))
  BY RunLockMoves DEF Basic, Typed
<1>3. runs' = runs /\ RunsKept
  BY DEF RunLock, RunsKept
<1>4. Known'
  BY <1>1, <1>3, KnownMoves DEF Basic, Standing, Shelving
<1>5. lock' \in Actors \cup {"free", "dead"}
  BY <1>1, Numbers, DeliveryAssumption DEF DeliveryAssumption, Basic, Typed, Works, Headed, RunLock, product, origin
<1>6. Typed'
  BY <1>1, <1>3, <1>5 DEF Basic, Typed, RunLock, product, origin
<1>7. Named' /\ Headed'
  BY <1>1, <1>3, Numbers DEF Basic, Named, Headed, RunLock, product, origin, Works
<1> QED
  BY <1>4, <1>6, <1>7 DEF Basic

LEMMA RunLaneBasic ==
  ASSUME Basic, NEW a \in Actors, RunLane(a)
  PROVE  Basic'
<1>1. Acts' /\ act[a].pc = "lane" /\ (Moves(a, "post"))
  BY RunLaneMoves DEF Basic, Typed
<1>2. Works(a)
  BY <1>1, Stand DEF Basic, Standing
<1>3. RunsKept /\ runs' \in [Runs -> Entries] /\ \A k \in Runs : runs'[k].item = runs[k].item
  BY <1>2 DEF Basic, Typed, Works, RunsKept, RunLane, Entries
<1>4. Known'
  BY <1>1, <1>3, KnownMoves DEF Basic, Standing, Shelving
<1>5. tree' \in 0 .. MaxRuns /\ faults' \in 0 .. MaxFaults
  BY <1>1, <1>2, Numbers, DeliveryAssumption DEF DeliveryAssumption, Basic, Typed, Works, Headed, RunLane, product, origin, Fault, Entries
<1>6. Typed'
  BY <1>1, <1>3, <1>5 DEF Basic, Typed, RunLane, product, origin
<1>7. Named' /\ Headed'
  BY <1>1, <1>3, <1>2, Numbers DEF Basic, Named, Headed, RunLane, product, origin, Works, Entries, Typed
<1> QED
  BY <1>4, <1>6, <1>7 DEF Basic

LEMMA RunPostBasic ==
  ASSUME Basic, NEW a \in Actors, RunPost(a)
  PROVE  Basic'
<1>1. Acts' /\ act[a].pc = "post" /\ (Moves(a, "check") \/ Moves(a, "done"))
  BY RunPostMoves DEF Basic, Typed
<1>2. Works(a)
  BY <1>1, Stand DEF Basic, Standing
<1>3. runs' = runs /\ RunsKept
  BY DEF RunPost, RunsKept
<1>4. Known'
  BY <1>1, <1>3, KnownMoves DEF Basic, Standing, Shelving
<1>5. lock' \in Actors \cup {"free", "dead"} /\ report' \in 0 .. MaxRuns
  BY <1>1, <1>2, Numbers, DeliveryAssumption DEF DeliveryAssumption, Basic, Typed, Works, Headed, RunPost, product, origin
<1>6. Typed'
  BY <1>1, <1>3, <1>5 DEF Basic, Typed, RunPost, product, origin
<1>7. Named' /\ Headed'
  BY <1>1, <1>3, <1>2, Numbers DEF Basic, Named, Headed, RunPost, product, origin, Works
<1> QED
  BY <1>4, <1>6, <1>7 DEF Basic

LEMMA CompleteCheckBasic ==
  ASSUME Basic, NEW a \in Actors, CompleteCheck(a)
  PROVE  Basic'
<1>1. Acts' /\ act[a].pc = "check" /\ (Moves(a, "move") \/ Moves(a, "done"))
  BY CompleteCheckMoves DEF Basic, Typed
<1>2. Works(a)
  BY <1>1, Stand DEF Basic, Standing
<1>3. runs' = runs /\ RunsKept
  BY DEF CompleteCheck, RunsKept
<1>4. Known'
  BY <1>1, <1>3, KnownMoves DEF Basic, Standing, Shelving
<1>5. Typed'
  BY <1>1, <1>3 DEF Basic, Typed, CompleteCheck, product, origin
<1>6. Named' /\ Headed'
  BY <1>1, <1>3, <1>2, Numbers DEF Basic, Named, Headed, CompleteCheck, product, origin, Works
<1> QED
  BY <1>4, <1>5, <1>6 DEF Basic

LEMMA CompleteMoveBasic ==
  ASSUME Basic, NEW a \in Actors, CompleteMove(a)
  PROVE  Basic'
<1>1. Acts' /\ act[a].pc = "move" /\ (Moves(a, "meta") \/ Moves(a, "done"))
  BY CompleteMoveMoves DEF Basic, Typed
<1>2. Works(a)
  BY <1>1, Stand DEF Basic, Standing
<1>3. runs' = runs /\ RunsKept
  BY DEF CompleteMove, RunsKept
<1>4. Known'
  BY <1>1, <1>3, KnownMoves DEF Basic, Standing, Shelving
<1>5. backlog' \in [Items -> Files]
  <2>1. act[a].item \in Items
    BY <1>2, Numbers DEF Basic, Typed, Works, Headed
  <2>2. backlog' = backlog \/ backlog' = [backlog EXCEPT ![act[a].item].dir = "completed"]
    BY DEF CompleteMove
  <2>3. "completed" \in Dirs
    BY DEF Dirs
  <2> QED
    BY <2>1, <2>2, <2>3, Moved DEF Basic, Typed
<1>6. Typed'
  BY <1>1, <1>3, <1>5 DEF Basic, Typed, CompleteMove, product, origin
<1>7. Named' /\ Headed'
  BY <1>1, <1>3, <1>2, Numbers DEF Basic, Named, Headed, CompleteMove, product, origin, Works
<1> QED
  BY <1>4, <1>6, <1>7 DEF Basic

LEMMA CompleteMetaBasic ==
  ASSUME Basic, NEW a \in Actors, CompleteMeta(a)
  PROVE  Basic'
<1>1. Acts' /\ act[a].pc = "meta" /\ (Moves(a, "commit-check") \/ Moves(a, "done"))
  BY CompleteMetaMoves DEF Basic, Typed
<1>2. Works(a)
  BY <1>1, Stand DEF Basic, Standing
<1>3. runs' = runs /\ RunsKept
  BY DEF CompleteMeta, RunsKept
<1>4. Known'
  BY <1>1, <1>3, KnownMoves DEF Basic, Standing, Shelving
<1>5. backlog' \in [Items -> Files]
  <2> DEFINE i == act[a].item
             f == [backlog[i] EXCEPT !.status = "completed", !.run = act[a].run]
  <2>1. i \in Items /\ act[a].run \in 0 .. MaxRuns
    BY <1>2, Numbers DEF Basic, Typed, Works, Headed
  <2>2. backlog' = backlog \/ backlog' = [backlog EXCEPT ![i] = f]
    BY DEF CompleteMeta
  <2>3. backlog[i] \in Files
    BY <2>1 DEF Basic, Typed
  <2>4. f \in Files
    BY <2>1, <2>3 DEF Files, Dirs
  <2> QED
    BY <2>1, <2>2, <2>4 DEF Basic, Typed
<1>6. Typed'
  BY <1>1, <1>3, <1>5 DEF Basic, Typed, CompleteMeta, product, origin
<1>7. Named' /\ Headed'
  BY <1>1, <1>3, <1>2, Numbers DEF Basic, Named, Headed, CompleteMeta, product, origin, Works
<1> QED
  BY <1>4, <1>6, <1>7 DEF Basic

LEMMA ShelveMoveBasic ==
  ASSUME Basic, NEW a \in Actors, ShelveMove(a)
  PROVE  Basic'
<1>1. Acts' /\ act[a].pc = "shelve" /\ (Moves(a, "label") \/ Moves(a, "done"))
  BY ShelveMoveMoves DEF Basic, Typed
<1>3. runs' = runs /\ RunsKept
  BY DEF ShelveMove, RunsKept
<1>4. Known'
  BY <1>1, <1>3, KnownMoves DEF Basic, Standing, Shelving
<1>2. act[a].item \in Items
  BY <1>1 DEF Basic, Known, KnownBy, Shelving
<1>5. backlog' \in [Items -> Files]
  <2>1. ShelfOf(act[a].job) \in Dirs
    BY DEF ShelfOf, Dirs
  <2>2. backlog' = backlog \/ backlog' = [backlog EXCEPT ![act[a].item].dir = ShelfOf(act[a].job)]
    BY DEF ShelveMove
  <2> QED
    BY <1>2, <2>1, <2>2, Moved DEF Basic, Typed
<1>6. Typed'
  BY <1>1, <1>3, <1>5 DEF Basic, Typed, ShelveMove, product, origin
<1>7. Named' /\ Headed'
  BY <1>1, <1>3, Numbers DEF Basic, Named, Headed, ShelveMove, product, origin, Works
<1> QED
  BY <1>4, <1>6, <1>7 DEF Basic

LEMMA ShelveMetaBasic ==
  ASSUME Basic, NEW a \in Actors, ShelveMeta(a)
  PROVE  Basic'
<1>1. Acts' /\ act[a].pc = "label" /\ (Moves(a, "done"))
  BY ShelveMetaMoves DEF Basic, Typed
<1>3. runs' = runs /\ RunsKept
  BY DEF ShelveMeta, RunsKept
<1>4. Known'
  BY <1>1, <1>3, KnownMoves DEF Basic, Standing, Shelving
<1>2. act[a].item \in Items
  BY <1>1 DEF Basic, Known, KnownBy, Shelving
<1>5. backlog' \in [Items -> Files]
  <2> DEFINE i == act[a].item
             f == [backlog[i] EXCEPT !.status = ShelfOf(act[a].job), !.auto = FALSE]
  <2>1. ShelfOf(act[a].job) \in Dirs \ {"none"}
    BY DEF ShelfOf, Dirs
  <2>2. backlog' = backlog \/ backlog' = [backlog EXCEPT ![i] = f]
    BY DEF ShelveMeta
  <2>3. backlog[i] \in Files
    BY <1>2 DEF Basic, Typed
  <2>4. f \in Files
    BY <2>1, <2>3 DEF Files, Dirs
  <2> QED
    BY <1>2, <2>2, <2>4 DEF Basic, Typed
<1>6. Typed'
  BY <1>1, <1>3, <1>5 DEF Basic, Typed, ShelveMeta, product, origin
<1>7. Named' /\ Headed'
  BY <1>1, <1>3, Numbers DEF Basic, Named, Headed, ShelveMeta, product, origin, Works
<1> QED
  BY <1>4, <1>6, <1>7 DEF Basic

LEMMA CommitCheckBasic ==
  ASSUME Basic, NEW a \in Actors, CommitCheck(a)
  PROVE  Basic'
<1>1. Acts' /\ act[a].pc = "commit-check" /\ (Moves(a, "commit") \/ Moves(a, "done"))
  BY CommitCheckMoves DEF Basic, Typed
<1>2. Works(a)
  BY <1>1, Stand DEF Basic, Standing
<1>3. runs' = runs /\ RunsKept
  BY DEF CommitCheck, RunsKept
<1>4. Known'
  BY <1>1, <1>3, KnownMoves DEF Basic, Standing, Shelving
<1>5. Typed'
  BY <1>1, <1>3 DEF Basic, Typed, CommitCheck, product, origin
<1>6. Named' /\ Headed'
  BY <1>1, <1>3, <1>2, Numbers DEF Basic, Named, Headed, CommitCheck, product, origin, Works
<1> QED
  BY <1>4, <1>5, <1>6 DEF Basic

LEMMA CommitDoBasic ==
  ASSUME Basic, NEW a \in Actors, CommitDo(a)
  PROVE  Basic'
<1>1. Acts' /\ act[a].pc = "commit" /\ (Moves(a, "record") \/ Moves(a, "done"))
  BY CommitDoMoves DEF Basic, Typed
<1>2. Works(a)
  BY <1>1, Stand DEF Basic, Standing
<1>3. runs' = runs /\ RunsKept
  BY DEF CommitDo, RunsKept
<1>4. Known'
  BY <1>1, <1>3, KnownMoves DEF Basic, Standing, Shelving
<1>5. tree' \in 0 .. MaxRuns /\ local' \in SUBSET Commits /\ tip' \in [Runs -> SUBSET Commits]
  BY <1>1, <1>2, Numbers, DeliveryAssumption DEF DeliveryAssumption, Basic, Typed, Works, Headed, CommitDo, product, origin, Commits
<1>6. Typed'
  BY <1>1, <1>3, <1>5 DEF Basic, Typed, CommitDo, product, origin
<1>7. Named' /\ Headed'
  BY <1>1, <1>3, <1>2, Numbers DEF Basic, Named, Headed, CommitDo, product, origin, Works
<1> QED
  BY <1>4, <1>6, <1>7 DEF Basic

LEMMA CommitRecordBasic ==
  ASSUME Basic, NEW a \in Actors, CommitRecord(a)
  PROVE  Basic'
<1>1. Acts' /\ act[a].pc = "record" /\ (Moves(a, "push") \/ Moves(a, "done"))
  BY CommitRecordMoves DEF Basic, Typed
<1>2. Works(a)
  BY <1>1, Stand DEF Basic, Standing
<1>3. runs' = runs /\ RunsKept
  BY DEF CommitRecord, RunsKept
<1>4. Known'
  BY <1>1, <1>3, KnownMoves DEF Basic, Standing, Shelving
<1>5. receipts' \in Records
  BY <1>1, <1>2, Numbers, DeliveryAssumption DEF DeliveryAssumption, Basic, Typed, Works, Headed, CommitRecord, product, origin, Records
<1>6. Typed'
  BY <1>1, <1>3, <1>5 DEF Basic, Typed, CommitRecord, product, origin
<1>7. Named' /\ Headed'
  BY <1>1, <1>3, <1>2, Numbers DEF Basic, Named, Headed, CommitRecord, product, origin, Works, Records, Typed
<1> QED
  BY <1>4, <1>6, <1>7 DEF Basic

LEMMA PushBasic ==
  ASSUME Basic, NEW a \in Actors, Push(a)
  PROVE  Basic'
<1>1. Acts' /\ act[a].pc = "push" /\ (Moves(a, "pr") \/ Moves(a, "done"))
  BY PushMoves DEF Basic, Typed
<1>2. Works(a)
  BY <1>1, Stand DEF Basic, Standing
<1>3. runs' = runs /\ RunsKept
  BY DEF Push, RunsKept
<1>4. Known'
  BY <1>1, <1>3, KnownMoves DEF Basic, Standing, Shelving
<1>5. hub' \in [Items -> Branches] /\ receipts' \in Records /\ faults' \in 0 .. MaxFaults
  <2>1. receipts' \in Records
    BY <1>2, Refused DEF Basic, Typed, Works, Push
  <2>2. faults' \in 0 .. MaxFaults
    BY Faulted DEF Basic, Typed, Push
  <2>3. hub' = hub \/ hub' = [hub EXCEPT ![act[a].item].branch = act[a].run]
    BY DEF Push
  <2>4. hub' \in [Items -> Branches]
    BY <1>2, <2>3, Numbers DEF Basic, Typed, Works, Branches
  <2> QED
    BY <2>1, <2>2, <2>4
<1>6. Typed'
  BY <1>1, <1>3, <1>5 DEF Basic, Typed, Push, product, origin
<1>7. Named' /\ Headed'
  <2>1. receipts'.commit = receipts.commit /\ receipts'.linked = receipts.linked
    BY <1>2, Refused DEF Basic, Works, Push
  <2>2. hub' = hub \/ hub' = [hub EXCEPT ![act[a].item].branch = act[a].run]
    BY DEF Push
  <2>3. \A i \in Items : hub'[i].pr = hub[i].pr /\ hub'[i].head = hub[i].head
    BY <1>2, <2>2 DEF Basic, Typed, Branches
  <2> QED
    BY <1>3, <2>1, <2>3 DEF Basic, Named, Headed
<1> QED
  BY <1>4, <1>6, <1>7 DEF Basic

LEMMA PrBasic ==
  ASSUME Basic, NEW a \in Actors, Pr(a)
  PROVE  Basic'
<1>1. Acts' /\ act[a].pc = "pr" /\ (Moves(a, "pr-record") \/ Moves(a, "done"))
  BY PrMoves DEF Basic, Typed
<1>2. Works(a)
  BY <1>1, Stand DEF Basic, Standing
<1>3. runs' = runs /\ RunsKept
  BY DEF Pr, RunsKept
<1>4. Known'
  BY <1>1, <1>3, KnownMoves DEF Basic, Standing, Shelving
<1>5. hub' \in [Items -> Branches] /\ receipts' \in Records /\ faults' \in 0 .. MaxFaults
  <2>1. receipts' \in Records
    BY <1>2, Refused DEF Basic, Typed, Works, Pr
  <2>2. faults' \in 0 .. MaxFaults
    BY Faulted DEF Basic, Typed, Pr
  <2>3. \/ hub' = hub
        \/ hub' = [hub EXCEPT ![act[a].item].pr = "open", ![act[a].item].head = hub[act[a].item].branch]
    BY DEF Pr
  <2>4. hub[act[a].item] \in Branches
    BY <1>2 DEF Basic, Typed, Works
  <2> DEFINE d == [hub[act[a].item] EXCEPT !.pr = "open", !.head = hub[act[a].item].branch]
  <2>5. d \in Branches
    BY <2>4 DEF Branches
  <2>6. hub' = hub \/ hub' = [hub EXCEPT ![act[a].item] = d]
    BY <1>2, <2>3, <2>4 DEF Basic, Typed, Works, Branches
  <2> HIDE DEF d
  <2>7. hub' \in [Items -> Branches]
    BY <2>5, <2>6 DEF Basic, Typed
  <2> QED
    BY <2>1, <2>2, <2>7
<1>6. Typed'
  BY <1>1, <1>3, <1>5 DEF Basic, Typed, Pr, product, origin
<1>7. Named' /\ Headed'
  <2>1. receipts'.commit = receipts.commit /\ receipts'.linked = receipts.linked
    BY <1>2, Refused DEF Basic, Works, Pr
  <2>2. \/ hub' = hub
        \/ /\ hub[act[a].item].branch # 0
           /\ hub' = [hub EXCEPT ![act[a].item].pr = "open", ![act[a].item].head = hub[act[a].item].branch]
    BY DEF Pr
  <2>3. hub[act[a].item] \in Branches
    BY <1>2 DEF Basic, Typed, Works
  <2>4. \A i \in Items : hub'[i] = hub[i] \/ hub'[i].head \in Runs
    BY <1>2, <2>2, <2>3, Numbers DEF Basic, Typed, Works, Branches
  <2> QED
    BY <1>3, <2>1, <2>4 DEF Basic, Named, Headed
<1> QED
  BY <1>4, <1>6, <1>7 DEF Basic

LEMMA PrRecordBasic ==
  ASSUME Basic, NEW a \in Actors, PrRecord(a)
  PROVE  Basic'
<1>1. Acts' /\ act[a].pc = "pr-record" /\ (Moves(a, "view") \/ Moves(a, "done"))
  BY PrRecordMoves DEF Basic, Typed
<1>2. Works(a)
  BY <1>1, Stand DEF Basic, Standing
<1>3. runs' = runs /\ RunsKept
  BY DEF PrRecord, RunsKept
<1>4. Known'
  BY <1>1, <1>3, KnownMoves DEF Basic, Standing, Shelving
<1>5. receipts' \in Records
  BY <1>1, <1>2, Numbers, DeliveryAssumption DEF DeliveryAssumption, Basic, Typed, Works, Headed, PrRecord, product, origin, Records
<1>6. Typed'
  BY <1>1, <1>3, <1>5 DEF Basic, Typed, PrRecord, product, origin
<1>7. Named' /\ Headed'
  BY <1>1, <1>3, <1>2, Numbers DEF Basic, Named, Headed, PrRecord, product, origin, Works, Records, Typed
<1> QED
  BY <1>4, <1>6, <1>7 DEF Basic

LEMMA MergeViewBasic ==
  ASSUME Basic, NEW a \in Actors, MergeView(a)
  PROVE  Basic'
<1>1. Acts' /\ act[a].pc = "view" /\ (Moves(a, "sync") \/ Moves(a, "merge") \/ Moves(a, "done"))
  BY MergeViewMoves DEF Basic, Typed
<1>2. Works(a)
  BY <1>1, Stand DEF Basic, Standing
<1>3. runs' = runs /\ RunsKept
  BY DEF MergeView, RunsKept
<1>4. Known'
  BY <1>1, <1>3, KnownMoves DEF Basic, Standing, Shelving
<1>5. faults' \in 0 .. MaxFaults
  BY <1>1, <1>2, Numbers, DeliveryAssumption DEF DeliveryAssumption, Basic, Typed, Works, Headed, MergeView, product, origin, Fault
<1>6. Typed'
  BY <1>1, <1>3, <1>5 DEF Basic, Typed, MergeView, product, origin
<1>7. Named' /\ Headed'
  BY <1>1, <1>3, <1>2, Numbers DEF Basic, Named, Headed, MergeView, product, origin, Works
<1> QED
  BY <1>4, <1>6, <1>7 DEF Basic

LEMMA MergeDoBasic ==
  ASSUME Basic, NEW a \in Actors, MergeDo(a)
  PROVE  Basic'
<1>1. Acts' /\ act[a].pc = "merge" /\ (Moves(a, "sync") \/ Moves(a, "done"))
  BY MergeDoMoves DEF Basic, Typed
<1>2. Works(a)
  BY <1>1, Stand DEF Basic, Standing
<1>3. runs' = runs /\ RunsKept
  BY DEF MergeDo, RunsKept
<1>4. Known'
  BY <1>1, <1>3, KnownMoves DEF Basic, Standing, Shelving
<1>5. remote' \in SUBSET Commits /\ hub' \in [Items -> Branches] /\ faults' \in 0 .. MaxFaults
  BY <1>2, MergedTypes, Faulted DEF Basic, Typed, Works, MergeDo, origin
<1>6. Typed'
  BY <1>1, <1>3, <1>5 DEF Basic, Typed, MergeDo, product, origin
<1>7. Named' /\ Headed'
  BY <1>2, <1>3, MergedTypes DEF Basic, Named, Headed, Works, MergeDo, origin
<1> QED
  BY <1>4, <1>6, <1>7 DEF Basic

LEMMA SyncBasic ==
  ASSUME Basic, NEW a \in Actors, Sync(a)
  PROVE  Basic'
<1>1. Acts' /\ act[a].pc = "sync" /\ (Moves(a, "merge-record") \/ Moves(a, "done"))
  BY SyncMoves DEF Basic, Typed
<1>2. Works(a)
  BY <1>1, Stand DEF Basic, Standing
<1>3. runs' = runs /\ RunsKept
  BY DEF Sync, RunsKept
<1>4. Known'
  BY <1>1, <1>3, KnownMoves DEF Basic, Standing, Shelving
<1>5. local' \in SUBSET Commits /\ faults' \in 0 .. MaxFaults
  BY <1>1, <1>2, Numbers, DeliveryAssumption DEF DeliveryAssumption, Basic, Typed, Works, Headed, Sync, product, origin, Fault
<1>6. Typed'
  BY <1>1, <1>3, <1>5 DEF Basic, Typed, Sync, product, origin
<1>7. Named' /\ Headed'
  BY <1>1, <1>3, <1>2, Numbers DEF Basic, Named, Headed, Sync, product, origin, Works
<1> QED
  BY <1>4, <1>6, <1>7 DEF Basic

LEMMA MergeRecordBasic ==
  ASSUME Basic, NEW a \in Actors, MergeRecord(a)
  PROVE  Basic'
<1>1. Acts' /\ act[a].pc = "merge-record" /\ (Moves(a, "done"))
  BY MergeRecordMoves DEF Basic, Typed
<1>2. Works(a)
  BY <1>1, Stand DEF Basic, Standing
<1>3. runs' = runs /\ RunsKept
  BY DEF MergeRecord, RunsKept
<1>4. Known'
  BY <1>1, <1>3, KnownMoves DEF Basic, Standing, Shelving
<1>5. receipts' \in Records
  BY <1>1, <1>2, Numbers, DeliveryAssumption DEF DeliveryAssumption, Basic, Typed, Works, Headed, MergeRecord, product, origin, Records
<1>6. Typed'
  BY <1>1, <1>3, <1>5 DEF Basic, Typed, MergeRecord, product, origin
<1>7. Named' /\ Headed'
  BY <1>1, <1>3, <1>2, Numbers DEF Basic, Named, Headed, MergeRecord, product, origin, Works, Records, Typed
<1> QED
  BY <1>4, <1>6, <1>7 DEF Basic

LEMMA PushBaseBasic ==
  ASSUME Basic, NEW a \in Actors, PushBase(a)
  PROVE  Basic'
<1>1. Acts' /\ act[a].pc = "push-base" /\ (Moves(a, "push-record") \/ Moves(a, "done"))
  BY PushBaseMoves DEF Basic, Typed
<1>2. Works(a)
  BY <1>1, Stand DEF Basic, Standing
<1>3. runs' = runs /\ RunsKept
  BY DEF PushBase, RunsKept
<1>4. Known'
  BY <1>1, <1>3, KnownMoves DEF Basic, Standing, Shelving
<1>5. remote' \in SUBSET Commits
  BY <1>1, <1>2, Numbers, DeliveryAssumption DEF DeliveryAssumption, Basic, Typed, Works, Headed, PushBase, product, origin
<1>6. Typed'
  BY <1>1, <1>3, <1>5 DEF Basic, Typed, PushBase, product, origin
<1>7. Named' /\ Headed'
  BY <1>1, <1>3, <1>2, Numbers DEF Basic, Named, Headed, PushBase, product, origin, Works
<1> QED
  BY <1>4, <1>6, <1>7 DEF Basic

LEMMA PushRecordBasic ==
  ASSUME Basic, NEW a \in Actors, PushRecord(a)
  PROVE  Basic'
<1>1. Acts' /\ act[a].pc = "push-record" /\ (Moves(a, "done"))
  BY PushRecordMoves DEF Basic, Typed
<1>2. Works(a)
  BY <1>1, Stand DEF Basic, Standing
<1>3. runs' = runs /\ RunsKept
  BY DEF PushRecord, RunsKept
<1>4. Known'
  BY <1>1, <1>3, KnownMoves DEF Basic, Standing, Shelving
<1>5. receipts' \in Records
  BY <1>1, <1>2, Numbers, DeliveryAssumption DEF DeliveryAssumption, Basic, Typed, Works, Headed, PushRecord, product, origin, Records
<1>6. Typed'
  BY <1>1, <1>3, <1>5 DEF Basic, Typed, PushRecord, product, origin
<1>7. Named' /\ Headed'
  BY <1>1, <1>3, <1>2, Numbers DEF Basic, Named, Headed, PushRecord, product, origin, Works, Records, Typed
<1> QED
  BY <1>4, <1>6, <1>7 DEF Basic

LEMMA RunVerifyBasic ==
  ASSUME Basic, NEW a \in Actors, RunVerify(a)
  PROVE  Basic'
<1>1. Known'
  BY RunVerifyMoves, KnownMoves, KnownBegins DEF Basic, Standing, Shelving, KnownBy
<1>2. Typed'
  BY RunVerifyMoves, Numbers DEF Basic, Typed, RunVerify, product, origin
<1>3. \A k \in Runs : runs'[k] = runs[k] \/ runs'[k].item \in Items
  <2>1. \/ runs' = runs
        \/ \E i \in Items, k \in Runs :
             runs' = [runs EXCEPT ![k] = [item |-> i, before |-> local, evidence |-> "none"]]
    BY DEF RunVerify
  <2> QED
    BY <2>1 DEF Basic, Typed
<1>4. Named' /\ Headed'
  BY <1>3 DEF Basic, Named, Headed, RunVerify, origin
<1> QED
  BY <1>1, <1>2, <1>4 DEF Basic

LEMMA BeginTransactionBasic ==
  ASSUME Basic, NEW i \in Items, NEW job \in Transactions, NEW a \in Actors, BeginTransaction(a, i, job)
  PROVE  Basic'
<1>1. Acts' /\ Others(a) /\ KnownBy(a)'
  BY BeginTransactionBegins DEF Begins, KnownBy, Standing, Shelving
<1>2. RunsKept
  BY DEF BeginTransaction, RunsKept
<1> QED
  BY <1>1, <1>2, KnownBegins DEF Basic, Typed, Named, Headed, BeginTransaction, product, origin

LEMMA BeginCompleteBasic ==
  ASSUME Basic, NEW k \in Runs, NEW a \in Actors, BeginComplete(a, k)
  PROVE  Basic'
<1>1. Acts' /\ Others(a) /\ KnownBy(a)'
  BY BeginCompleteBegins DEF Begins, KnownBy, Standing, Shelving
<1>2. RunsKept
  BY DEF BeginComplete, RunsKept
<1> QED
  BY <1>1, <1>2, KnownBegins DEF Basic, Typed, Named, Headed, BeginComplete, product, origin

LEMMA BeginCommitBasic ==
  ASSUME Basic, NEW k \in Runs, NEW a \in Actors, BeginCommit(a, k)
  PROVE  Basic'
<1>1. Acts' /\ Others(a) /\ KnownBy(a)'
  BY BeginCommitBegins DEF Begins, KnownBy, Standing, Shelving
<1>2. RunsKept
  BY DEF BeginCommit, RunsKept
<1> QED
  BY <1>1, <1>2, KnownBegins DEF Basic, Typed, Named, Headed, BeginCommit, product, origin

LEMMA BeginMergeBasic ==
  ASSUME Basic, NEW k \in Runs, NEW a \in Actors, BeginMerge(a, k)
  PROVE  Basic'
<1>1. Acts' /\ Others(a) /\ KnownBy(a)'
  BY BeginMergeBegins DEF Begins, KnownBy, Standing, Shelving
<1>2. RunsKept
  BY DEF BeginMerge, RunsKept
<1> QED
  BY <1>1, <1>2, KnownBegins DEF Basic, Typed, Named, Headed, BeginMerge, product, origin

LEMMA BeginPushBaseBasic ==
  ASSUME Basic, NEW k \in Runs, NEW a \in Actors, BeginPushBase(a, k)
  PROVE  Basic'
<1>1. Acts' /\ Others(a) /\ KnownBy(a)'
  BY BeginPushBaseBegins DEF Begins, KnownBy, Standing, Shelving
<1>2. RunsKept
  BY DEF BeginPushBase, RunsKept
<1> QED
  BY <1>1, <1>2, KnownBegins DEF Basic, Typed, Named, Headed, BeginPushBase, product, origin

LEMMA BeginRetryBasic ==
  ASSUME Basic, NEW k \in Runs, NEW job \in {"retry", "republish"}, NEW a \in Actors, BeginRetry(a, k, job)
  PROVE  Basic'
<1>1. Acts' /\ Others(a) /\ KnownBy(a)'
  BY BeginRetryBegins DEF Begins, KnownBy, Standing, Shelving
<1>2. RunsKept
  BY DEF BeginRetry, RunsKept
<1> QED
  BY <1>1, <1>2, KnownBegins DEF Basic, Typed, Named, Headed, BeginRetry, product, origin

LEMMA RecoverBasic ==
  ASSUME Basic, NEW k \in Runs, NEW a \in Actors, Recover(a, k)
  PROVE  Basic'
<1>1. Known'
  BY RecoverBegins, KnownBegins DEF Basic, KnownBy, Standing, Shelving
<1>2. Typed'
  BY RecoverBegins DEF Basic, Typed, Recover, product, origin
<1>3. Named' /\ Headed'
  BY RecoverBegins DEF Basic, Named, Headed, Recover, origin
<1> QED
  BY <1>1, <1>2, <1>3 DEF Basic

LEMMA BeginShelveBasic ==
  ASSUME Basic, NEW i \in Items, NEW to \in {"blocked", "manual-review"}, NEW a \in Actors,
         BeginShelve(a, i, to)
  PROVE  Basic'
<1>1. Acts' /\ Others(a) /\ KnownBy(a)'
  BY BeginShelveBegins DEF KnownBy, Standing
<1>2. RunsKept
  BY DEF BeginShelve, RunsKept
<1> QED
  BY <1>1, <1>2, KnownBegins DEF Basic, Typed, Named, Headed, BeginShelve, product, origin

LEMMA FinishBasic ==
  ASSUME Basic, NEW a \in Actors, Finish(a)
  PROVE  Basic'
<1>1. Acts' /\ Others(a) /\ KnownBy(a)' /\ RunsKept
  BY Cleared DEF Basic, Typed, Finish, KnownBy, Standing, Shelving, RunsKept
<1> QED
  BY <1>1, KnownBegins DEF Basic, Typed, Named, Headed, Finish, product, origin

LEMMA CrashBasic ==
  ASSUME Basic, NEW a \in Actors, Crash(a)
  PROVE  Basic'
<1>1. Acts' /\ Others(a) /\ KnownBy(a)' /\ RunsKept
  BY Cleared DEF Basic, Typed, Crash, KnownBy, Standing, Shelving, RunsKept
<1>2. crashes' \in 0 .. MaxCrashes /\ lock' \in Actors \cup {"free", "dead"}
  BY DeliveryAssumption DEF DeliveryAssumption, Basic, Typed, Crash
<1>3. act[a].run \in 0 .. MaxRuns
  BY DEF Basic, Typed, Acts, Commands
<1>4. tree' \in 0 .. MaxRuns
  BY <1>3 DEF Basic, Typed, Crash
<1> QED
  BY <1>1, <1>2, <1>4, KnownBegins DEF Basic, Typed, Named, Headed, Crash, origin

LEMMA EnvironmentBasic ==
  ASSUME Basic, Environment
  PROVE  Basic' /\ act' = act /\ runs' = runs
<1>1. act' = act /\ runs' = runs /\ receipts' = receipts /\ tip' = tip /\ local' = local /\ report' = report
  BY DEF Environment, ClearLock, Restore, LoseCreds, RestoreCreds, HumanMerge, HumanClose, Refill, product, origin
<1>2. Known' /\ Named'
  BY <1>1 DEF Basic, Known, KnownBy, Works, Named
<1>3. CASE ClearLock \/ Restore \/ LoseCreds \/ RestoreCreds
  <2>1. faults' \in 0 .. MaxFaults
    BY <1>3, Faulted DEF Basic, Typed, ClearLock, Restore, LoseCreds, RestoreCreds
  <2>2. Typed' /\ hub' = hub
    BY <1>1, <1>3, <2>1, Numbers DEF Basic, Typed, Acts, ClearLock, Restore, LoseCreds, RestoreCreds, product, origin
  <2> QED
    BY <1>1, <1>2, <2>2 DEF Basic, Headed
<1>4. ASSUME NEW i \in Items, HumanMerge(i)
      PROVE  Basic'
  <2>1. Typed'
    BY <1>1, <1>4, MergedTypes, Faulted DEF Basic, Typed, Acts, HumanMerge, product
  <2>2. Headed'
    BY <1>4, MergedTypes DEF Basic, Headed, HumanMerge
  <2> QED
    BY <1>2, <2>1, <2>2 DEF Basic
<1>5. ASSUME NEW i \in Items, HumanClose(i)
      PROVE  Basic'
  <2>1. hub' \in [Items -> Branches] /\ \A j \in Items : hub'[j] = hub[j] \/ hub'[j].pr = "closed"
    BY <1>5 DEF Basic, Typed, HumanClose, Branches
  <2>2. Typed'
    BY <1>1, <1>5, <2>1, Faulted DEF Basic, Typed, Acts, HumanClose, product
  <2>3. Headed'
    BY <2>1 DEF Basic, Headed
  <2> QED
    BY <1>2, <2>2, <2>3 DEF Basic
<1>6. ASSUME NEW i \in Items, Refill(i)
      PROVE  Basic'
  <2>1. "queued" \in Dirs
    BY DEF Dirs
  <2>2. Typed' /\ hub' = hub
    BY <1>1, <1>6, <2>1, Moved DEF Basic, Typed, Acts, Refill, product, origin
  <2> QED
    BY <1>2, <2>2 DEF Basic, Headed
<1> QED
  BY <1>1, <1>3, <1>4, <1>5, <1>6 DEF Environment

LEMMA InitBasic ==
  ASSUME Init
  PROVE  Basic
<1>1. /\ 0 \in 0 .. MaxFaults /\ 0 \in 0 .. MaxCrashes /\ {"none", "queued"} \subseteq Dirs
      /\ NoRun \in Entries
  BY DeliveryAssumption DEF DeliveryAssumption, Dirs, NoRun, Entries
<1>2. Acts
  BY IdleType DEF Init, Acts
<1>3. backlog \in [Items -> Files] /\ hub \in [Items -> Branches] /\ receipts \in Records
  BY <1>1, Numbers DEF Init, Files, Branches, Records, Dirs
<1>4. Typed
  BY <1>1, <1>2, <1>3, Numbers DEF Init, Typed
<1>5. Known /\ Named /\ Headed
  BY DEF Init, Known, KnownBy, Named, Headed, Idle, NoRun, Standing, Shelving
<1> QED
  BY <1>4, <1>5 DEF Basic

LEMMA NextBasic ==
  ASSUME Basic, [Next]_vars
  PROVE  Basic'
<1>1. CASE UNCHANGED vars
  BY <1>1 DEF Basic, Typed, Acts, Known, KnownBy, Works, Named, Headed, vars, product, origin
<1>2. ASSUME NEW a \in Actors, Begin(a)
      PROVE  Basic'
  BY <1>2, BeginTransactionBasic, BeginCompleteBasic, RecoverBasic, BeginCommitBasic, BeginMergeBasic,
     BeginPushBaseBasic, BeginRetryBasic, BeginShelveBasic DEF Begin
<1>3. ASSUME NEW a \in Actors, Continue(a)
      PROVE  Basic'
  BY <1>3, RunLockBasic, RunVerifyBasic, RunLaneBasic, RunPostBasic, CompleteCheckBasic, CompleteMoveBasic,
     CompleteMetaBasic, ShelveMoveBasic, ShelveMetaBasic, CommitCheckBasic, CommitDoBasic, CommitRecordBasic,
     PushBasic, PrBasic, PrRecordBasic, MergeViewBasic, MergeDoBasic, SyncBasic, MergeRecordBasic,
     PushBaseBasic, PushRecordBasic DEF Continue
<1> QED
  BY <1>1, <1>2, <1>3, FinishBasic, CrashBasic, EnvironmentBasic DEF Next

(* Whatever commands do at the same time, and wherever they die, every     *)
(* file, record and branch holds what the code may store there.            *)
THEOREM TypeCorrect == Spec => []TypeOK
<1>1. Basic => TypeOK
  BY TypeParts DEF Basic
<1> QED
  BY <1>1, InitBasic, NextBasic, PTL DEF Spec

-----------------------------------------------------------------------------
(* The lock, and the tree of the one implementer that holds it.            *)

(* The work of run k exists, in the worktree or as a commit.               *)
Safe(k) == tree = k \/ Product(k) \in local

CleanBy(a) ==
  /\ act[a].pc \in {"verify", "lane", "post"} => lock = a
  /\ act[a].pc = "lane" => tree = 0 /\ runs[act[a].run].evidence = "none"
  /\ act[a].pc = "post" =>
       tree \in {0, act[a].run} /\ (runs[act[a].run].evidence = "pass" => Safe(act[a].run))
Clean == \A a \in Actors : CleanBy(a)

(* What a command without the lock may do: it takes a diff out of the tree *)
(* by committing it, and writes evidence only of a diff that is there.     *)
RunQuiet == runs' = runs /\ tree' = tree /\ local' = local
Gentle ==
  /\ local \subseteq local'
  /\ tree' = tree \/ (tree' = 0 /\ Product(tree) \in local')
  /\ \A k \in Runs : runs'[k].evidence = runs[k].evidence \/ tree # 0

LEMMA CleanStep ==
  ASSUME Basic, Clean, NEW a \in Actors, Others(a), CleanBy(a)',
         lock' = lock \/ lock \notin Actors \ {a},
         RunQuiet \/ Gentle \/ lock = a
  PROVE  Clean'
<1>1. ASSUME NEW b \in Actors \ {a}
      PROVE  CleanBy(b)'
  <2>1. Kept(b)
    BY DEF Others
  <2>2. CASE act[b].pc \notin {"verify", "lane", "post"}
    BY <2>1, <2>2 DEF CleanBy, Kept
  <2>3. CASE act[b].pc \in {"verify", "lane", "post"}
    <3>1. lock = b /\ lock' = b /\ (RunQuiet \/ Gentle)
      BY <2>3 DEF Clean, CleanBy
    <3>2. CASE act[b].pc = "verify"
      BY <2>1, <3>1, <3>2 DEF CleanBy, Kept
    <3>3. CASE act[b].pc = "lane"
      <4>1. act[b].run \in Runs /\ tree = 0 /\ runs[act[b].run].evidence = "none"
        BY <3>3, Stand DEF Basic, Standing, Works, Clean, CleanBy
      <4> QED
        BY <2>1, <3>1, <3>3, <4>1 DEF CleanBy, Kept, RunQuiet, Gentle
    <3>4. CASE act[b].pc = "post"
      <4>1. /\ act[b].run \in Runs /\ tree \in {0, act[b].run}
            /\ runs[act[b].run].evidence = "pass" => Safe(act[b].run)
        BY <3>4, Stand DEF Basic, Standing, Works, Clean, CleanBy
      <4> QED
        BY <2>1, <3>1, <3>4, <4>1 DEF CleanBy, Kept, RunQuiet, Gentle, Safe
    <3> QED
      BY <2>3, <3>2, <3>3, <3>4
  <2> QED
    BY <2>2, <2>3
<1> QED
  BY <1>1 DEF Clean

LEMMA CleanInit ==
  ASSUME Init
  PROVE  Clean
BY DEF Init, Clean, CleanBy, Idle

LEMMA CompleteCheckClean ==
  ASSUME Basic, Clean, NEW a \in Actors, CompleteCheck(a)
  PROVE  Clean'
<1>1. Others(a) /\ CleanBy(a)' /\ lock' = lock /\ RunQuiet
  BY CompleteCheckMoves DEF Basic, Typed, Moves, CleanBy, CompleteCheck, product, RunQuiet
<1> QED
  BY <1>1, CleanStep

LEMMA CompleteMoveClean ==
  ASSUME Basic, Clean, NEW a \in Actors, CompleteMove(a)
  PROVE  Clean'
<1>1. Others(a) /\ CleanBy(a)' /\ lock' = lock /\ RunQuiet
  BY CompleteMoveMoves DEF Basic, Typed, Moves, CleanBy, CompleteMove, product, RunQuiet
<1> QED
  BY <1>1, CleanStep

LEMMA CompleteMetaClean ==
  ASSUME Basic, Clean, NEW a \in Actors, CompleteMeta(a)
  PROVE  Clean'
<1>1. Others(a) /\ CleanBy(a)' /\ lock' = lock /\ RunQuiet
  BY CompleteMetaMoves DEF Basic, Typed, Moves, CleanBy, CompleteMeta, product, RunQuiet
<1> QED
  BY <1>1, CleanStep

LEMMA ShelveMoveClean ==
  ASSUME Basic, Clean, NEW a \in Actors, ShelveMove(a)
  PROVE  Clean'
<1>1. Others(a) /\ CleanBy(a)' /\ lock' = lock /\ RunQuiet
  BY ShelveMoveMoves DEF Basic, Typed, Moves, CleanBy, ShelveMove, product, RunQuiet
<1> QED
  BY <1>1, CleanStep

LEMMA ShelveMetaClean ==
  ASSUME Basic, Clean, NEW a \in Actors, ShelveMeta(a)
  PROVE  Clean'
<1>1. Others(a) /\ CleanBy(a)' /\ lock' = lock /\ RunQuiet
  BY ShelveMetaMoves DEF Basic, Typed, Moves, CleanBy, ShelveMeta, product, RunQuiet
<1> QED
  BY <1>1, CleanStep

LEMMA CommitCheckClean ==
  ASSUME Basic, Clean, NEW a \in Actors, CommitCheck(a)
  PROVE  Clean'
<1>1. Others(a) /\ CleanBy(a)' /\ lock' = lock /\ RunQuiet
  BY CommitCheckMoves DEF Basic, Typed, Moves, CleanBy, CommitCheck, product, RunQuiet
<1> QED
  BY <1>1, CleanStep

LEMMA CommitRecordClean ==
  ASSUME Basic, Clean, NEW a \in Actors, CommitRecord(a)
  PROVE  Clean'
<1>1. Others(a) /\ CleanBy(a)' /\ lock' = lock /\ RunQuiet
  BY CommitRecordMoves DEF Basic, Typed, Moves, CleanBy, CommitRecord, product, RunQuiet
<1> QED
  BY <1>1, CleanStep

LEMMA PushClean ==
  ASSUME Basic, Clean, NEW a \in Actors, Push(a)
  PROVE  Clean'
<1>1. Others(a) /\ CleanBy(a)' /\ lock' = lock /\ RunQuiet
  BY PushMoves DEF Basic, Typed, Moves, CleanBy, Push, product, RunQuiet
<1> QED
  BY <1>1, CleanStep

LEMMA PrClean ==
  ASSUME Basic, Clean, NEW a \in Actors, Pr(a)
  PROVE  Clean'
<1>1. Others(a) /\ CleanBy(a)' /\ lock' = lock /\ RunQuiet
  BY PrMoves DEF Basic, Typed, Moves, CleanBy, Pr, product, RunQuiet
<1> QED
  BY <1>1, CleanStep

LEMMA PrRecordClean ==
  ASSUME Basic, Clean, NEW a \in Actors, PrRecord(a)
  PROVE  Clean'
<1>1. Others(a) /\ CleanBy(a)' /\ lock' = lock /\ RunQuiet
  BY PrRecordMoves DEF Basic, Typed, Moves, CleanBy, PrRecord, product, RunQuiet
<1> QED
  BY <1>1, CleanStep

LEMMA MergeViewClean ==
  ASSUME Basic, Clean, NEW a \in Actors, MergeView(a)
  PROVE  Clean'
<1>1. Others(a) /\ CleanBy(a)' /\ lock' = lock /\ RunQuiet
  BY MergeViewMoves DEF Basic, Typed, Moves, CleanBy, MergeView, product, RunQuiet
<1> QED
  BY <1>1, CleanStep

LEMMA MergeDoClean ==
  ASSUME Basic, Clean, NEW a \in Actors, MergeDo(a)
  PROVE  Clean'
<1>1. Others(a) /\ CleanBy(a)' /\ lock' = lock /\ RunQuiet
  BY MergeDoMoves DEF Basic, Typed, Moves, CleanBy, MergeDo, product, RunQuiet
<1> QED
  BY <1>1, CleanStep

LEMMA SyncClean ==
  ASSUME Basic, Clean, NEW a \in Actors, Sync(a)
  PROVE  Clean'
<1>1. Others(a) /\ CleanBy(a)' /\ lock' = lock
  BY SyncMoves DEF Basic, Typed, Moves, CleanBy, Sync
<1>2. Gentle
  BY DEF Sync, Gentle
<1> QED
  BY <1>1, <1>2, CleanStep

LEMMA MergeRecordClean ==
  ASSUME Basic, Clean, NEW a \in Actors, MergeRecord(a)
  PROVE  Clean'
<1>1. Others(a) /\ CleanBy(a)' /\ lock' = lock /\ RunQuiet
  BY MergeRecordMoves DEF Basic, Typed, Moves, CleanBy, MergeRecord, product, RunQuiet
<1> QED
  BY <1>1, CleanStep

LEMMA PushBaseClean ==
  ASSUME Basic, Clean, NEW a \in Actors, PushBase(a)
  PROVE  Clean'
<1>1. Others(a) /\ CleanBy(a)' /\ lock' = lock /\ RunQuiet
  BY PushBaseMoves DEF Basic, Typed, Moves, CleanBy, PushBase, product, RunQuiet
<1> QED
  BY <1>1, CleanStep

LEMMA PushRecordClean ==
  ASSUME Basic, Clean, NEW a \in Actors, PushRecord(a)
  PROVE  Clean'
<1>1. Others(a) /\ CleanBy(a)' /\ lock' = lock /\ RunQuiet
  BY PushRecordMoves DEF Basic, Typed, Moves, CleanBy, PushRecord, product, RunQuiet
<1> QED
  BY <1>1, CleanStep

LEMMA BeginTransactionClean ==
  ASSUME Basic, Clean, NEW i \in Items, NEW job \in Transactions, NEW a \in Actors, BeginTransaction(a, i, job)
  PROVE  Clean'
<1>1. Others(a) /\ CleanBy(a)' /\ lock' = lock /\ RunQuiet
  BY BeginTransactionBegins DEF Begins, CleanBy, BeginTransaction, product, RunQuiet
<1> QED
  BY <1>1, CleanStep

LEMMA BeginCompleteClean ==
  ASSUME Basic, Clean, NEW k \in Runs, NEW a \in Actors, BeginComplete(a, k)
  PROVE  Clean'
<1>1. Others(a) /\ CleanBy(a)' /\ lock' = lock /\ RunQuiet
  BY BeginCompleteBegins DEF Begins, CleanBy, BeginComplete, product, RunQuiet
<1> QED
  BY <1>1, CleanStep

LEMMA BeginCommitClean ==
  ASSUME Basic, Clean, NEW k \in Runs, NEW a \in Actors, BeginCommit(a, k)
  PROVE  Clean'
<1>1. Others(a) /\ CleanBy(a)' /\ lock' = lock /\ RunQuiet
  BY BeginCommitBegins DEF Begins, CleanBy, BeginCommit, product, RunQuiet
<1> QED
  BY <1>1, CleanStep

LEMMA BeginMergeClean ==
  ASSUME Basic, Clean, NEW k \in Runs, NEW a \in Actors, BeginMerge(a, k)
  PROVE  Clean'
<1>1. Others(a) /\ CleanBy(a)' /\ lock' = lock /\ RunQuiet
  BY BeginMergeBegins DEF Begins, CleanBy, BeginMerge, product, RunQuiet
<1> QED
  BY <1>1, CleanStep

LEMMA BeginPushBaseClean ==
  ASSUME Basic, Clean, NEW k \in Runs, NEW a \in Actors, BeginPushBase(a, k)
  PROVE  Clean'
<1>1. Others(a) /\ CleanBy(a)' /\ lock' = lock /\ RunQuiet
  BY BeginPushBaseBegins DEF Begins, CleanBy, BeginPushBase, product, RunQuiet
<1> QED
  BY <1>1, CleanStep

LEMMA BeginRetryClean ==
  ASSUME Basic, Clean, NEW k \in Runs, NEW job \in {"retry", "republish"}, NEW a \in Actors, BeginRetry(a, k, job)
  PROVE  Clean'
<1>1. Others(a) /\ CleanBy(a)' /\ lock' = lock /\ RunQuiet
  BY BeginRetryBegins DEF Begins, CleanBy, BeginRetry, product, RunQuiet
<1> QED
  BY <1>1, CleanStep

LEMMA RecoverClean ==
  ASSUME Basic, Clean, NEW k \in Runs, NEW a \in Actors, Recover(a, k)
  PROVE  Clean'
<1>1. Others(a) /\ CleanBy(a)' /\ lock' = lock
  BY RecoverBegins DEF Begins, CleanBy, Recover
<1>2. Gentle
  BY DEF Recover, Gentle, product, Basic, Typed
<1> QED
  BY <1>1, <1>2, CleanStep

LEMMA BeginShelveClean ==
  ASSUME Basic, Clean, NEW i \in Items, NEW to \in {"blocked", "manual-review"}, NEW a \in Actors, BeginShelve(a, i, to)
  PROVE  Clean'
<1>1. Others(a) /\ CleanBy(a)' /\ lock' = lock /\ RunQuiet
  BY BeginShelveBegins DEF Begins, CleanBy, BeginShelve, product, RunQuiet
<1> QED
  BY <1>1, CleanStep

LEMMA RunLockClean ==
  ASSUME Basic, Clean, NEW a \in Actors, RunLock(a)
  PROVE  Clean'
<1>1. Others(a) /\ CleanBy(a)' /\ RunQuiet
  BY RunLockMoves DEF Basic, Typed, Moves, CleanBy, RunLock, product, RunQuiet
<1>2. lock' = lock \/ lock \notin Actors \ {a}
  BY DeliveryAssumption DEF DeliveryAssumption, RunLock
<1> QED
  BY <1>1, <1>2, CleanStep

LEMMA RunVerifyClean ==
  ASSUME Basic, Clean, NEW a \in Actors, RunVerify(a)
  PROVE  Clean'
<1>1. Others(a) /\ act[a].pc = "verify" /\ tree' = tree
  BY RunVerifyMoves DEF Moves, RunVerify, product
<1>2. lock = a
  BY <1>1 DEF Clean, CleanBy
<1>3. CleanBy(a)'
  BY <1>1, <1>2, RunVerifyMoves DEF Moves, CleanBy
<1> QED
  BY <1>1, <1>2, <1>3, CleanStep

LEMMA RunLaneClean ==
  ASSUME Basic, Clean, NEW a \in Actors, RunLane(a)
  PROVE  Clean'
<1>1. /\ Others(a) /\ act[a].pc = "lane" /\ lock' = lock
      /\ act'[a].pc = "post" /\ act'[a].run = act[a].run
  BY RunLaneMoves DEF Basic, Typed, Moves, RunLane
<1>2. lock = a /\ tree = 0 /\ runs[act[a].run].evidence = "none"
  BY <1>1 DEF Clean, CleanBy
<1>3. /\ tree' \in {0, act[a].run}
      /\ runs'[act[a].run].evidence = "pass" => tree' = act[a].run
  BY <1>2 DEF RunLane
<1> QED
  BY <1>1, <1>2, <1>3, CleanStep DEF CleanBy, Safe

LEMMA RunPostClean ==
  ASSUME Basic, Clean, NEW a \in Actors, RunPost(a)
  PROVE  Clean'
<1>1. Others(a) /\ act[a].pc = "post" /\ act'[a].pc \in {"check", "done"} /\ tree' = tree
  BY RunPostMoves DEF Basic, Typed, Moves, RunPost, product
<1>2. lock = a
  BY <1>1 DEF Clean, CleanBy
<1> QED
  BY <1>1, <1>2, CleanStep DEF CleanBy

LEMMA CommitDoClean ==
  ASSUME Basic, Clean, NEW a \in Actors, CommitDo(a)
  PROVE  Clean'
<1>1. Others(a) /\ CleanBy(a)' /\ lock' = lock
  BY CommitDoMoves DEF Basic, Typed, Moves, CleanBy, CommitDo
<1>2. RunQuiet \/ Gentle
  BY DEF CommitDo, product, RunQuiet, Gentle
<1> QED
  BY <1>1, <1>2, CleanStep

LEMMA FinishClean ==
  ASSUME Basic, Clean, NEW a \in Actors, Finish(a)
  PROVE  Clean'
<1>1. Others(a) /\ CleanBy(a)' /\ lock' = lock /\ RunQuiet
  BY Cleared DEF Basic, Typed, CleanBy, Finish, product, RunQuiet
<1> QED
  BY <1>1, CleanStep

(* The lock of a command that died stays, as its owner's or as a dead one. *)
LEMMA CrashClean ==
  ASSUME Basic, Clean, NEW a \in Actors, Crash(a)
  PROVE  Clean'
<1>1. Others(a) /\ CleanBy(a)'
  BY Cleared DEF Basic, Typed, CleanBy, Crash
<1>2. lock' = lock \/ lock \notin Actors \ {a}
  BY DEF Crash
<1>3. RunQuiet \/ lock = a
  BY DEF Crash, Clean, CleanBy, RunQuiet
<1> QED
  BY <1>1, <1>2, <1>3, CleanStep

LEMMA EnvironmentClean ==
  ASSUME Basic, Clean, Environment
  PROVE  Clean'
<1>1. act' = act
  BY EnvironmentBasic
<1>2. runs' = runs /\ local' = local
  BY DEF Environment, ClearLock, Restore, LoseCreds, RestoreCreds, HumanMerge, HumanClose, Refill, product
<1>3. tree' = tree \/ \A a \in Actors : act[a].pc \in {"idle", "done"}
  BY DEF Environment, ClearLock, Restore, LoseCreds, RestoreCreds, HumanMerge, HumanClose, Refill, product
<1>4. lock' = lock \/ lock = "dead"
  BY DEF Environment, ClearLock, Restore, LoseCreds, RestoreCreds, HumanMerge, HumanClose, Refill
<1>5. "dead" \notin Actors
  BY DeliveryAssumption DEF DeliveryAssumption
<1> QED
  BY <1>1, <1>2, <1>3, <1>4, <1>5 DEF Clean, CleanBy, Safe

LEMMA NextClean ==
  ASSUME Basic, Clean, [Next]_vars
  PROVE  Clean'
<1>1. CASE UNCHANGED vars
  BY <1>1 DEF Clean, CleanBy, Safe, vars, product
<1>2. ASSUME NEW a \in Actors, Begin(a)
      PROVE  Clean'
  BY <1>2, BeginTransactionClean, BeginCompleteClean, RecoverClean, BeginCommitClean, BeginMergeClean,
     BeginPushBaseClean, BeginRetryClean, BeginShelveClean DEF Begin
<1>3. ASSUME NEW a \in Actors, Continue(a)
      PROVE  Clean'
  BY <1>3, RunLockClean, RunVerifyClean, RunLaneClean, RunPostClean, CompleteCheckClean, CompleteMoveClean,
     CompleteMetaClean, ShelveMoveClean, ShelveMetaClean, CommitCheckClean, CommitDoClean, CommitRecordClean,
     PushClean, PrClean, PrRecordClean, MergeViewClean, MergeDoClean, SyncClean, MergeRecordClean,
     PushBaseClean, PushRecordClean DEF Continue
<1> QED
  BY <1>1, <1>2, <1>3, FinishClean, CrashClean, EnvironmentClean DEF Next

(* Two implementers never share a worktree: only the holder of             *)
(* target-run.lock implements; until it releases the lock the tree has     *)
(* nothing but its run's diff, and the diff its evidence speaks of is      *)
(* there or was committed.                                                 *)
THEOREM ImplementerWorksAlone == Spec => []ImplementerAlone
<1>1. Clean => ImplementerAlone
  BY DEF Clean, CleanBy, Safe, ImplementerAlone
<1> QED
  BY <1>1, InitBasic, NextBasic, CleanInit, NextClean, PTL DEF Spec

-----------------------------------------------------------------------------
(* Completion and commit of an item are one run's.                         *)

(* An item that was once completed is completed by a run whose work exists, *)
(* and is never executed again.                                            *)
FileSound(i) ==
  /\ backlog[i].run # 0 => ~Executable(i)
  /\ backlog[i].status = "completed" => backlog[i].run # 0 /\ Safe(backlog[i].run)
  /\ backlog[i].dir = "none" => backlog[i].status # "completed" /\ backlog[i].run = 0
FilesSound == \A i \in Items : FileSound(i)

Transition == {"move", "meta"}
MoveSound(a) ==
  /\ act[a].pc \in Transition => Safe(act[a].run) /\ backlog[act[a].item].run \in {0, act[a].run}
  /\ act[a].pc = "commit" => backlog[act[a].item].run = act[a].run
MovesSound == \A a \in Actors : MoveSound(a)

(* Commands that complete the same item do it for the same run.            *)
OneRun ==
  \A a, b \in Actors :
    act[a].pc \in Transition /\ act[b].pc \in Transition /\ act[a].item = act[b].item
      => act[a].run = act[b].run

(* A commit of the local base is of the run its item was completed by, and *)
(* the origin has no commit the local base does not have.                  *)
CommitSound(k) ==
  /\ Product(k) \in local => runs[k].item \in Items /\ backlog[runs[k].item].run = k
  /\ tip[k] \subseteq local
  /\ Product(k) \in remote => Product(k) \in local
CommitsSound == \A k \in Runs : CommitSound(k)

Delivered == FilesSound /\ MovesSound /\ OneRun /\ CommitsSound

(* A step of command a towards no transition and no commit leaves the      *)
(* others' transitions and commits as they were.                           *)
Aside(a) == Others(a) /\ act'[a].pc \notin Transition \cup {"commit"}

LEMMA OneRunAside ==
  ASSUME OneRun, NEW a \in Actors, Aside(a)
  PROVE  OneRun'
BY DEF OneRun, Aside, Others, Kept

LEMMA MovesAside ==
  ASSUME Known, MovesSound, NEW a \in Actors, Aside(a), backlog' = backlog,
         \A k \in Runs : Safe(k) => Safe(k)'
  PROVE  MovesSound'
<1>1. MoveSound(a)'
  BY DEF MoveSound, Aside
<1>2. ASSUME NEW b \in Actors \ {a}
      PROVE  MoveSound(b)'
  <2>1. Kept(b)
    BY DEF Aside, Others
  <2>2. CASE act[b].pc \in Transition
    <3> DEFINE k == act[b].run
    <3>1. k \in Runs /\ Safe(k) /\ backlog[act[b].item].run \in {0, k}
      BY <2>2, Stand DEF MovesSound, MoveSound, Transition, Standing, Works
    <3>2. act'[b].run = k /\ act'[b].item = act[b].item /\ act'[b].pc \in Transition
      BY <2>1, <2>2 DEF Kept
    <3> HIDE DEF k
    <3>3. tree' = k \/ Product(k) \in local'
      BY <3>1 DEF Safe
    <3> QED
      BY <3>1, <3>2, <3>3 DEF MoveSound, Safe, Transition
  <2>3. CASE act[b].pc \notin Transition
    BY <2>1, <2>3 DEF MovesSound, MoveSound, Kept
  <2> QED
    BY <2>2, <2>3
<1> QED
  BY <1>1, <1>2 DEF MovesSound

LEMMA CommitsKept ==
  ASSUME CommitsSound, RunsKept, backlog' = backlog, local' = local, tip' = tip, remote' = remote
  PROVE  CommitsSound'
BY DEF CommitsSound, CommitSound, RunsKept

LEMMA FilesKept ==
  ASSUME FilesSound, backlog' = backlog, tree' = tree, local' = local
  PROVE  FilesSound'
BY DEF FilesSound, FileSound, Executable, Safe

Still == UNCHANGED <<backlog, tree, local, tip, remote>>

LEMMA QuietStep ==
  ASSUME Basic, Delivered, RunsKept, Still, NEW a \in Actors, Aside(a)
  PROVE  Delivered'
<1>1. FilesSound' /\ CommitsSound' /\ OneRun'
  BY FilesKept, CommitsKept, OneRunAside DEF Delivered, Still
<1>2. MovesSound'
  BY MovesAside DEF Basic, Delivered, Still, Safe
<1> QED
  BY <1>1, <1>2 DEF Delivered

LEMMA DeliveredInit ==
  ASSUME Init
  PROVE  Delivered
<1>1. FilesSound
  BY DEF Init, FilesSound, FileSound, Executable
<1>2. MovesSound /\ OneRun
  BY DEF Init, MovesSound, MoveSound, OneRun, Transition, Idle
<1>3. CommitsSound
  BY DEF Init, CommitsSound, CommitSound
<1> QED
  BY <1>1, <1>2, <1>3 DEF Delivered

LEMMA RunLockDelivered ==
  ASSUME Basic, Delivered, NEW a \in Actors, RunLock(a)
  PROVE  Delivered'
<1>1. Aside(a)
  BY RunLockMoves DEF Basic, Typed, Moves, Aside, Transition
<1>2. Still /\ RunsKept
  BY DEF Still, RunsKept, RunLock, product, origin
<1> QED
  BY <1>1, <1>2, QuietStep

LEMMA RunPostDelivered ==
  ASSUME Basic, Delivered, NEW a \in Actors, RunPost(a)
  PROVE  Delivered'
<1>1. Aside(a)
  BY RunPostMoves DEF Basic, Typed, Moves, Aside, Transition
<1>2. Still /\ RunsKept
  BY DEF Still, RunsKept, RunPost, product, origin
<1> QED
  BY <1>1, <1>2, QuietStep

LEMMA CommitRecordDelivered ==
  ASSUME Basic, Delivered, NEW a \in Actors, CommitRecord(a)
  PROVE  Delivered'
<1>1. Aside(a)
  BY CommitRecordMoves DEF Basic, Typed, Moves, Aside, Transition
<1>2. Still /\ RunsKept
  BY DEF Still, RunsKept, CommitRecord, product, origin
<1> QED
  BY <1>1, <1>2, QuietStep

LEMMA PushDelivered ==
  ASSUME Basic, Delivered, NEW a \in Actors, Push(a)
  PROVE  Delivered'
<1>1. Aside(a)
  BY PushMoves DEF Basic, Typed, Moves, Aside, Transition
<1>2. Still /\ RunsKept
  BY DEF Still, RunsKept, Push, product, origin
<1> QED
  BY <1>1, <1>2, QuietStep

LEMMA PrDelivered ==
  ASSUME Basic, Delivered, NEW a \in Actors, Pr(a)
  PROVE  Delivered'
<1>1. Aside(a)
  BY PrMoves DEF Basic, Typed, Moves, Aside, Transition
<1>2. Still /\ RunsKept
  BY DEF Still, RunsKept, Pr, product, origin
<1> QED
  BY <1>1, <1>2, QuietStep

LEMMA PrRecordDelivered ==
  ASSUME Basic, Delivered, NEW a \in Actors, PrRecord(a)
  PROVE  Delivered'
<1>1. Aside(a)
  BY PrRecordMoves DEF Basic, Typed, Moves, Aside, Transition
<1>2. Still /\ RunsKept
  BY DEF Still, RunsKept, PrRecord, product, origin
<1> QED
  BY <1>1, <1>2, QuietStep

LEMMA MergeViewDelivered ==
  ASSUME Basic, Delivered, NEW a \in Actors, MergeView(a)
  PROVE  Delivered'
<1>1. Aside(a)
  BY MergeViewMoves DEF Basic, Typed, Moves, Aside, Transition
<1>2. Still /\ RunsKept
  BY DEF Still, RunsKept, MergeView, product, origin
<1> QED
  BY <1>1, <1>2, QuietStep

LEMMA MergeRecordDelivered ==
  ASSUME Basic, Delivered, NEW a \in Actors, MergeRecord(a)
  PROVE  Delivered'
<1>1. Aside(a)
  BY MergeRecordMoves DEF Basic, Typed, Moves, Aside, Transition
<1>2. Still /\ RunsKept
  BY DEF Still, RunsKept, MergeRecord, product, origin
<1> QED
  BY <1>1, <1>2, QuietStep

LEMMA PushRecordDelivered ==
  ASSUME Basic, Delivered, NEW a \in Actors, PushRecord(a)
  PROVE  Delivered'
<1>1. Aside(a)
  BY PushRecordMoves DEF Basic, Typed, Moves, Aside, Transition
<1>2. Still /\ RunsKept
  BY DEF Still, RunsKept, PushRecord, product, origin
<1> QED
  BY <1>1, <1>2, QuietStep

LEMMA BeginTransactionDelivered ==
  ASSUME Basic, Delivered, NEW i \in Items, NEW job \in Transactions, NEW a \in Actors, BeginTransaction(a, i, job)
  PROVE  Delivered'
<1>1. Aside(a)
  BY BeginTransactionBegins DEF Begins, Aside, Transition
<1>2. Still /\ RunsKept
  BY DEF Still, RunsKept, BeginTransaction, product, origin
<1> QED
  BY <1>1, <1>2, QuietStep

LEMMA BeginMergeDelivered ==
  ASSUME Basic, Delivered, NEW k \in Runs, NEW a \in Actors, BeginMerge(a, k)
  PROVE  Delivered'
<1>1. Aside(a)
  BY BeginMergeBegins DEF Begins, Aside, Transition
<1>2. Still /\ RunsKept
  BY DEF Still, RunsKept, BeginMerge, product, origin
<1> QED
  BY <1>1, <1>2, QuietStep

LEMMA BeginPushBaseDelivered ==
  ASSUME Basic, Delivered, NEW k \in Runs, NEW a \in Actors, BeginPushBase(a, k)
  PROVE  Delivered'
<1>1. Aside(a)
  BY BeginPushBaseBegins DEF Begins, Aside, Transition
<1>2. Still /\ RunsKept
  BY DEF Still, RunsKept, BeginPushBase, product, origin
<1> QED
  BY <1>1, <1>2, QuietStep

LEMMA BeginRetryDelivered ==
  ASSUME Basic, Delivered, NEW k \in Runs, NEW job \in {"retry", "republish"}, NEW a \in Actors, BeginRetry(a, k, job)
  PROVE  Delivered'
<1>1. Aside(a)
  BY BeginRetryBegins DEF Begins, Aside, Transition
<1>2. Still /\ RunsKept
  BY DEF Still, RunsKept, BeginRetry, product, origin
<1> QED
  BY <1>1, <1>2, QuietStep

LEMMA RecoverDelivered ==
  ASSUME Basic, Delivered, NEW k \in Runs, NEW a \in Actors, Recover(a, k)
  PROVE  Delivered'
<1>1. Aside(a)
  BY RecoverBegins DEF Begins, Aside, Transition
<1>2. Still /\ RunsKept
  BY RecoverBegins DEF Still, Recover, product, origin
<1> QED
  BY <1>1, <1>2, QuietStep

LEMMA BeginShelveDelivered ==
  ASSUME Basic, Delivered, NEW i \in Items, NEW to \in {"blocked", "manual-review"}, NEW a \in Actors, BeginShelve(a, i, to)
  PROVE  Delivered'
<1>1. Aside(a)
  BY BeginShelveBegins DEF Begins, Aside, Transition
<1>2. Still /\ RunsKept
  BY DEF Still, RunsKept, BeginShelve, product, origin
<1> QED
  BY <1>1, <1>2, QuietStep

LEMMA RunVerifyDelivered ==
  ASSUME Basic, Delivered, NEW a \in Actors, RunVerify(a)
  PROVE  Delivered'
<1>1. Aside(a) /\ RunsKept
  BY RunVerifyMoves DEF Moves, Aside, Transition
<1>2. Still
  BY DEF Still, RunVerify, product, origin
<1> QED
  BY <1>1, <1>2, QuietStep

LEMMA FinishDelivered ==
  ASSUME Basic, Delivered, NEW a \in Actors, Finish(a)
  PROVE  Delivered'
<1>1. Aside(a)
  BY Cleared DEF Basic, Typed, Finish, Aside, Transition
<1>2. Still /\ RunsKept
  BY DEF Still, RunsKept, Finish, product, origin
<1> QED
  BY <1>1, <1>2, QuietStep

(* The implementer's diff, whole or broken off, comes into a clean tree:   *)
(* no work that only the tree holds is overwritten.                        *)
LEMMA DiffDelivered ==
  ASSUME Basic, Delivered, NEW a \in Actors, Aside(a), RunsKept, tree = 0,
         UNCHANGED <<backlog, local, tip, remote>>
  PROVE  Delivered'
<1>1. \A k \in Runs : Safe(k) => Safe(k)'
  BY Numbers DEF Safe
<1>2. \A i \in Items : backlog[i].run \in Runs \cup {0}
  BY Numbers DEF Basic, Typed, Files
<1>3. FilesSound'
  BY <1>2, Numbers DEF Delivered, FilesSound, FileSound, Executable, Safe
<1>4. MovesSound'
  BY <1>1, MovesAside DEF Basic, Delivered
<1> QED
  BY <1>3, <1>4, OneRunAside, CommitsKept DEF Delivered

LEMMA RunLaneDelivered ==
  ASSUME Basic, Clean, Delivered, NEW a \in Actors, RunLane(a)
  PROVE  Delivered'
<1>1. Aside(a) /\ act[a].pc = "lane"
  BY RunLaneMoves DEF Basic, Typed, Moves, Aside, Transition
<1>2. tree = 0
  BY <1>1 DEF Clean, CleanBy
<1>3. runs \in [Runs -> Entries]
  BY DEF Basic, Typed
<1>4. RunsKept /\ UNCHANGED <<backlog, local, tip, remote>>
  BY <1>3 DEF RunLane, RunsKept, Entries, origin
<1> QED
  BY <1>1, <1>2, <1>4, DiffDelivered

LEMMA CrashDelivered ==
  ASSUME Basic, Clean, Delivered, NEW a \in Actors, Crash(a)
  PROVE  Delivered'
<1>1. Aside(a)
  BY Cleared DEF Basic, Typed, Crash, Aside, Transition
<1>2. RunsKept /\ UNCHANGED <<backlog, local, tip, remote>>
  BY DEF Crash, RunsKept, origin
<1>3. CASE act[a].pc = "lane"
  <2>1. tree = 0
    BY <1>3 DEF Clean, CleanBy
  <2> QED
    BY <1>1, <1>2, <2>1, DiffDelivered
<1>4. CASE act[a].pc # "lane"
  <2>1. Still
    BY <1>2, <1>4 DEF Still, Crash
  <2> QED
    BY <1>1, <1>2, <2>1, QuietStep
<1> QED
  BY <1>3, <1>4

(* A transition starts for the run whose diff is in the tree, of an item   *)
(* that no run has completed: whoever else is completing it has the same.  *)
LEMMA TransitionStarts ==
  ASSUME Basic, Delivered, Still, RunsKept, NEW a \in Actors, Others(a), NEW k \in Runs, MayComplete(k),
         act'[a].pc = "move", act'[a].run = k, act'[a].item = runs[k].item
  PROVE  Delivered'
<1> DEFINE i == runs[k].item
<1>1. i \in Items /\ tree = k /\ backlog[i].run = 0
  BY DEF Basic, Named, MayComplete, DiffMatches, Delivered, FilesSound, FileSound
<1>2. ASSUME NEW b \in Actors, act[b].pc \in Transition, act[b].item = i
      PROVE  act[b].run = k
  <2>1. act[b].run \in Runs /\ runs[act[b].run].item = i /\ Safe(act[b].run)
    BY <1>2, Stand DEF Basic, Works, Transition, Standing, Delivered, MovesSound, MoveSound
  <2>2. Product(act[b].run) \in local => backlog[i].run = act[b].run
    BY <2>1 DEF Delivered, CommitsSound, CommitSound
  <2> QED
    BY <1>1, <2>1, <2>2, Numbers DEF Safe
<1>3. OneRun'
  <2> SUFFICES ASSUME NEW b \in Actors, NEW c \in Actors,
                      act'[b].pc \in Transition, act'[c].pc \in Transition, act'[b].item = act'[c].item
               PROVE  act'[b].run = act'[c].run
    BY DEF OneRun
  <2>1. \A d \in Actors \ {a} : Kept(d)
    BY DEF Others
  <2> QED
    BY <1>2, <2>1 DEF Kept, Delivered, OneRun
<1>4. MoveSound(a)'
  BY <1>1 DEF MoveSound, Transition, Safe, Still
<1>5. ASSUME NEW b \in Actors \ {a}
      PROVE  MoveSound(b)'
  <2>1. Kept(b)
    BY DEF Others
  <2> QED
    BY <2>1 DEF Delivered, MovesSound, MoveSound, Kept, Safe, Still
<1>6. FilesSound' /\ CommitsSound'
  BY FilesKept, CommitsKept DEF Delivered, Still
<1> QED
  BY <1>3, <1>4, <1>5, <1>6 DEF Delivered, MovesSound

LEMMA CompleteCheckDelivered ==
  ASSUME Basic, Delivered, NEW a \in Actors, CompleteCheck(a)
  PROVE  Delivered'
<1>1. Still /\ RunsKept
  BY DEF Still, RunsKept, CompleteCheck, product, origin
<1>2. /\ Acts' /\ act[a].pc = "check"
      /\ (Moves(a, "move") /\ MayComplete(act[a].run)) \/ Moves(a, "done")
  BY CompleteCheckMoves DEF Basic, Typed
<1>3. Works(a)
  BY <1>2, Stand DEF Basic, Standing
<1>4. CASE Moves(a, "move") /\ MayComplete(act[a].run)
  BY <1>1, <1>3, <1>4, TransitionStarts DEF Moves, Works
<1>5. CASE Moves(a, "done")
  BY <1>1, <1>5, QuietStep DEF Moves, Aside, Transition
<1> QED
  BY <1>2, <1>4, <1>5

LEMMA BeginCompleteDelivered ==
  ASSUME Basic, Delivered, NEW k \in Runs, NEW a \in Actors, BeginComplete(a, k)
  PROVE  Delivered'
<1>1. Still /\ RunsKept /\ MayComplete(k)
  BY DEF Still, RunsKept, BeginComplete, product, origin
<1> QED
  BY <1>1, BeginCompleteBegins, TransitionStarts DEF Begins

(* A step that writes a file of the backlog, but neither completes an item *)
(* nor makes one executable that was not before.                           *)
Rewritten ==
  \A i \in Items :
    /\ backlog'[i].run = backlog[i].run
    /\ Executable(i)' => Executable(i) \/ backlog[i].run = 0
    /\ backlog'[i].status = "completed" => backlog[i].status = "completed"
    /\ backlog'[i].dir = "none" => backlog[i].dir = "none"

LEMMA FilesRewritten ==
  ASSUME Delivered, Rewritten, RunsKept, UNCHANGED <<tree, local, tip, remote>>
  PROVE  FilesSound' /\ CommitsSound'
<1>1. FilesSound'
  BY DEF Delivered, Rewritten, FilesSound, FileSound, Safe
<1>2. CommitsSound'
  BY DEF Delivered, Rewritten, CommitsSound, CommitSound, RunsKept
<1> QED
  BY <1>1, <1>2

LEMMA RewriteStep ==
  ASSUME Basic, Delivered, Rewritten, RunsKept, UNCHANGED <<tree, local, tip, remote>>,
         NEW a \in Actors, NEW pc, Moves(a, pc),
         pc # "commit", pc \in Transition => act[a].pc \in Transition
  PROVE  Delivered'
<1>1. OneRun'
  BY DEF Delivered, OneRun, Moves, Others, Kept
<1>2. ASSUME NEW b \in Actors
      PROVE  MoveSound(b)'
  <2>1. /\ act'[b].run = act[b].run /\ act'[b].item = act[b].item
        /\ act'[b].pc \in Transition => act[b].pc \in Transition
        /\ act'[b].pc = "commit" => act[b].pc = "commit"
    BY DEF Moves, Others, Kept
  <2>2. act[b].pc \in Transition \cup {"commit"} => act[b].item \in Items
    BY Stand DEF Basic, Works, Transition, Standing
  <2> QED
    BY <2>1, <2>2 DEF Delivered, MovesSound, MoveSound, Rewritten, Safe
<1> QED
  BY <1>1, <1>2, FilesRewritten DEF Delivered, MovesSound

LEMMA CompleteMoveDelivered ==
  ASSUME Basic, Delivered, NEW a \in Actors, CompleteMove(a)
  PROVE  Delivered'
<1>1. Rewritten
  <2>1. \/ backlog' = backlog
        \/ /\ backlog[act[a].item].dir = "queued"
           /\ backlog' = [backlog EXCEPT ![act[a].item].dir = "completed"]
    BY DEF CompleteMove
  <2>2. backlog \in [Items -> Files]
    BY DEF Basic, Typed
  <2> QED
    BY <2>1, <2>2 DEF Rewritten, Files, Executable
<1>2. RunsKept /\ UNCHANGED <<tree, local, tip, remote>>
  BY DEF RunsKept, CompleteMove, product, origin
<1> QED
  BY <1>1, <1>2, CompleteMoveMoves, RewriteStep DEF Basic, Typed, Transition

LEMMA ShelveMoveDelivered ==
  ASSUME Basic, Delivered, NEW a \in Actors, ShelveMove(a)
  PROVE  Delivered'
<1>1. Rewritten
  <2>1. act[a].item \in Items /\ act[a].from # "none" /\ backlog \in [Items -> Files]
    BY DEF Basic, Typed, Known, KnownBy, Shelving, ShelveMove
  <2>2. \/ backlog' = backlog
        \/ /\ backlog[act[a].item].dir # "none"
           /\ backlog' = [backlog EXCEPT ![act[a].item].dir = ShelfOf(act[a].job)]
    BY <2>1 DEF ShelveMove
  <2>3. ShelfOf(act[a].job) # "none"
    BY DEF ShelfOf
  <2> QED
    BY <2>1, <2>2, <2>3 DEF Rewritten, Files, Executable
<1>2. RunsKept /\ UNCHANGED <<tree, local, tip, remote>>
  BY DEF RunsKept, ShelveMove, product, origin
<1> QED
  BY <1>1, <1>2, ShelveMoveMoves, RewriteStep DEF Basic, Typed, Transition

LEMMA ShelveMetaDelivered ==
  ASSUME Basic, Delivered, NEW a \in Actors, ShelveMeta(a)
  PROVE  Delivered'
<1>1. Rewritten
  <2>1. backlog \in [Items -> Files]
    BY DEF Basic, Typed
  <2>2. \/ backlog' = backlog
        \/ backlog' = [backlog EXCEPT ![act[a].item].status = ShelfOf(act[a].job), ![act[a].item].auto = FALSE]
    BY DEF ShelveMeta
  <2>3. ShelfOf(act[a].job) # "completed"
    BY DEF ShelfOf
  <2> QED
    BY <2>1, <2>2, <2>3 DEF Rewritten, Files, Executable
<1>2. RunsKept /\ UNCHANGED <<tree, local, tip, remote>>
  BY DEF RunsKept, ShelveMeta, product, origin
<1> QED
  BY <1>1, <1>2, ShelveMetaMoves, RewriteStep DEF Basic, Typed, Transition

(* The transition writes the item's completion: no other command was about *)
(* to complete it for another run, or has committed one.                   *)
LEMMA CompleteMetaDelivered ==
  ASSUME Basic, Delivered, NEW a \in Actors, CompleteMeta(a)
  PROVE  Delivered'
<1>1. Aside(a) /\ act[a].pc = "meta"
  BY CompleteMetaMoves DEF Basic, Typed, Moves, Aside, Transition
<1>2. PICK i \in Items, k \in Runs : act[a].item = i /\ act[a].run = k /\ runs[k].item = i
  BY <1>1, Stand DEF Basic, Standing, Works
<1>3. RunsKept /\ UNCHANGED <<tree, local, tip, remote>>
  BY DEF RunsKept, CompleteMeta, product, origin
<1>4. Safe(k) /\ backlog[i].run \in {0, k}
  BY <1>1, <1>2 DEF Delivered, MovesSound, MoveSound, Transition
<1>5. CASE backlog[i].dir # "completed"
  <2>1. Still
    BY <1>2, <1>3, <1>5 DEF Still, CompleteMeta
  <2> QED
    BY <1>1, <1>3, <2>1, QuietStep
<1>6. CASE backlog[i].dir = "completed"
  <2>1. /\ backlog'[i].dir = "completed" /\ backlog'[i].status = "completed" /\ backlog'[i].run = k
        /\ \A j \in Items \ {i} : backlog'[j] = backlog[j]
    BY <1>2, <1>6 DEF Basic, Typed, Files, CompleteMeta
  <2>2. FilesSound'
    <3>1. FileSound(i)'
      BY <1>3, <1>4, <2>1, Numbers DEF FileSound, Executable, Safe
    <3>2. \A j \in Items \ {i} : FileSound(j)'
      BY <1>3, <2>1 DEF Delivered, FilesSound, FileSound, Executable, Safe
    <3> QED
      BY <3>1, <3>2 DEF FilesSound
  <2>3. ASSUME NEW b \in Actors \ {a}
        PROVE  MoveSound(b)'
    <3>1. Kept(b)
      BY <1>1 DEF Aside, Others
    <3>2. act[b].pc \in Transition /\ act[b].item = i => act[b].run = k
      BY <1>1, <1>2 DEF Delivered, OneRun, Transition
    <3>3. act[b].pc = "commit" => act[b].run \in Runs /\ act[b].item \in Items
      BY Stand DEF Basic, Works, Standing
    <3>4. act[b].pc \in Transition => act[b].item \in Items
      BY Stand DEF Basic, Works, Standing, Transition
    <3> QED
      BY <1>3, <1>4, <2>1, <3>1, <3>2, <3>3, <3>4, Numbers
         DEF Delivered, MovesSound, MoveSound, Kept, Safe, Transition
  <2>4. MovesSound'
    BY <1>1, <2>3 DEF MovesSound, MoveSound, Aside
  <2>5. CommitsSound'
    BY <1>3, <1>4, <2>1, Numbers DEF Delivered, CommitsSound, CommitSound, RunsKept
  <2> QED
    BY <1>1, <2>2, <2>4, <2>5, OneRunAside DEF Delivered
<1> QED
  BY <1>5, <1>6

(* The commit starts for the run its item was completed by.                *)
LEMMA CommitStarts ==
  ASSUME Basic, Delivered, Still, RunsKept, NEW a \in Actors, Others(a), NEW k \in Runs, MayCommit(k),
         act'[a].pc = "commit", act'[a].run = k, act'[a].item = runs[k].item
  PROVE  Delivered'
<1>1. backlog[runs[k].item].run = k
  BY DEF MayCommit, CompletedBy
<1>2. OneRun'
  BY DEF Delivered, OneRun, Others, Kept, Transition
<1>3. MoveSound(a)'
  BY <1>1 DEF MoveSound, Transition, Still
<1>4. ASSUME NEW b \in Actors \ {a}
      PROVE  MoveSound(b)'
  <2>1. Kept(b)
    BY DEF Others
  <2> QED
    BY <2>1 DEF Delivered, MovesSound, MoveSound, Kept, Safe, Still
<1>5. FilesSound' /\ CommitsSound'
  BY FilesKept, CommitsKept DEF Delivered, Still
<1> QED
  BY <1>2, <1>3, <1>4, <1>5 DEF Delivered, MovesSound

LEMMA CommitCheckDelivered ==
  ASSUME Basic, Delivered, NEW a \in Actors, CommitCheck(a)
  PROVE  Delivered'
<1>1. Still /\ RunsKept
  BY DEF Still, RunsKept, CommitCheck, product, origin
<1>2. /\ Acts' /\ act[a].pc = "commit-check"
      /\ (Moves(a, "commit") /\ MayCommit(act[a].run)) \/ Moves(a, "done")
  BY CommitCheckMoves DEF Basic, Typed
<1>3. Works(a)
  BY <1>2, Stand DEF Basic, Standing
<1>4. CASE Moves(a, "commit") /\ MayCommit(act[a].run)
  BY <1>1, <1>3, <1>4, CommitStarts DEF Moves, Works
<1>5. CASE Moves(a, "done")
  BY <1>1, <1>5, QuietStep DEF Moves, Aside, Transition
<1> QED
  BY <1>2, <1>4, <1>5

LEMMA BeginCommitDelivered ==
  ASSUME Basic, Delivered, NEW k \in Runs, NEW a \in Actors, BeginCommit(a, k)
  PROVE  Delivered'
<1>1. Still /\ RunsKept /\ MayCommit(k)
  BY DEF Still, RunsKept, BeginCommit, product, origin
<1> QED
  BY <1>1, BeginCommitBegins, CommitStarts DEF Begins

LEMMA Distinct ==
  /\ \A j, k \in Runs : Product(j) = Product(k) => j = k
  /\ \A k \in Runs, i \in Items : Product(k) # MergeOf(i)
<1>1. "product" # "merge"
  OBVIOUS
<1> QED
  BY <1>1 DEF Product, MergeOf

(* The commit takes the diff out of the tree and into the local base.      *)
LEMMA CommitDoDelivered ==
  ASSUME Basic, Delivered, NEW a \in Actors, CommitDo(a)
  PROVE  Delivered'
<1>1. Aside(a) /\ act[a].pc = "commit"
  BY CommitDoMoves DEF Basic, Typed, Moves, Aside, Transition
<1>2. PICK i \in Items, k \in Runs : act[a].item = i /\ act[a].run = k /\ runs[k].item = i
  BY <1>1, Stand DEF Basic, Standing, Works
<1>3. RunsKept /\ UNCHANGED <<backlog, runs, remote>>
  BY DEF RunsKept, CommitDo, origin
<1>4. CASE tree # k
  <2>1. Still
    BY <1>2, <1>3, <1>4 DEF Still, CommitDo, product
  <2> QED
    BY <1>1, <1>3, <2>1, QuietStep
<1>5. CASE tree = k
  <2>1. /\ local' = local \cup {Product(k)} /\ tree' = 0
        /\ tip' = [tip EXCEPT ![k] = local'] /\ tip \in [Runs -> SUBSET Commits]
    BY <1>2, <1>5 DEF CommitDo, Basic, Typed
  <2>2. \A j \in Runs : Safe(j) => Safe(j)'
    BY <1>5, <2>1 DEF Safe
  <2>3. FilesSound'
    <3>1. \A j \in Items : backlog[j].run \in Runs \cup {0}
      BY Numbers DEF Basic, Typed, Files
    <3> QED
      BY <1>3, <1>5, <2>1, <3>1 DEF Delivered, FilesSound, FileSound, Executable, Safe
  <2>4. MovesSound'
    BY <1>1, <1>3, <2>2, MovesAside DEF Basic, Delivered
  <2>5. backlog[i].run = k
    BY <1>1, <1>2 DEF Delivered, MovesSound, MoveSound
  <2>6. CommitsSound'
    BY <1>2, <1>3, <2>1, <2>5, Distinct DEF Delivered, CommitsSound, CommitSound
  <2> QED
    BY <1>1, <2>3, <2>4, <2>6, OneRunAside DEF Delivered
<1> QED
  BY <1>4, <1>5

(* Only commits of the local base reach the origin, and only they come     *)
(* back from it, besides merge commits.                                    *)
LEMMA Exchanged ==
  ASSUME Delivered, RunsKept, UNCHANGED <<backlog, tree, tip>>, local \subseteq local',
         \A k \in Runs : Product(k) \in local' \cup remote' => Product(k) \in local
  PROVE  FilesSound' /\ CommitsSound'
<1>1. FilesSound'
  BY DEF Delivered, FilesSound, FileSound, Executable, Safe
<1>2. CommitsSound'
  BY DEF Delivered, CommitsSound, CommitSound, RunsKept
<1> QED
  BY <1>1, <1>2

LEMMA ExchangeStep ==
  ASSUME Basic, Delivered, RunsKept, UNCHANGED <<backlog, tree, tip>>, local \subseteq local',
         \A k \in Runs : Product(k) \in local' \cup remote' => Product(k) \in local,
         NEW a \in Actors, Aside(a)
  PROVE  Delivered'
<1>1. FilesSound' /\ CommitsSound'
  BY Exchanged
<1>2. MovesSound'
  <2>1. \A k \in Runs : Safe(k) => Safe(k)'
    BY DEF Safe
  <2> QED
    BY <2>1, MovesAside DEF Basic, Delivered
<1> QED
  BY <1>1, <1>2, OneRunAside DEF Delivered

LEMMA MergedCommits ==
  ASSUME Basic, Delivered, NEW i \in Items, hub[i].pr = "open", Merged(i)
  PROVE  \A k \in Runs : Product(k) \in remote' => Product(k) \in local
<1>1. hub[i].head \in Runs
  BY DEF Basic, Headed
<1>2. tip[hub[i].head] \subseteq local
  BY <1>1 DEF Delivered, CommitsSound, CommitSound
<1> QED
  BY <1>2, Distinct DEF Merged, Delivered, CommitsSound, CommitSound

LEMMA MergeDoDelivered ==
  ASSUME Basic, Delivered, NEW a \in Actors, MergeDo(a)
  PROVE  Delivered'
<1>1. Aside(a) /\ act[a].pc = "merge"
  BY MergeDoMoves DEF Basic, Typed, Moves, Aside, Transition
<1>2. act[a].item \in Items
  BY <1>1, Stand DEF Basic, Standing, Works
<1>3. RunsKept /\ UNCHANGED <<backlog, tree, tip, local>>
  BY DEF RunsKept, MergeDo, product
<1>4. \A k \in Runs : Product(k) \in remote' => Product(k) \in local
  BY <1>2, MergedCommits DEF MergeDo, origin, Delivered, CommitsSound, CommitSound
<1> QED
  BY <1>1, <1>3, <1>4, ExchangeStep

LEMMA SyncDelivered ==
  ASSUME Basic, Delivered, NEW a \in Actors, Sync(a)
  PROVE  Delivered'
<1>1. Aside(a)
  BY SyncMoves DEF Basic, Typed, Moves, Aside, Transition
<1>2. RunsKept /\ UNCHANGED <<backlog, tree, tip, remote>> /\ (local' = local \/ local' = local \cup remote)
  BY DEF RunsKept, Sync, origin
<1>3. \A k \in Runs : Product(k) \in local' \cup remote' => Product(k) \in local
  BY <1>2 DEF Delivered, CommitsSound, CommitSound
<1> QED
  BY <1>1, <1>2, <1>3, ExchangeStep

LEMMA PushBaseDelivered ==
  ASSUME Basic, Delivered, NEW a \in Actors, PushBase(a)
  PROVE  Delivered'
<1>1. Aside(a) /\ act[a].pc = "push-base"
  BY PushBaseMoves DEF Basic, Typed, Moves, Aside, Transition
<1>2. act[a].run \in Runs
  BY <1>1, Stand DEF Basic, Standing, Works
<1>3. /\ RunsKept /\ UNCHANGED <<backlog, tree, tip, local>>
      /\ remote' = remote \/ remote' = tip[act[a].run]
  BY DEF RunsKept, PushBase, product
<1>4. \A k \in Runs : Product(k) \in local' \cup remote' => Product(k) \in local
  BY <1>2, <1>3 DEF Delivered, CommitsSound, CommitSound
<1> QED
  BY <1>1, <1>3, <1>4, ExchangeStep

LEMMA EnvironmentDelivered ==
  ASSUME Basic, Delivered, Environment
  PROVE  Delivered'
<1>1. act' = act /\ RunsKept /\ tip' = tip /\ local' = local
  BY EnvironmentBasic DEF RunsKept, Environment, ClearLock, Restore, LoseCreds, RestoreCreds, HumanMerge,
     HumanClose, Refill, product
<1>2. OneRun'
  BY <1>1 DEF Delivered, OneRun
<1>3. CASE backlog' = backlog /\ tree' = tree
  <2>1. \A k \in Runs : Product(k) \in remote' => Product(k) \in local
    BY <1>3, MergedCommits DEF Environment, ClearLock, Restore, LoseCreds, RestoreCreds, HumanMerge,
       HumanClose, Refill, origin, Delivered, CommitsSound, CommitSound
  <2>2. FilesSound' /\ CommitsSound'
    BY <1>1, <1>3, <2>1, Exchanged
  <2>3. MovesSound'
    BY <1>1, <1>3 DEF Delivered, MovesSound, MoveSound, Safe
  <2> QED
    BY <1>2, <2>2, <2>3 DEF Delivered
<1>4. CASE Restore
  <2>1. MovesSound'
    BY <1>1, <1>4 DEF Restore, MovesSound, MoveSound, Transition
  <2>2. \A i \in Items : backlog[i].status = "completed" => i \in Completed
    BY DEF Delivered, FilesSound, FileSound, Completed
  <2>3. FilesSound'
    BY <1>1, <1>4, <2>2 DEF Delivered, FilesSound, FileSound, Restore, Executable, Safe
  <2>4. CommitsSound'
    BY <1>1, <1>4, CommitsKept DEF Delivered, Restore, origin
  <2> QED
    BY <1>2, <2>1, <2>3, <2>4 DEF Delivered
<1>5. ASSUME NEW i \in Items, Refill(i)
      PROVE  Delivered'
  <2>1. UNCHANGED <<tree, local, tip, remote>>
    BY <1>5 DEF Refill, product, origin
  <2>2. backlog \in [Items -> Files] /\ backlog[i].dir = "none" /\ backlog[i].run = 0
        /\ backlog' = [backlog EXCEPT ![i].dir = "queued"]
    BY <1>5 DEF Basic, Typed, Refill, Delivered, FilesSound, FileSound
  <2>3. Rewritten
    BY <2>2 DEF Rewritten, Files, Executable
  <2>4. MovesSound'
    <3>1. \A b \in Actors : act[b].pc \in Transition \cup {"commit"} => act[b].item \in Items
      BY Stand DEF Basic, Works, Transition, Standing
    <3> QED
      BY <1>1, <2>1, <2>3, <3>1 DEF Delivered, MovesSound, MoveSound, Rewritten, Safe
  <2> QED
    BY <1>1, <1>2, <2>1, <2>3, <2>4, FilesRewritten DEF Delivered
<1> QED
  BY <1>3, <1>4, <1>5 DEF Environment, ClearLock, LoseCreds, RestoreCreds, HumanMerge, HumanClose, product

LEMMA NextDelivered ==
  ASSUME Basic, Clean, Delivered, [Next]_vars
  PROVE  Delivered'
<1>1. CASE UNCHANGED vars
  <2>1. Still /\ act' = act /\ RunsKept
    BY <1>1 DEF vars, Still, product, origin, RunsKept
  <2>2. FilesSound' /\ CommitsSound'
    BY <2>1, FilesKept, CommitsKept DEF Still, Delivered
  <2>3. MovesSound' /\ OneRun'
    BY <2>1 DEF Still, Delivered, MovesSound, MoveSound, OneRun, Safe
  <2> QED
    BY <2>2, <2>3 DEF Delivered
<1>2. ASSUME NEW a \in Actors, Begin(a)
      PROVE  Delivered'
  BY <1>2, BeginTransactionDelivered, BeginCompleteDelivered, RecoverDelivered, BeginCommitDelivered,
     BeginMergeDelivered, BeginPushBaseDelivered, BeginRetryDelivered, BeginShelveDelivered DEF Begin
<1>3. ASSUME NEW a \in Actors, Continue(a)
      PROVE  Delivered'
  BY <1>3, RunLockDelivered, RunVerifyDelivered, RunLaneDelivered, RunPostDelivered, CompleteCheckDelivered,
     CompleteMoveDelivered, CompleteMetaDelivered, ShelveMoveDelivered, ShelveMetaDelivered,
     CommitCheckDelivered, CommitDoDelivered, CommitRecordDelivered, PushDelivered, PrDelivered,
     PrRecordDelivered, MergeViewDelivered, MergeDoDelivered, SyncDelivered, MergeRecordDelivered,
     PushBaseDelivered, PushRecordDelivered DEF Continue
<1> QED
  BY <1>1, <1>2, <1>3, FinishDelivered, CrashDelivered, EnvironmentDelivered DEF Next

(* A transition that reported completed is never without the work it is    *)
(* about: the diff is still in the tree, or in a commit of the local base, *)
(* whichever command died after the move of the file.                      *)
THEOREM AcceptedWorkExists == Spec => []WorkAccounted
<1>1. Basic /\ Clean /\ Delivered => WorkAccounted
  BY DEF Delivered, FilesSound, FileSound, WorkAccounted, Completed, Safe
<1> QED
  BY <1>1, InitBasic, NextBasic, CleanInit, NextClean, DeliveredInit, NextDelivered, PTL DEF Spec

(* No item is delivered twice: of all the runs that worked on it only the  *)
(* one its file names is ever a commit, locally or at the origin.          *)
THEOREM OneCommitPerItem == Spec => []CommitsAreCompletions
<1>1. Basic /\ Clean /\ Delivered => CommitsAreCompletions
  BY DEF Delivered, CommitsSound, CommitSound, CommitsAreCompletions
<1> QED
  BY <1>1, InitBasic, NextBasic, CleanInit, NextClean, DeliveredInit, NextDelivered, PTL DEF Spec

-----------------------------------------------------------------------------
(* What every step leaves of files, runs and branches.                     *)

FileStep(a) == CompleteMove(a) \/ CompleteMeta(a) \/ ShelveMove(a) \/ ShelveMeta(a)

LEMMA BacklogSteps ==
  ASSUME [Next]_vars
  PROVE  \/ backlog' = backlog
         \/ \E a \in Actors : FileStep(a)
         \/ \E i \in Items : Refill(i)
<1>1. CASE UNCHANGED vars
  BY <1>1 DEF vars
<1>2. ASSUME NEW a \in Actors, Begin(a) PROVE backlog' = backlog
  BY <1>2 DEF Begin, BeginTransaction, BeginComplete, Recover, BeginCommit, BeginMerge, BeginPushBase,
     BeginRetry, BeginShelve
<1>3. ASSUME NEW a \in Actors, Continue(a) PROVE backlog' = backlog \/ FileStep(a)
  BY <1>3 DEF Continue, FileStep, RunLock, RunVerify, RunLane, RunPost, CompleteCheck, CommitCheck, CommitDo,
     CommitRecord, Push, Pr, PrRecord, MergeView, MergeDo, Sync, MergeRecord, PushBase, PushRecord
<1>4. ASSUME Environment PROVE backlog' = backlog \/ \E i \in Items : Refill(i)
  BY <1>4 DEF Environment, ClearLock, Restore, LoseCreds, RestoreCreds, HumanMerge, HumanClose
<1> QED
  BY <1>1, <1>2, <1>3, <1>4 DEF Next, Finish, Crash

(* An item keeps the run that completed it.                                *)
LEMMA CompletersKept ==
  ASSUME Basic, Delivered, [Next]_vars, NEW i \in Items, backlog[i].run # 0
  PROVE  backlog'[i].run = backlog[i].run
<1>1. backlog \in [Items -> Files]
  BY DEF Basic, Typed
<1>2. ASSUME NEW a \in Actors, CompleteMeta(a)
      PROVE  backlog'[i].run = backlog[i].run
  <2>1. backlog[act[a].item].run \in {0, act[a].run}
    BY <1>2 DEF CompleteMeta, Delivered, MovesSound, MoveSound, Transition
  <2> QED
    BY <1>1, <1>2, <2>1 DEF CompleteMeta, Files
<1>3. ASSUME NEW a \in Actors, CompleteMove(a) \/ ShelveMove(a) \/ ShelveMeta(a)
      PROVE  backlog'[i].run = backlog[i].run
  BY <1>1, <1>3 DEF CompleteMove, ShelveMove, ShelveMeta, Files
<1>4. ASSUME NEW j \in Items, Refill(j)
      PROVE  backlog'[i].run = backlog[i].run
  BY <1>1, <1>4 DEF Refill, Files
<1> QED
  BY <1>2, <1>3, <1>4, BacklogSteps DEF FileStep

(* Runs keep their items; a new one starts on a clean tree, for an item    *)
(* whose dependencies are completed.                                       *)
LEMMA RunsStart ==
  ASSUME Basic, [Next]_vars, NEW k \in Runs
  PROVE  \/ runs'[k].item = runs[k].item
         \/ /\ tree = 0 /\ runs[k].item = 0 /\ runs'[k].item \in Ready
            /\ UNCHANGED <<backlog, product, origin>>
<1>1. runs \in [Runs -> Entries]
  BY DEF Basic, Typed
<1>2. ASSUME NEW a \in Actors, RunVerify(a)
      PROVE  \/ runs'[k].item = runs[k].item
             \/ /\ tree = 0 /\ runs[k].item = 0 /\ runs'[k].item \in Ready
                /\ UNCHANGED <<backlog, product, origin>>
  <2>1. CASE tree = 0
    <3>1. \/ runs' = runs
          \/ \E i \in Items, j \in Runs :
               /\ i \in Ready /\ runs[j].item = 0
               /\ runs' = [runs EXCEPT ![j] = [item |-> i, before |-> local, evidence |-> "none"]]
      BY <1>2, <2>1 DEF RunVerify, Selected
    <3>2. UNCHANGED <<backlog, product, origin>>
      BY <1>2 DEF RunVerify
    <3> QED
      BY <1>1, <2>1, <3>1, <3>2
  <2>2. CASE tree # 0
    BY <1>2, <2>2 DEF RunVerify
  <2> QED
    BY <2>1, <2>2
<1>3. ASSUME NEW a \in Actors, RunLane(a) \/ \E j \in Runs : Recover(a, j)
      PROVE  runs'[k].item = runs[k].item
  BY <1>1, <1>3 DEF RunLane, Recover, Entries
<1>4. CASE UNCHANGED vars
  BY <1>4 DEF vars
<1>5. ASSUME NEW a \in Actors, Begin(a), ~\E j \in Runs : Recover(a, j)
      PROVE  runs' = runs
  BY <1>5 DEF Begin, BeginTransaction, BeginComplete, BeginCommit, BeginMerge, BeginPushBase,
     BeginRetry, BeginShelve
<1>6. ASSUME NEW a \in Actors, Continue(a), ~RunVerify(a), ~RunLane(a)
      PROVE  runs' = runs
  BY <1>6 DEF Continue, RunLock, RunPost, CompleteCheck, CompleteMove, CompleteMeta, ShelveMove, ShelveMeta,
     CommitCheck, CommitDo, CommitRecord, Push, Pr, PrRecord, MergeView, MergeDo, Sync, MergeRecord,
     PushBase, PushRecord
<1>7. CASE Environment
  BY <1>7, EnvironmentBasic
<1> QED
  BY <1>2, <1>3, <1>4, <1>5, <1>6, <1>7 DEF Next, Finish, Crash

(* The local base only grows; a commit takes the diff from the tree, and   *)
(* its tip is the base it makes.                                           *)
LEMMA TipsTaken ==
  ASSUME Basic, [Next]_vars
  PROVE  /\ local \subseteq local'
         /\ \A k \in Runs : tip'[k] = tip[k] \/ (tree = k /\ tip'[k] = local')
<1>1. tip \in [Runs -> SUBSET Commits]
  BY DEF Basic, Typed
<1>2. CASE UNCHANGED vars
  BY <1>2 DEF vars, product
<1>3. ASSUME NEW a \in Actors, Begin(a) PROVE local' = local /\ tip' = tip
  BY <1>3 DEF Begin, BeginTransaction, BeginComplete, Recover, BeginCommit, BeginMerge, BeginPushBase,
     BeginRetry, BeginShelve, product
<1>4. ASSUME NEW a \in Actors, CommitDo(a) \/ Sync(a)
      PROVE  /\ local \subseteq local'
             /\ \A k \in Runs : tip'[k] = tip[k] \/ (tree = k /\ tip'[k] = local')
  BY <1>1, <1>4 DEF CommitDo, Sync, product
<1>5. ASSUME NEW a \in Actors, Continue(a), ~CommitDo(a), ~Sync(a) PROVE local' = local /\ tip' = tip
  BY <1>5 DEF Continue, RunLock, RunVerify, RunLane, RunPost, CompleteCheck, CompleteMove, CompleteMeta,
     ShelveMove, ShelveMeta, CommitCheck, CommitRecord, Push, Pr, PrRecord, MergeView, MergeDo,
     MergeRecord, PushBase, PushRecord, product
<1>6. ASSUME Environment PROVE local' = local /\ tip' = tip
  BY <1>6 DEF Environment, ClearLock, Restore, LoseCreds, RestoreCreds, HumanMerge, HumanClose, Refill, product
<1>7. ASSUME NEW a \in Actors, Finish(a) \/ Crash(a) PROVE local' = local /\ tip' = tip
  BY <1>7 DEF Finish, Crash, product
<1> QED
  BY <1>2, <1>3, <1>4, <1>5, <1>6, <1>7 DEF Next

(* The origin's base gets tips, by merges or by a push.                    *)
LEMMA OriginTakes ==
  ASSUME Basic, [Next]_vars
  PROVE  \/ remote' = remote
         \/ \E k \in Runs : remote' = tip[k] /\ remote \subseteq tip[k]
         \/ \E k \in Runs, i \in Items : remote' = remote \cup tip[k] \cup {MergeOf(i)}
<1>1. CASE UNCHANGED vars
  BY <1>1 DEF vars, origin
<1>2. ASSUME NEW a \in Actors, Begin(a) PROVE remote' = remote
  BY <1>2 DEF Begin, BeginTransaction, BeginComplete, Recover, BeginCommit, BeginMerge, BeginPushBase,
     BeginRetry, BeginShelve, origin
<1>3. ASSUME NEW i \in Items, hub[i].pr = "open", Merged(i)
      PROVE  \E k \in Runs, j \in Items : remote' = remote \cup tip[k] \cup {MergeOf(j)}
  BY <1>3 DEF Merged, Basic, Headed
<1>4. ASSUME NEW a \in Actors, MergeDo(a)
      PROVE  \/ remote' = remote
             \/ \E k \in Runs, i \in Items : remote' = remote \cup tip[k] \cup {MergeOf(i)}
  <2>1. act[a].item \in Items
    BY <1>4, Stand DEF Basic, MergeDo, Standing, Works
  <2> QED
    BY <1>3, <1>4, <2>1 DEF MergeDo, origin
<1>5. ASSUME NEW a \in Actors, PushBase(a)
      PROVE  remote' = remote \/ \E k \in Runs : remote' = tip[k] /\ remote \subseteq tip[k]
  <2>1. act[a].run \in Runs
    BY <1>5, Stand DEF Basic, PushBase, Standing, Works
  <2> QED
    BY <1>5, <2>1 DEF PushBase
<1>6. ASSUME NEW a \in Actors, Continue(a), ~MergeDo(a), ~PushBase(a) PROVE remote' = remote
  BY <1>6 DEF Continue, RunLock, RunVerify, RunLane, RunPost, CompleteCheck, CompleteMove, CompleteMeta,
     ShelveMove, ShelveMeta, CommitCheck, CommitDo, CommitRecord, Push, Pr, PrRecord, MergeView, Sync,
     MergeRecord, PushRecord, origin
<1>7. ASSUME NEW i \in Items, HumanMerge(i)
      PROVE  \E k \in Runs, j \in Items : remote' = remote \cup tip[k] \cup {MergeOf(j)}
  BY <1>3, <1>7 DEF HumanMerge
<1>8. ASSUME Environment, ~\E i \in Items : HumanMerge(i) PROVE remote' = remote
  BY <1>8 DEF Environment, ClearLock, Restore, LoseCreds, RestoreCreds, HumanClose, Refill, origin
<1>9. ASSUME NEW a \in Actors, Finish(a) \/ Crash(a) PROVE remote' = remote
  BY <1>9 DEF Finish, Crash, origin
<1> QED
  BY <1>1, <1>2, <1>4, <1>5, <1>6, <1>7, <1>8, <1>9 DEF Next

-----------------------------------------------------------------------------
(* Dependencies come first.                                                *)

(* The work a run builds on is in the local base when it starts, and stays *)
(* there: it was completed, and the tree was clean.                        *)
Rooted(k) ==
  runs[k].item \in Items => \A i \in Depends[runs[k].item] :
                               backlog[i].run \in Runs /\ Product(backlog[i].run) \in local
Closed(branch) ==
  \A k \in Runs : Product(k) \in branch =>
                    \A i \in Depends[runs[k].item] : Product(backlog[i].run) \in branch

InOrder == (\A k \in Runs : Rooted(k) /\ Closed(tip[k])) /\ Closed(remote)

LEMMA InOrderInit ==
  ASSUME Init
  PROVE  InOrder
BY Numbers DEF Init, InOrder, Rooted, Closed, NoRun

LEMMA LocalClosed ==
  ASSUME Delivered, InOrder
  PROVE  Closed(local)
BY DEF InOrder, Rooted, Closed, Delivered, CommitsSound, CommitSound

LEMMA RootedKept ==
  ASSUME Basic, Delivered, InOrder, [Next]_vars, NEW k \in Runs
  PROVE  Rooted(k)'
<1>1. CASE runs'[k].item = runs[k].item
  <2> SUFFICES ASSUME runs[k].item \in Items, NEW i \in Depends[runs[k].item]
               PROVE  backlog'[i].run \in Runs /\ Product(backlog'[i].run) \in local'
    BY <1>1 DEF Rooted
  <2>1. i \in Items /\ backlog[i].run \in Runs /\ Product(backlog[i].run) \in local
    BY DeliveryAssumption DEF DeliveryAssumption, InOrder, Rooted
  <2> QED
    BY <2>1, Numbers, CompletersKept, TipsTaken
<1>2. CASE /\ tree = 0 /\ runs'[k].item \in Ready
           /\ UNCHANGED <<backlog, product, origin>>
  <2> SUFFICES ASSUME NEW i \in Depends[runs'[k].item]
               PROVE  backlog[i].run \in Runs /\ Product(backlog[i].run) \in local
    BY <1>2 DEF Rooted, product
  <2>1. i \in Items /\ backlog[i].status = "completed"
    BY <1>2 DEF Ready, Completed
  <2>2. backlog[i].run # 0 /\ Safe(backlog[i].run) /\ backlog[i].run \in 0 .. MaxRuns
    BY <2>1 DEF Delivered, FilesSound, FileSound, Basic, Typed, Files
  <2> QED
    BY <1>2, <2>2, Numbers DEF Safe
<1> QED
  BY <1>1, <1>2, RunsStart

(* A branch of commits of the local base stays closed.                     *)
LEMMA ClosedKept ==
  ASSUME Basic, Delivered, InOrder, [Next]_vars, NEW branch, Closed(branch),
         \A k \in Runs : Product(k) \in branch => Product(k) \in local
  PROVE  \A k \in Runs : Product(k) \in branch =>
           \A i \in Depends[runs'[k].item] : Product(backlog'[i].run) \in branch
<1> SUFFICES ASSUME NEW k \in Runs, Product(k) \in branch, NEW i \in Depends[runs'[k].item]
             PROVE  Product(backlog'[i].run) \in branch
  OBVIOUS
<1>1. runs[k].item \in Items
  BY DEF Delivered, CommitsSound, CommitSound
<1>2. runs'[k].item = runs[k].item
  BY <1>1, RunsStart, Numbers
<1>3. i \in Items /\ backlog[i].run \in Runs
  BY <1>1, <1>2, DeliveryAssumption DEF DeliveryAssumption, InOrder, Rooted
<1>4. backlog'[i].run = backlog[i].run
  BY <1>3, CompletersKept, Numbers
<1> QED
  BY <1>2, <1>4 DEF Closed

LEMMA InOrderNext ==
  ASSUME Basic, Clean, Delivered, InOrder, [Next]_vars
  PROVE  InOrder'
<1>1. Delivered' /\ Basic'
  BY NextDelivered, NextBasic
<1>2. \A k \in Runs : Rooted(k)'
  BY RootedKept
<1>3. \A j \in Runs : Product(j) \in local => runs[j].item \in Items
  BY DEF Delivered, CommitsSound, CommitSound
<1>4. Closed(local)'
  BY <1>1, <1>2 DEF Rooted, Closed, Delivered, CommitsSound, CommitSound
<1>5. ASSUME NEW k \in Runs
      PROVE  /\ Closed(tip[k]) /\ tip[k] \subseteq local
             /\ \A j \in Runs : Product(j) \in tip[k] =>
                  \A i \in Depends[runs'[j].item] : Product(backlog'[i].run) \in tip[k]
  BY ClosedKept DEF InOrder, Delivered, CommitsSound, CommitSound
<1>6. \A k \in Runs : Closed(tip[k])'
  BY <1>4, <1>5, TipsTaken DEF Closed
<1>7. \A j \in Runs : Product(j) \in remote =>
         \A i \in Depends[runs'[j].item] : Product(backlog'[i].run) \in remote
  BY ClosedKept DEF InOrder, Delivered, CommitsSound, CommitSound
<1>8. Closed(remote)'
  BY <1>5, <1>7, OriginTakes, Distinct DEF Closed
<1> QED
  BY <1>2, <1>6, <1>8 DEF InOrder

(* A branch has no commit of an item without those of the items it needs:  *)
(* a run starts on a clean tree and on completed dependencies, so their    *)
(* commits are below its own (select_next_backlog_item,                    *)
(* command_target_run).                                                    *)
THEOREM NeedsComeFirst == Spec => []DependenciesFirst
<1>1. Basic /\ Clean /\ Delivered /\ InOrder => DependenciesFirst
  BY LocalClosed DEF DependenciesFirst, InOrder, Closed
<1> QED
  BY <1>1, InitBasic, NextBasic, CleanInit, NextClean, DeliveredInit, NextDelivered,
     InOrderInit, InOrderNext, PTL DEF Spec

-----------------------------------------------------------------------------
(* Receipts and the commits they are about.                                *)

Committed(k) == k \in Runs /\ runs[k].item \in Items /\ Product(k) \in tip[k]

(* A diff is not yet a commit, nor is the work of an implementer.          *)
Unborn ==
  /\ tree # 0 => Product(tree) \notin local
  /\ \A a \in Actors : act[a].pc = "lane" => Product(act[a].run) \notin local

(* Task branches and pull requests are of the item's own commit; a merged  *)
(* pull request's commits are in the origin's base.                        *)
BranchSound(i) ==
  /\ hub[i].branch # 0 => Committed(hub[i].branch) /\ runs[hub[i].branch].item = i
  /\ hub[i].pr # "none" => Committed(hub[i].head) /\ runs[hub[i].head].item = i
  /\ hub[i].pr = "merged" => tip[hub[i].head] \subseteq remote
HubSound == \A i \in Items : BranchSound(i)

(* What a command that publishes has behind it.                            *)
Publishing == {"record", "push", "pr", "pr-record", "view", "merge", "sync", "merge-record",
               "push-base", "push-record"}
PublishSound(a) ==
  /\ act[a].pc \in Publishing => Committed(act[a].run)
  /\ act[a].pc = "pr-record" => IF act[a].result = "already-in-base" THEN Product(act[a].run) \in remote
                                ELSE hub[act[a].item].pr # "none"
  /\ act[a].pc \in {"sync", "merge-record", "push-record"} => Product(act[a].run) \in remote
PublishesSound == \A a \in Actors : PublishSound(a)

(* What a receipt has behind it.                                           *)
ReceiptSound(k) ==
  /\ k \in receipts.commit \cup receipts.published \cup receipts.linked \cup receipts.merged
           \cup receipts.pushed => Committed(k)
  /\ k \in receipts.merged \cup receipts.pushed => Product(k) \in remote
  /\ k \in receipts.published => Product(k) \in remote \/ hub[runs[k].item].pr # "none"
ReceiptsSound == \A k \in Runs : ReceiptSound(k)

Published == Unborn /\ HubSound /\ PublishesSound /\ ReceiptsSound

(* The diff in the tree is there to stay or goes, or is an implementer's.  *)
LEMMA TreeTaken ==
  ASSUME Basic, [Next]_vars
  PROVE  tree' \in {tree, 0} \/ \E a \in Actors : act[a].pc = "lane" /\ tree' = act[a].run
<1>1. CASE UNCHANGED vars
  BY <1>1 DEF vars, product
<1>2. ASSUME NEW a \in Actors, Begin(a) PROVE tree' = tree
  BY <1>2 DEF Begin, BeginTransaction, BeginComplete, Recover, BeginCommit, BeginMerge, BeginPushBase,
     BeginRetry, BeginShelve, product
<1>3. ASSUME NEW a \in Actors, CommitDo(a) PROVE tree' \in {tree, 0}
  BY <1>3 DEF CommitDo, product
<1>4. ASSUME NEW a \in Actors, RunLane(a) \/ Crash(a)
      PROVE  tree' = tree \/ (act[a].pc = "lane" /\ tree' = act[a].run)
  BY <1>4 DEF RunLane, Crash
<1>5. ASSUME NEW a \in Actors, Continue(a), ~CommitDo(a), ~RunLane(a) PROVE tree' = tree
  BY <1>5 DEF Continue, RunLock, RunVerify, RunPost, CompleteCheck, CompleteMove, CompleteMeta,
     ShelveMove, ShelveMeta, CommitCheck, CommitRecord, Push, Pr, PrRecord, MergeView, MergeDo, Sync,
     MergeRecord, PushBase, PushRecord, product
<1>6. ASSUME Environment PROVE tree' \in {tree, 0}
  BY <1>6 DEF Environment, ClearLock, Restore, LoseCreds, RestoreCreds, HumanMerge, HumanClose, Refill, product
<1>7. ASSUME NEW a \in Actors, Finish(a) PROVE tree' = tree
  BY <1>7 DEF Finish, product
<1> QED
  BY <1>1, <1>2, <1>3, <1>4, <1>5, <1>6, <1>7 DEF Next

(* A commit that is new in the local base is the diff that was in the tree. *)
LEMMA CommitsTaken ==
  ASSUME Basic, Delivered, [Next]_vars, NEW k \in Runs, Product(k) \in local'
  PROVE  Product(k) \in local \/ (tree = k /\ tree' = 0)
<1>1. CASE UNCHANGED vars
  BY <1>1 DEF vars, product
<1>2. ASSUME NEW a \in Actors, Begin(a) PROVE local' = local
  BY <1>2 DEF Begin, BeginTransaction, BeginComplete, Recover, BeginCommit, BeginMerge, BeginPushBase,
     BeginRetry, BeginShelve, product
<1>3. ASSUME NEW a \in Actors, CommitDo(a) PROVE Product(k) \in local \/ (tree = k /\ tree' = 0)
  <2>1. act[a].run \in Runs
    BY <1>3, Stand DEF Basic, CommitDo, Standing, Works
  <2> QED
    BY <1>3, <2>1, Distinct DEF CommitDo, product
<1>4. ASSUME NEW a \in Actors, Sync(a) PROVE Product(k) \in local
  BY <1>4 DEF Sync, Delivered, CommitsSound, CommitSound
<1>5. ASSUME NEW a \in Actors, Continue(a), ~CommitDo(a), ~Sync(a) PROVE local' = local
  BY <1>5 DEF Continue, RunLock, RunVerify, RunLane, RunPost, CompleteCheck, CompleteMove, CompleteMeta,
     ShelveMove, ShelveMeta, CommitCheck, CommitRecord, Push, Pr, PrRecord, MergeView, MergeDo,
     MergeRecord, PushBase, PushRecord, product
<1>6. ASSUME Environment PROVE local' = local
  BY <1>6 DEF Environment, ClearLock, Restore, LoseCreds, RestoreCreds, HumanMerge, HumanClose, Refill, product
<1>7. ASSUME NEW a \in Actors, Finish(a) \/ Crash(a) PROVE local' = local
  BY <1>7 DEF Finish, Crash, product
<1> QED
  BY <1>1, <1>2, <1>3, <1>4, <1>5, <1>6, <1>7 DEF Next

(* An implementer's run is a new one.                                      *)
LEMMA LanesTaken ==
  ASSUME Basic, [Next]_vars, NEW a \in Actors, act'[a].pc = "lane"
  PROVE  \/ act[a].pc = "lane" /\ act'[a].run = act[a].run
         \/ act'[a].run \in Runs /\ runs[act'[a].run].item = 0 /\ local' = local
<1>1. CASE UNCHANGED vars
  BY <1>1 DEF vars
<1>2. ASSUME NEW b \in Actors, Others(b), act'[b].pc # "lane"
      PROVE  act[a].pc = "lane" /\ act'[a].run = act[a].run
  BY <1>2 DEF Others, Kept
<1>3. ASSUME NEW b \in Actors, Begin(b) PROVE Others(b) /\ act'[b].pc # "lane"
  <2>1. Acts
    BY DEF Basic, Typed
  <2>2. ASSUME NEW i \in Items, NEW job \in Transactions, BeginTransaction(b, i, job)
        PROVE  Others(b) /\ act'[b].pc # "lane"
    BY <2>2, BeginTransactionBegins DEF Begins
  <2> QED
    BY <1>3, <2>1, <2>2, BeginCompleteBegins, BeginCommitBegins, BeginMergeBegins, BeginPushBaseBegins,
       BeginRetryBegins, RecoverBegins, BeginShelveBegins DEF Begin, Begins
<1>4. ASSUME NEW b \in Actors, Continue(b), ~RunVerify(b) PROVE Others(b) /\ act'[b].pc # "lane"
  <2>1. Acts
    BY DEF Basic, Typed
  <2> QED
    BY <1>4, <2>1, RunLockMoves, RunLaneMoves, RunPostMoves, CompleteCheckMoves, CompleteMoveMoves,
       CompleteMetaMoves, ShelveMoveMoves, ShelveMetaMoves, CommitCheckMoves, CommitDoMoves,
       CommitRecordMoves, PushMoves, PrMoves, PrRecordMoves, MergeViewMoves, MergeDoMoves, SyncMoves,
       MergeRecordMoves, PushBaseMoves, PushRecordMoves DEF Continue, Moves
<1>5. ASSUME NEW b \in Actors, RunVerify(b), a # b
      PROVE  act[a].pc = "lane" /\ act'[a].run = act[a].run
  BY <1>5, RunVerifyMoves DEF Others, Kept, Moves
<1>6. ASSUME RunVerify(a)
      PROVE  act'[a].run \in Runs /\ runs[act'[a].run].item = 0 /\ local' = local
  <2>1. act \in [Actors -> Commands]
    BY DEF Basic, Typed, Acts
  <2>2. act'[a].pc # "done"
    OBVIOUS
  <2>3. {"dirty", "failed"} \subseteq Results
    BY DEF Results
  <2>4. PICK i \in Items, k \in Runs :
          /\ runs[k].item = 0
          /\ act' = [act EXCEPT ![a].pc = "lane", ![a].run = k, ![a].item = i]
    BY <1>6, <2>2, <2>3, HasEnded DEF RunVerify, Moves, Basic, Typed
  <2>5. act'[a].run = k
    BY <2>1, <2>4 DEF Commands
  <2> QED
    BY <1>6, <2>4, <2>5 DEF RunVerify, product
<1>7. ASSUME NEW b \in Actors, Finish(b) \/ Crash(b) PROVE Others(b) /\ act'[b].pc # "lane"
  BY <1>7, Cleared DEF Finish, Crash, Basic, Typed
<1>8. CASE Environment
  BY <1>8, EnvironmentBasic
<1> QED
  BY <1>1, <1>2, <1>3, <1>4, <1>5, <1>6, <1>7, <1>8 DEF Next

LEMMA UnbornNext ==
  ASSUME Basic, Clean, Delivered, Unborn, [Next]_vars
  PROVE  Unborn'
<1>1. tree' # 0 => tree' \in Runs
  BY NextBasic, Numbers DEF Basic, Typed
<1>2. \A a \in Actors : act[a].pc = "lane" => act[a].run \in Runs /\ tree = 0
  BY Stand DEF Basic, Clean, CleanBy, Standing, Works
<1>3. ASSUME tree' # 0 PROVE Product(tree') \notin local'
  BY <1>1, <1>2, <1>3, TreeTaken, CommitsTaken, Numbers DEF Unborn
<1>4. ASSUME NEW a \in Actors, act'[a].pc = "lane" PROVE Product(act'[a].run) \notin local'
  <2>1. CASE act[a].pc = "lane" /\ act'[a].run = act[a].run
    BY <1>2, <2>1, CommitsTaken, Numbers DEF Unborn
  <2>2. CASE act'[a].run \in Runs /\ runs[act'[a].run].item = 0 /\ local' = local
    BY <2>2, Numbers DEF Delivered, CommitsSound, CommitSound
  <2> QED
    BY <1>4, <2>1, <2>2, LanesTaken
<1> QED
  BY <1>3, <1>4 DEF Unborn

-----------------------------------------------------------------------------
(* What every step leaves of commits, of the origin and of pull requests.  *)

Forward ==
  /\ \A k \in Runs : Committed(k) => Committed(k)' /\ tip'[k] = tip[k]
  /\ remote \subseteq remote'
  /\ \A i \in Items : hub[i].pr # "none" => hub'[i].pr # "none"

(* Two commits of one item are one.                                        *)
LEMMA SameCommit ==
  ASSUME Delivered, NEW j, NEW k, Committed(j), Committed(k), runs[j].item = runs[k].item
  PROVE  j = k
BY DEF Committed, Delivered, CommitsSound, CommitSound

LEMMA CommittedKept ==
  ASSUME Basic, Delivered, Unborn, [Next]_vars, NEW k, Committed(k)
  PROVE  Committed(k)' /\ tip'[k] = tip[k]
<1>1. k \in Runs /\ Product(k) \in local /\ runs[k].item \in Items
  BY DEF Committed, Delivered, CommitsSound, CommitSound
<1>2. tip'[k] = tip[k]
  BY <1>1, TipsTaken, Numbers DEF Unborn
<1>3. runs'[k].item = runs[k].item
  BY <1>1, RunsStart, Numbers
<1> QED
  BY <1>1, <1>2, <1>3 DEF Committed

LEMMA OriginGrows ==
  ASSUME Basic, [Next]_vars
  PROVE  remote \subseteq remote'
BY OriginTakes

(* Task branches and pull requests change by a push, the creation of a     *)
(* pull request, a merge, and a person's closing.                          *)
LEMMA HubTaken ==
  ASSUME Basic, [Next]_vars
  PROVE  \/ hub' = hub
         \/ \E a \in Actors : Push(a) \/ Pr(a)
         \/ \E i \in Items : hub[i].pr = "open" /\ Merged(i)
         \/ \E i \in Items : HumanClose(i)
<1>1. CASE UNCHANGED vars
  BY <1>1 DEF vars, origin
<1>2. ASSUME NEW a \in Actors, Begin(a) PROVE hub' = hub
  BY <1>2 DEF Begin, BeginTransaction, BeginComplete, Recover, BeginCommit, BeginMerge, BeginPushBase,
     BeginRetry, BeginShelve, origin
<1>3. ASSUME NEW a \in Actors, MergeDo(a)
      PROVE  hub' = hub \/ \E i \in Items : hub[i].pr = "open" /\ Merged(i)
  <2>1. act[a].item \in Items
    BY <1>3, Stand DEF Basic, MergeDo, Standing, Works
  <2> QED
    BY <1>3, <2>1 DEF MergeDo, origin
<1>4. ASSUME NEW a \in Actors, Continue(a), ~Push(a), ~Pr(a), ~MergeDo(a) PROVE hub' = hub
  BY <1>4 DEF Continue, RunLock, RunVerify, RunLane, RunPost, CompleteCheck, CompleteMove, CompleteMeta,
     ShelveMove, ShelveMeta, CommitCheck, CommitDo, CommitRecord, PrRecord, MergeView, Sync,
     MergeRecord, PushBase, PushRecord, origin
<1>5. CASE Environment
  BY <1>5 DEF Environment, ClearLock, Restore, LoseCreds, RestoreCreds, HumanMerge, Refill, origin
<1>6. ASSUME NEW a \in Actors, Finish(a) \/ Crash(a) PROVE hub' = hub
  BY <1>6 DEF Finish, Crash, origin
<1> QED
  BY <1>1, <1>2, <1>3, <1>4, <1>5, <1>6 DEF Next

(* A pull request that does not change stays sound.                        *)
LEMMA BranchKept ==
  ASSUME Basic, Delivered, Unborn, [Next]_vars, NEW i \in Items, BranchSound(i), hub'[i] = hub[i]
  PROVE  BranchSound(i)'
<1>1. ASSUME NEW k, Committed(k), runs[k].item = i
      PROVE  Committed(k)' /\ runs'[k].item = i /\ tip'[k] = tip[k]
  <2>1. k \in Runs /\ Committed(k)' /\ tip'[k] = tip[k]
    BY <1>1, CommittedKept DEF Committed
  <2> QED
    BY <1>1, <2>1, RunsStart, Numbers
<1> QED
  BY <1>1, OriginGrows DEF BranchSound

LEMMA HubNext ==
  ASSUME Basic, Delivered, Unborn, HubSound, PublishesSound, [Next]_vars
  PROVE  HubSound' /\ \A i \in Items : hub[i].pr # "none" => hub'[i].pr # "none"
<1>1. ASSUME NEW k, Committed(k)
      PROVE  k \in Runs /\ Committed(k)' /\ runs'[k].item = runs[k].item /\ tip'[k] = tip[k]
  <2>1. k \in Runs /\ runs[k].item \in Items /\ Committed(k)' /\ tip'[k] = tip[k]
    BY <1>1, CommittedKept DEF Committed
  <2> QED
    BY <2>1, RunsStart, Numbers
<1>2. hub \in [Items -> Branches] /\ remote \subseteq remote'
  BY OriginGrows DEF Basic, Typed
<1>3. CASE hub' = hub
  BY <1>3, BranchKept DEF HubSound
<1>4. ASSUME NEW a \in Actors, Push(a)
      PROVE  HubSound' /\ \A i \in Items : hub[i].pr # "none" => hub'[i].pr # "none"
  <2>1. act[a].item \in Items /\ runs[act[a].run].item = act[a].item /\ Committed(act[a].run)
    BY <1>4, Stand DEF Basic, Push, Standing, Works, PublishesSound, PublishSound, Publishing
  <2>2. hub' = hub \/ hub' = [hub EXCEPT ![act[a].item].branch = act[a].run]
    BY <1>4 DEF Push
  <2>3. \A i \in Items : /\ hub'[i].pr = hub[i].pr /\ hub'[i].head = hub[i].head
                         /\ hub'[i].branch = hub[i].branch \/ (i = act[a].item /\ hub'[i].branch = act[a].run)
    BY <1>2, <2>1, <2>2 DEF Branches
  <2> QED
    BY <1>1, <1>2, <2>1, <2>3 DEF HubSound, BranchSound
<1>5. ASSUME NEW a \in Actors, Pr(a)
      PROVE  HubSound' /\ \A i \in Items : hub[i].pr # "none" => hub'[i].pr # "none"
  <2>1. act[a].item \in Items
    BY <1>5, Stand DEF Basic, Pr, Standing, Works
  <2>2. \/ hub' = hub
        \/ /\ hub[act[a].item].branch # 0
           /\ hub' = [hub EXCEPT ![act[a].item].pr = "open",
                                 ![act[a].item].head = hub[act[a].item].branch]
    BY <1>5 DEF Pr
  <2>3. \A i \in Items : \/ hub'[i] = hub[i]
                         \/ /\ hub[i].branch # 0 /\ hub'[i].branch = hub[i].branch
                            /\ hub'[i].pr = "open" /\ hub'[i].head = hub[i].branch
    BY <1>2, <2>1, <2>2 DEF Branches
  <2> QED
    BY <1>1, <1>2, <2>3 DEF HubSound, BranchSound
<1>6. ASSUME NEW i \in Items, hub[i].pr = "open", Merged(i)
      PROVE  HubSound' /\ \A j \in Items : hub[j].pr # "none" => hub'[j].pr # "none"
  <2>1. \A j \in Items :
          /\ hub'[j].head = hub[j].head /\ hub'[j].branch \in {hub[j].branch, 0}
          /\ \/ hub'[j].pr = hub[j].pr
             \/ /\ hub[j].pr = "open" /\ hub'[j].pr = "merged"
                /\ tip[hub[j].head] \subseteq remote'
    BY <1>2, <1>6 DEF Merged, Branches
  <2> QED
    BY <1>1, <1>2, <2>1 DEF HubSound, BranchSound
<1>7. ASSUME NEW i \in Items, HumanClose(i)
      PROVE  HubSound' /\ \A j \in Items : hub[j].pr # "none" => hub'[j].pr # "none"
  <2>1. \A j \in Items : /\ hub'[j].head = hub[j].head /\ hub'[j].branch = hub[j].branch
                         /\ hub'[j].pr = hub[j].pr \/ (hub[j].pr = "open" /\ hub'[j].pr = "closed")
    BY <1>2, <1>7 DEF HumanClose, Branches
  <2> QED
    BY <1>1, <1>2, <2>1 DEF HubSound, BranchSound
<1> QED
  BY <1>3, <1>4, <1>5, <1>6, <1>7, HubTaken

LEMMA StepsForward ==
  ASSUME Basic, Delivered, Unborn, HubSound, PublishesSound, [Next]_vars
  PROVE  Forward
BY HubNext, CommittedKept, OriginGrows DEF Forward

-----------------------------------------------------------------------------
(* Receipts are written of what is already so.                             *)

LEMMA ReceiptsTaken ==
  ASSUME Basic, [Next]_vars
  PROVE  \/ receipts' = receipts
         \/ \E a \in Actors : \/ CommitRecord(a) \/ Push(a) \/ Pr(a) \/ PrRecord(a)
                              \/ MergeRecord(a) \/ PushRecord(a)
<1>1. CASE UNCHANGED vars
  BY <1>1 DEF vars
<1>2. ASSUME NEW a \in Actors, Begin(a) PROVE receipts' = receipts
  BY <1>2 DEF Begin, BeginTransaction, BeginComplete, Recover, BeginCommit, BeginMerge, BeginPushBase,
     BeginRetry, BeginShelve
<1>3. ASSUME NEW a \in Actors, Continue(a), ~CommitRecord(a), ~Push(a), ~Pr(a), ~PrRecord(a),
             ~MergeRecord(a), ~PushRecord(a)
      PROVE  receipts' = receipts
  BY <1>3 DEF Continue, RunLock, RunVerify, RunLane, RunPost, CompleteCheck, CompleteMove, CompleteMeta,
     ShelveMove, ShelveMeta, CommitCheck, CommitDo, MergeView, MergeDo, Sync, PushBase
<1>4. CASE Environment
  BY <1>4 DEF Environment, ClearLock, Restore, LoseCreds, RestoreCreds, HumanMerge, HumanClose, Refill
<1>5. ASSUME NEW a \in Actors, Finish(a) \/ Crash(a) PROVE receipts' = receipts
  BY <1>5 DEF Finish, Crash
<1> QED
  BY <1>1, <1>2, <1>3, <1>4, <1>5 DEF Next

(* The receipts of a run that are what they were stay true.                *)
LEMMA ReceiptKept ==
  ASSUME Basic, Forward, [Next]_vars, NEW k \in Runs, ReceiptSound(k)
  PROVE  /\ Committed(k) => Committed(k)' /\ runs'[k].item = runs[k].item
         /\ Product(k) \in remote => Product(k) \in remote'
         /\ k \in receipts.published =>
              Product(k) \in remote' \/ hub'[runs'[k].item].pr # "none"
<1>1. Committed(k) => Committed(k)' /\ runs'[k].item = runs[k].item /\ runs[k].item \in Items
  BY RunsStart, Numbers DEF Forward, Committed
<1> QED
  BY <1>1 DEF Forward, ReceiptSound

LEMMA ReceiptsNext ==
  ASSUME Basic, Delivered, Unborn, HubSound, PublishesSound, ReceiptsSound, [Next]_vars
  PROVE  ReceiptsSound'
<1> SUFFICES ASSUME NEW k \in Runs PROVE ReceiptSound(k)'
  BY DEF ReceiptsSound
<1>1. /\ Committed(k) => Committed(k)' /\ runs'[k].item = runs[k].item
      /\ Product(k) \in remote => Product(k) \in remote'
      /\ k \in receipts.published => Product(k) \in remote' \/ hub'[runs'[k].item].pr # "none"
      /\ ReceiptSound(k)
  BY StepsForward, ReceiptKept DEF ReceiptsSound
<1>2. receipts \in Records
  BY DEF Basic, Typed
<1>3. ASSUME NEW a \in Actors, act[a].pc \in Publishing
      PROVE  Committed(act[a].run) /\ runs[act[a].run].item = act[a].item /\ PublishSound(a)
  BY <1>3, Stand DEF Basic, PublishesSound, PublishSound, Publishing, Standing, Works
<1>4. CASE receipts' = receipts
  BY <1>1, <1>4 DEF ReceiptSound
<1>5. ASSUME NEW a \in Actors, CommitRecord(a) PROVE ReceiptSound(k)'
  <2>1. act[a].pc = "record" /\ Committed(act[a].run)
    BY <1>3, <1>5 DEF CommitRecord, Publishing
  <2>2. \/ receipts' = receipts
        \/ receipts' = [receipts EXCEPT !.commit = @ \cup {act[a].run}]
    BY <1>5 DEF CommitRecord
  <2> QED
    BY <1>1, <1>2, <2>1, <2>2 DEF ReceiptSound, Records
<1>6. ASSUME NEW a \in Actors, Push(a) \/ Pr(a) PROVE ReceiptSound(k)'
  <2>1. \/ receipts' = receipts
        \/ \E refused : receipts' = [receipts EXCEPT !.refused = refused]
    BY <1>6 DEF Push, Pr, Refuse
  <2> QED
    BY <1>1, <1>2, <2>1 DEF ReceiptSound, Records
<1>7. ASSUME NEW a \in Actors, PrRecord(a) PROVE ReceiptSound(k)'
  <2>1. /\ Committed(act[a].run) /\ runs[act[a].run].item = act[a].item
        /\ Product(act[a].run) \in remote \/ hub[act[a].item].pr # "none"
    BY <1>3, <1>7 DEF PrRecord, Publishing, PublishSound
  <2>2. \E linked \in {receipts.linked, receipts.linked \cup {act[a].run}} :
          receipts' = [receipts EXCEPT !.published = @ \cup {act[a].run}, !.linked = linked]
    BY <1>7 DEF PrRecord
  <2>3. UNCHANGED <<remote, hub, runs>>
    BY <1>7 DEF PrRecord, origin
  <2> QED
    BY <1>1, <1>2, <2>1, <2>2, <2>3 DEF ReceiptSound, Records
<1>8. ASSUME NEW a \in Actors, MergeRecord(a) PROVE ReceiptSound(k)'
  <2>1. Committed(act[a].run) /\ Product(act[a].run) \in remote
    BY <1>3, <1>8 DEF MergeRecord, Publishing, PublishSound
  <2>2. receipts' = [receipts EXCEPT !.merged = @ \cup {act[a].run}]
    BY <1>8 DEF MergeRecord
  <2> QED
    BY <1>1, <1>2, <2>1, <2>2 DEF ReceiptSound, Records
<1>9. ASSUME NEW a \in Actors, PushRecord(a) PROVE ReceiptSound(k)'
  <2>1. Committed(act[a].run) /\ Product(act[a].run) \in remote
    BY <1>3, <1>9 DEF PushRecord, Publishing, PublishSound
  <2>2. \/ receipts' = receipts
        \/ receipts' = [receipts EXCEPT !.pushed = @ \cup {act[a].run}]
    BY <1>9 DEF PushRecord
  <2> QED
    BY <1>1, <1>2, <2>1, <2>2 DEF ReceiptSound, Records
<1> QED
  BY <1>4, <1>5, <1>6, <1>7, <1>8, <1>9, ReceiptsTaken

-----------------------------------------------------------------------------
(* A command that publishes has behind it what it is about to write.       *)

LEMMA PublishKept ==
  ASSUME Basic, PublishesSound, Forward, NEW a \in Actors, Kept(a)
  PROVE  PublishSound(a)'
<1>1. CASE act[a].pc \in Publishing
  <2>1. act[a].item \in Items /\ act[a].run \in Runs
    BY <1>1, Stand DEF Basic, Publishing, Standing, Works
  <2> QED
    BY <1>1, <2>1 DEF PublishesSound, PublishSound, Forward, Kept
<1>2. CASE act[a].pc \notin Publishing
  BY <1>2 DEF PublishSound, Publishing, Kept
<1> QED
  BY <1>1, <1>2

LEMMA PublishesAside ==
  ASSUME Basic, PublishesSound, Forward, NEW a \in Actors, Others(a), PublishSound(a)'
  PROVE  PublishesSound'
BY PublishKept DEF PublishesSound, Others

LEMMA Aloof ==
  ASSUME NEW a \in Actors, act'[a].pc \notin Publishing
  PROVE  PublishSound(a)'
BY DEF PublishSound, Publishing

LEMMA BeginPublishes ==
  ASSUME Basic, Delivered, Published, NEW a \in Actors, Begin(a), Forward
  PROVE  PublishesSound'
<1>1. ASSUME Others(a), act'[a].pc \notin Publishing PROVE PublishesSound'
  BY <1>1, PublishesAside, Aloof DEF Published
<1>2. ASSUME NEW i \in Items, NEW job \in Transactions, BeginTransaction(a, i, job)
      PROVE  PublishesSound'
  BY <1>1, <1>2, BeginTransactionBegins DEF Publishing
<1>3. ASSUME NEW k \in Runs, BeginComplete(a, k) \/ Recover(a, k) \/ BeginCommit(a, k)
      PROVE  PublishesSound'
  BY <1>1, <1>3, BeginCompleteBegins, RecoverBegins, BeginCommitBegins DEF Begins, Publishing
<1>4. ASSUME NEW i \in Items, NEW to \in {"blocked", "manual-review"}, BeginShelve(a, i, to)
      PROVE  PublishesSound'
  BY <1>1, <1>4, BeginShelveBegins DEF Publishing
<1>5. ASSUME NEW k \in Runs, Committed(k), Others(a), act'[a].run = k,
             act'[a].pc \in {"view", "push-base", "push"}
      PROVE  PublishesSound'
  <2>1. PublishSound(a)'
    BY <1>5 DEF PublishSound, Forward
  <2> QED
    BY <1>5, <2>1, PublishesAside DEF Published
<1>6. ASSUME NEW k \in Runs, BeginMerge(a, k)
      PROVE  PublishesSound'
  <2>1. Committed(k)
    BY <1>6 DEF BeginMerge, PendingMerge, Published, ReceiptsSound, ReceiptSound
  <2> QED
    BY <1>5, <1>6, <2>1, BeginMergeBegins DEF Begins
<1>7. ASSUME NEW k \in Runs, BeginPushBase(a, k)
      PROVE  PublishesSound'
  <2>1. Committed(k)
    BY <1>7 DEF BeginPushBase, Published, ReceiptsSound, ReceiptSound
  <2> QED
    BY <1>5, <1>7, <2>1, BeginPushBaseBegins DEF Begins
<1>8. ASSUME NEW k \in Runs, NEW job \in {"retry", "republish"}, BeginRetry(a, k, job)
      PROVE  PublishesSound'
  <2>1. Committed(k)
    BY <1>8 DEF BeginRetry, PendingPush, Published, ReceiptsSound, ReceiptSound
  <2> QED
    BY <1>5, <1>8, <2>1, BeginRetryBegins DEF Begins
<1> QED
  BY <1>2, <1>3, <1>4, <1>6, <1>7, <1>8 DEF Begin

(* The commit, its receipt and the push of the task branch lead to the     *)
(* next step with the commit behind them.                                  *)
LEMMA CommitPublishes ==
  ASSUME Basic, Delivered, Published, Forward, NEW a \in Actors,
         CommitDo(a) \/ CommitRecord(a) \/ Push(a)
  PROVE  PublishesSound'
<1>1. Acts
  BY DEF Basic, Typed
<1>2. \E pc \in {"record", "push", "pr", "done"} : Moves(a, pc)
  BY <1>1, CommitDoMoves, CommitRecordMoves, PushMoves
<1>3. Works(a)
  BY Stand DEF Basic, CommitDo, CommitRecord, Push, Standing
<1>4. CASE act[a].pc \in Publishing
  <2>1. PublishSound(a)'
    BY <1>2, <1>3, <1>4 DEF Published, PublishesSound, PublishSound, Publishing, Forward, Moves, Works
  <2> QED
    BY <1>2, <2>1, PublishesAside DEF Published, Moves
<1>5. CASE CommitDo(a)
  <2>1. CASE tree = act[a].run
    <3>1. PICK k \in Runs : act[a].run = k /\ act'[a].run = k /\ runs[k].item \in Items
      BY <1>2, <1>3 DEF Works, Moves
    <3>2. Product(k) \in tip'[k] /\ runs' = runs
      BY <1>5, <2>1, <3>1 DEF CommitDo, Basic, Typed
    <3>3. Committed(k)'
      BY <3>1, <3>2 DEF Committed
    <3>4. PublishSound(a)'
      BY <1>2, <1>5, <3>1, <3>3 DEF PublishSound, CommitDo, Moves
    <3> QED
      BY <1>2, <3>4, PublishesAside DEF Published, Moves
  <2>2. CASE tree # act[a].run
    <3>1. "failed" \in Results
      BY DEF Results
    <3>2. Moves(a, "done")
      BY <1>1, <1>5, <2>2, <3>1, HasEnded DEF CommitDo
    <3> QED
      BY <3>2, PublishesAside, Aloof DEF Published, Moves, Publishing
  <2> QED
    BY <2>1, <2>2
<1> QED
  BY <1>4, <1>5 DEF CommitRecord, Push, Publishing

LEMMA PrPublishes ==
  ASSUME Basic, Delivered, Published, Forward, NEW a \in Actors, Pr(a)
  PROVE  PublishesSound'
<1>1. Acts /\ Works(a) /\ act[a].pc = "pr" /\ Committed(act[a].run) /\ hub \in [Items -> Branches]
  BY Stand DEF Basic, Typed, Pr, Standing, Published, PublishesSound, PublishSound, Publishing
<1>2. Moves(a, "pr-record") \/ Moves(a, "done")
  BY <1>1, PrMoves
<1>3. CASE Moves(a, "done")
  BY <1>3, PublishesAside, Aloof DEF Published, Moves, Publishing
<1>4. CASE Moves(a, "pr-record")
  <2>1. \A r \in Results : ~FileAndEnd(a, r)
    BY <1>1, <1>4, FileEnded DEF Moves
  <2>2. {"credential-blocked", "pr-blocked", "publication-blocked"} \subseteq Results
    BY DEF Results
  <2>3. ~Refuse(a, "pr-blocked") /\ ~Refuse(a, "credential-blocked")
    BY <2>1, <2>2 DEF Refuse
  <2>4. \/ /\ act' = [act EXCEPT ![a].pc = "pr-record", ![a].result = "updated"]
           /\ hub' = hub /\ hub[act[a].item].pr = "open"
        \/ /\ act' = [act EXCEPT ![a].pc = "pr-record", ![a].result = "already-in-base"]
           /\ tip[act[a].run] \subseteq remote /\ remote' = remote
        \/ /\ act' = [act EXCEPT ![a].pc = "pr-record", ![a].result = "created"]
           /\ hub' = [hub EXCEPT ![act[a].item].pr = "open",
                                 ![act[a].item].head = hub[act[a].item].branch]
    BY <2>3 DEF Pr
  <2>5. \/ act'[a].result \in {"updated", "created"} /\ hub'[act[a].item].pr = "open"
        \/ act'[a].result = "already-in-base" /\ Product(act[a].run) \in remote'
    BY <1>1, <2>4 DEF Acts, Commands, Works, Committed, Branches
  <2>6. PublishSound(a)'
    BY <1>1, <1>4, <2>5 DEF PublishSound, Moves, Forward, Works
  <2> QED
    BY <1>4, <2>6, PublishesAside DEF Published, Moves
<1> QED
  BY <1>2, <1>3, <1>4

(* On the way to the merged receipt the origin has the commit: a merged    *)
(* pull request of the item is of this very commit.                        *)
LEMMA MergePublishes ==
  ASSUME Basic, Delivered, Published, Forward, NEW a \in Actors,
         PrRecord(a) \/ MergeView(a) \/ MergeDo(a) \/ Sync(a) \/ MergeRecord(a) \/ PushBase(a) \/ PushRecord(a)
  PROVE  PublishesSound'
<1>1. Acts /\ Works(a) /\ Committed(act[a].run) /\ act[a].pc \in Publishing
  BY Stand DEF Basic, Typed, PrRecord, MergeView, MergeDo, Sync, MergeRecord, PushBase, PushRecord,
     Standing, Published, PublishesSound, PublishSound, Publishing
<1>2. \E pc \in {"view", "merge", "sync", "merge-record", "push-record", "done"} : Moves(a, pc)
  BY <1>1, PrRecordMoves, MergeViewMoves, MergeDoMoves, SyncMoves, MergeRecordMoves, PushBaseMoves, PushRecordMoves
<1>3. act'[a].pc \in {"sync", "merge-record", "push-record"} => Product(act[a].run) \in remote'
  <2>1. hub[act[a].item].pr # "none" => hub[act[a].item].head = act[a].run
    BY <1>1, SameCommit DEF Published, HubSound, BranchSound, Works
  <2>2. CASE MergeView(a) /\ hub[act[a].item].pr = "merged"
    BY <1>1, <2>1, <2>2 DEF Published, HubSound, BranchSound, Works, Committed, Forward
  <2>3. CASE MergeView(a) /\ hub[act[a].item].pr # "merged"
    <3>1. {"merge-credential-blocked", "merge-blocked"} \subseteq Results /\ "merge" \in Places
      BY DEF Results, Places
    <3>2. Moves(a, "done") \/ Moves(a, "merge")
      BY <1>1, <2>3, <3>1, FileEnded, Gone DEF MergeView
    <3> QED
      BY <3>2 DEF Moves
  <2>4. CASE MergeDo(a)
    <3>1. CASE hub[act[a].item].pr = "open" /\ Merged(act[a].item)
      BY <1>1, <2>1, <3>1 DEF Merged, Committed
    <3>2. CASE ~(hub[act[a].item].pr = "open" /\ Merged(act[a].item))
      <4>1. {"merge-credential-blocked", "merge-blocked"} \subseteq Results
        BY DEF Results
      <4>2. Moves(a, "done")
        BY <1>1, <2>4, <3>2, <4>1, FileEnded DEF MergeDo
      <4> QED
        BY <4>2 DEF Moves
    <3> QED
      BY <3>1, <3>2
  <2>5. CASE Sync(a)
    BY <2>5 DEF Sync, Published, PublishesSound, PublishSound, Forward
  <2>6. CASE PushBase(a)
    <3>1. CASE remote' = tip[act[a].run]
      BY <1>1, <3>1 DEF Committed
    <3>2. CASE remote' # tip[act[a].run]
      <4>1. "failed" \in Results
        BY DEF Results
      <4>2. Moves(a, "done")
        BY <1>1, <2>6, <3>2, <4>1, HasEnded DEF PushBase
      <4> QED
        BY <4>2 DEF Moves
    <3> QED
      BY <3>1, <3>2
  <2>7. CASE PrRecord(a) \/ MergeRecord(a) \/ PushRecord(a)
    BY <1>1, <2>7, PrRecordMoves, MergeRecordMoves, PushRecordMoves DEF Moves
  <2> QED
    BY <2>2, <2>3, <2>4, <2>5, <2>6, <2>7
<1>4. PublishSound(a)'
  BY <1>1, <1>2, <1>3 DEF PublishSound, Moves, Forward, Works
<1> QED
  BY <1>2, <1>4, PublishesAside DEF Published, Moves

LEMMA PublishesNext ==
  ASSUME Basic, Delivered, Published, [Next]_vars
  PROVE  PublishesSound'
<1>1. Forward
  BY StepsForward DEF Published
<1>2. ASSUME act' = act PROVE PublishesSound'
  BY <1>1, <1>2, PublishKept DEF PublishesSound, Kept, Published
<1>3. ASSUME NEW a \in Actors, Begin(a) PROVE PublishesSound'
  BY <1>1, <1>3, BeginPublishes
<1>4. ASSUME NEW a \in Actors, Others(a), act'[a].pc \notin Publishing PROVE PublishesSound'
  BY <1>1, <1>4, PublishesAside, Aloof DEF Published
<1>5. ASSUME NEW a \in Actors, Finish(a) \/ Crash(a) PROVE PublishesSound'
  BY <1>4, <1>5, Cleared DEF Finish, Crash, Basic, Typed, Publishing
<1>6. ASSUME NEW a \in Actors, Continue(a) PROVE PublishesSound'
  <2>1. Acts
    BY DEF Basic, Typed
  <2>2. CASE \/ CommitDo(a) \/ CommitRecord(a) \/ Push(a) \/ Pr(a) \/ PrRecord(a) \/ MergeView(a)
             \/ MergeDo(a) \/ Sync(a) \/ MergeRecord(a) \/ PushBase(a) \/ PushRecord(a)
    BY <1>1, <2>2, CommitPublishes, PrPublishes, MergePublishes
  <2>3. CASE RunVerify(a)
    BY <1>4, <2>3, RunVerifyMoves DEF Moves, Publishing
  <2>4. CASE \/ RunLock(a) \/ RunLane(a) \/ RunPost(a) \/ CompleteCheck(a) \/ CompleteMove(a)
             \/ CompleteMeta(a) \/ ShelveMove(a) \/ ShelveMeta(a) \/ CommitCheck(a)
    <3>1. \E pc \in {"verify", "post", "check", "move", "meta", "commit-check", "label", "commit", "done"} :
             Moves(a, pc)
      BY <2>1, <2>4, RunLockMoves, RunLaneMoves, RunPostMoves, CompleteCheckMoves, CompleteMoveMoves,
         CompleteMetaMoves, ShelveMoveMoves, ShelveMetaMoves, CommitCheckMoves
    <3> QED
      BY <1>4, <3>1 DEF Moves, Publishing
  <2> QED
    BY <1>6, <2>2, <2>3, <2>4 DEF Continue
<1> QED
  BY <1>2, <1>3, <1>5, <1>6, EnvironmentBasic DEF Next, vars

LEMMA PublishedInit ==
  ASSUME Init
  PROVE  Published
<1>1. Unborn /\ HubSound
  BY DEF Init, Unborn, HubSound, BranchSound, Idle
<1>2. PublishesSound /\ ReceiptsSound
  BY DEF Init, PublishesSound, PublishSound, ReceiptsSound, ReceiptSound, Publishing, Idle
<1> QED
  BY <1>1, <1>2 DEF Published

LEMMA PublishedNext ==
  ASSUME Basic, Clean, Delivered, Published, [Next]_vars
  PROVE  Published'
BY UnbornNext, HubNext, ReceiptsNext, PublishesNext DEF Published

(* What was written down of a run's commit is so: after a merge or a push  *)
(* the origin has it, after a merge the local base too, and a publication  *)
(* left a pull request with the commit, whatever people, other commands    *)
(* and crashes did meanwhile (publish_task_pr, merge_task_pr).             *)
THEOREM ReceiptsHold == Spec => []ReceiptsAreTrue
<1>1. ASSUME Basic, Delivered, Published PROVE ReceiptsAreTrue
  <2>1. receipts \in Records
    BY <1>1 DEF Basic, Typed
  <2>2. ASSUME NEW k \in receipts.merged PROVE Product(k) \in local \cap remote
    BY <1>1, <2>1, <2>2 DEF Records, Published, ReceiptsSound, ReceiptSound, Delivered, CommitsSound, CommitSound
  <2>3. ASSUME NEW k \in receipts.pushed PROVE Product(k) \in remote
    BY <1>1, <2>1, <2>3 DEF Records, Published, ReceiptsSound, ReceiptSound
  <2>4. ASSUME NEW k \in receipts.published, Product(k) \notin remote
        PROVE  hub[runs[k].item].pr # "none" /\ Product(k) \in tip[hub[runs[k].item].head]
    <3>1. Committed(k) /\ hub[runs[k].item].pr # "none"
      BY <1>1, <2>1, <2>4 DEF Records, Published, ReceiptsSound, ReceiptSound
    <3>2. hub[runs[k].item].head = k
      BY <1>1, <3>1, SameCommit DEF Committed, Published, HubSound, BranchSound
    <3> QED
      BY <3>1, <3>2 DEF Committed
  <2> QED
    BY <2>2, <2>3, <2>4 DEF ReceiptsAreTrue
<1> QED
  BY <1>1, InitBasic, NextBasic, CleanInit, NextClean, DeliveredInit, NextDelivered,
     PublishedInit, PublishedNext, PTL DEF Spec
=============================================================================
