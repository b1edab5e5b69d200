------------------------------- MODULE Doctor -------------------------------
(***************************************************************************)
(* The External Doctor: harness_doctor.py repair-latest, over the shared   *)
(* file control.json, with the three functions the launcher applies to its *)
(* claim (harness_autonomy_launch.py) and the operator's commands          *)
(* (harness_autonomy/core.py pause, stop, resume; harness_doctor.py        *)
(* clear-terminal-claim).                                                  *)
(*                                                                         *)
(* All claims are about one incident.  A write of control.json by the      *)
(* Doctor reads the file just before, and is one step here.                *)
(***************************************************************************)
EXTENDS Naturals, FiniteSets

CONSTANTS
  Doctors,      \* processes that run repair-latest
  Free, Dead,   \* doctor.lock: absent, left by a process that is gone,
  Blank,        \* left by a process that was gone before it wrote its pid
  NoClaim,      \* control.json has no doctor_claim
  Budget,       \* _doctor_attempt_budget
  Mode,         \* --repair-mode, or "command" when a repair command is given
  AutoMerge,    \* --doctor-auto-merge
  Skipped,      \* the publication steps left out by --no-commit, --no-push, --no-pr
  Classes,      \* the failure classes classify_failure may return
  Strategies,   \* fingerprints of repair strategies
  Reviews,      \* what a cross-review may conclude
  MaxClaims,    \* bound: claims the launcher creates
  MaxCrashes,   \* bound: crashes and exceptions of a Doctor
  MaxCommands,  \* bound: commands of the operator
  MaxLapses     \* bound: times that a lease grows older

Patchable == {"patchable"}
AllClasses == Patchable \cup {"transient", "hard-manual", "soft-manual"}
AllReviews == {"pass", "notes", "soft", "hard", "p0", "error", "missing"}
Steps == {"commit", "push", "pr"}

ASSUME DoctorAssumption ==
  /\ {Free, Dead, Blank} \cap Doctors = {}
  /\ Free # Dead /\ Free # Blank /\ Dead # Blank
  /\ Budget \in Nat \ {0}
  /\ Mode \in {"codex", "command", "diagnose"}
  /\ AutoMerge \in BOOLEAN
  /\ Skipped \subseteq Steps
  /\ Classes \subseteq AllClasses
  /\ Reviews \subseteq AllReviews
  /\ MaxClaims \in Nat /\ MaxCrashes \in Nat /\ MaxCommands \in Nat
  /\ MaxLapses \in Nat

VARIABLES
  control,   \* control.json: its mode and its doctor_claim
  lock,      \* doctor.lock
  raced,     \* history: a Doctor unlinked another lock than the one it judged
  doc,       \* where each Doctor stands, and its local variables
  launch,    \* where the launcher stands with the claim, and the claim it will write
  clear,     \* where clear-terminal-claim stands, and the mode it will write
  tree,      \* the repair worktree: its diff, what was found of that diff, and
             \* whether a commit made under a claim waits for its push
  commits,   \* history: what was known of each diff that was committed
  prs,       \* history: ids of the claims under which a pull request was opened
  passes,    \* history: repair passes under each claim, up to Budget + 1
  recovered, \* ids of the claims that were given up as stale
  claims, crashes, commands, lapses

vars == <<control, lock, raced, doc, launch, clear, tree, commits, prs, passes, recovered,
          claims, crashes, commands, lapses>>

-----------------------------------------------------------------------------
(* Claims.                                                                 *)

ActiveStatus == {"claimed", "repairing", "publishing"}
SoftStatus   == {"released", "auto-escalate"}
HardStatus   == {"manual-review", "paused"}
Leases       == {"live", "expired", "stale"}

Claim == [id : Nat, status : ActiveStatus \cup SoftStatus \cup HardStatus,
          attempt : Nat, lease : Leases, class : AllClasses]

Active(c)   == c # NoClaim /\ c.status \in ActiveStatus
Soft(c)     == c # NoClaim /\ c.status \in SoftStatus
Terminal(c) == c # NoClaim /\ c.status \in SoftStatus \cup HardStatus

Modes == {"running", "pause_after_cycle", "stop"}
Blocked == control.mode # "running"

(* write_doctor_claim; _update_doctor_claim does nothing without a claim.  *)
Save(c) == control' = IF c = NoClaim THEN control ELSE [control EXCEPT !.claim = c]

(* build_doctor_claim: an active claim without a lease gets a fresh one.   *)
With(c, status, attempt, lease) ==
  IF c = NoClaim THEN NoClaim
  ELSE [c EXCEPT !.status = status, !.attempt = attempt, !.lease = lease]

-----------------------------------------------------------------------------
(* The Doctor's local variables: whose pid it read in the lock, the claim  *)
(* in memory, the reason to skip, the class of the failure, the number of  *)
(* the pass, the flags of the present pass, and what it remembers of the   *)
(* passes before.  late is history: the launcher was about to write the    *)
(* claim, from what it had read before, when the Doctor took it over.      *)

Fresh == [pc |-> "idle", saw |-> Free, late |-> FALSE,
          mem |-> NoClaim, skip |-> "none", class |-> "soft-manual",
          attempt |-> 1, resume |-> FALSE, repairOk |-> FALSE, changed |-> FALSE,
          review |-> "none", reviewOk |-> TRUE, gatesOk |-> FALSE, done |-> {}, merged |-> FALSE,
          strategy |-> "none", repeated |-> FALSE, history |-> {}, rejected |-> {}]

Init ==
  /\ control = [mode |-> "running", claim |-> NoClaim]
  /\ lock = Free /\ raced = FALSE
  /\ doc = [d \in Doctors |-> Fresh]
  /\ launch = [pc |-> "idle", claim |-> NoClaim]
  /\ clear = [pc |-> "idle", mode |-> "running"]
  /\ tree = [diff |-> "absent", verdict |-> "none", gated |-> FALSE, unpushed |-> FALSE]
  /\ commits = {}
  /\ prs = {}
  /\ passes = [i \in 1 .. MaxClaims |-> 0]
  /\ recovered = {}
  /\ claims = 0
  /\ crashes = 0
  /\ commands = 0
  /\ lapses = 0

(* Places inside and outside the try of repair_latest.                     *)
Inside  == {"recover", "own", "enter", "attempt", "repair", "review", "reviewing", "gate",
            "publish", "commit", "push", "pr", "settle", "decide", "finish", "unlock"}
Outside == {"idle", "lock", "read", "judge", "unlink", "again", "write"}

Become(d, r) == doc' = [doc EXCEPT ![d] = r]

(* d ends: a pid of d that was read belongs to nobody from now on.         *)
Leave(d) == doc' = [e \in Doctors |-> IF e = d THEN Fresh
                                     ELSE IF doc[e].saw = d THEN [doc[e] EXCEPT !.saw = Dead]
                                     ELSE doc[e]]
Direct(d) == Mode # "diagnose" /\ doc[d].class \in Patchable
Others == UNCHANGED <<raced, launch, clear>>
DoctorOnly == Others /\ UNCHANGED <<recovered, claims, crashes, commands, lapses>>
History == UNCHANGED <<commits, prs, passes>>

(* What the Doctor makes of control.json and of the latest report.  Which  *)
(* report it finds without an active claim is left open.                   *)
Read(d, claim, next) ==
  LET mine == ~Blocked /\ Active(claim) IN
  \E class \in IF mine THEN {claim.class} ELSE Classes,
     skip \in IF Blocked THEN {"operator"}
              ELSE IF ~mine THEN {"none", "notfailed", "repeated"}
              ELSE IF claim.class \in Patchable /\ claim.attempt > Budget THEN {"budget"}
              ELSE {"none"} :
    Become(d, [doc[d] EXCEPT !.pc = next, !.skip = skip, !.class = class,
                             !.mem = IF mine THEN claim ELSE NoClaim,
                             !.attempt = IF mine THEN claim.attempt ELSE 1])

(* Control and claim are read before the lock is taken.                    *)
DoctorStart(d) ==
  /\ doc[d].pc = "idle"
  /\ Read(d, control.claim, "lock")
  /\ DoctorOnly /\ History /\ UNCHANGED <<control, lock, tree>>

(* Mutant: the lock is created over the one that is there.                 *)
DoctorCreateOver(d) ==
  /\ doc[d].pc \in {"lock", "again"}
  /\ lock' = d
  /\ Become(d, [doc[d] EXCEPT !.pc = "write"])
  /\ DoctorOnly /\ History /\ UNCHANGED <<control, tree>>

(* acquire_lock: open(O_CREAT | O_EXCL), twice.                            *)
DoctorCreate(d) ==
  /\ doc[d].pc \in {"lock", "again"}
  /\ lock = Free
  /\ lock' = d
  /\ Become(d, [doc[d] EXCEPT !.pc = "write"])
  /\ DoctorOnly /\ History /\ UNCHANGED <<control, tree>>

DoctorCreateFails(d) ==
  /\ doc[d].pc \in {"lock", "again"}
  /\ lock # Free
  /\ Become(d, IF doc[d].pc = "lock" THEN [doc[d] EXCEPT !.pc = "read"] ELSE Fresh)
  /\ DoctorOnly /\ History /\ UNCHANGED <<control, lock, tree>>

DoctorWritePid(d) ==
  /\ doc[d].pc = "write"
  /\ Become(d, [doc[d] EXCEPT !.pc = "recover"])
  /\ DoctorOnly /\ History /\ UNCHANGED <<control, lock, tree>>

(* _remove_stale_lock_if_dead reads the pid, judges it, and unlinks the    *)
(* path, whoever's lock is there by now.  A lock without a pid is not      *)
(* stale.                                                                  *)
HasPid(file) == file = Dead \/ (file \in Doctors /\ doc[file].pc # "write")

DoctorReadPid(d) ==
  /\ doc[d].pc = "read"
  /\ Become(d, IF HasPid(lock) THEN [doc[d] EXCEPT !.pc = "judge", !.saw = lock] ELSE Fresh)
  /\ DoctorOnly /\ History /\ UNCHANGED <<control, lock, tree>>

DoctorJudge(d) ==
  /\ doc[d].pc = "judge"
  /\ Become(d, IF doc[d].saw = Dead THEN [doc[d] EXCEPT !.pc = "unlink"] ELSE Fresh)
  /\ DoctorOnly /\ History /\ UNCHANGED <<control, lock, tree>>

DoctorUnlink(d) ==
  /\ doc[d].pc = "unlink"
  /\ lock' = Free
  /\ raced' = (raced \/ lock \notin {Free, Dead})
  /\ Become(d, [doc[d] EXCEPT !.pc = "again", !.saw = Free])
  /\ History /\ UNCHANGED <<control, tree, launch, clear, recovered, claims, crashes, commands,
                           lapses>>

(* recover_stale_state.  Without an anomaly what was read before the lock  *)
(* stands; after one, a stale claim or an old run, the Doctor reads again. *)
StaleClaim == /\ Active(control.claim)
              /\ control.claim.lease = "stale"
              /\ control.claim.id \notin recovered

DoctorRecover(d) ==
  /\ doc[d].pc = "recover"
  /\ \/ /\ doc[d].skip = "operator" \/ ~StaleClaim
        /\ Become(d, [doc[d] EXCEPT !.pc = "own"])
        /\ UNCHANGED <<control, recovered>>
     \/ /\ doc[d].skip # "operator" /\ ~StaleClaim
        /\ Read(d, control.claim, "own")
        /\ UNCHANGED <<control, recovered>>
     \/ /\ doc[d].skip # "operator" /\ StaleClaim
        /\ control' = [control EXCEPT !.claim = NoClaim]
        /\ recovered' = recovered \cup {control.claim.id}
        /\ Read(d, NoClaim, "own")
  /\ Others /\ History /\ UNCHANGED <<lock, tree, claims, crashes, commands, lapses>>

(* Places at which the launcher writes next without another look.          *)
Writing == {"renew", "clear", "create"}

(* The claim is marked repairing; then a direct patch starts or the pass   *)
(* ends at once.                                                           *)
DoctorOwn(d) ==
  LET me == doc[d]
      mem == IF me.mem = NoClaim THEN NoClaim ELSE [me.mem EXCEPT !.status = "repairing"]
  IN
  /\ me.pc = "own"
  /\ Save(mem)
  /\ Become(d, [me EXCEPT !.mem = mem, !.late = launch.pc \in Writing,
        !.pc = IF me.skip = "none" /\ Direct(d) THEN "enter" ELSE "decide",
        !.repairOk = me.skip = "none" /\ Mode = "diagnose" /\ me.class = "transient"])
  /\ DoctorOnly /\ History /\ UNCHANGED <<lock, tree>>

(* create_repair_worktree, and the cleanup of a tree that holds only the   *)
(* Doctor's own evidence.                                                  *)
DoctorEnter(d) ==
  LET me == doc[d] IN
  /\ me.pc = "enter"
  /\ \/ /\ tree' = [tree EXCEPT !.diff = IF @ = "repair" THEN @ ELSE "clean"]
        /\ Save(me.mem)
        /\ Become(d, [me EXCEPT !.pc = "attempt", !.resume = tree.diff = "repair"])
     \/ /\ tree.diff # "repair"          \* worktree add, merge --ff-only or the cleanup failed
        /\ Become(d, [me EXCEPT !.pc = "decide",
                                !.skip = IF tree.diff = "evidence" THEN "cleanup" ELSE @])
        /\ UNCHANGED <<control, tree>>
  /\ DoctorOnly /\ History /\ UNCHANGED lock

-----------------------------------------------------------------------------
(* The attempt loop.                                                       *)

Saturate(n) == IF n > Budget THEN n ELSE n + 1

DoctorAttempt(d) ==
  LET me == doc[d]
      attempt == IF me.mem = NoClaim THEN me.attempt ELSE me.mem.attempt
      mem == With(me.mem, "repairing", attempt, "live")
  IN
  /\ me.pc = "attempt"
  /\ Save(mem)
  /\ Become(d, [me EXCEPT !.pc = "repair", !.mem = mem, !.attempt = attempt,
        !.repairOk = TRUE, !.changed = FALSE, !.review = "none", !.reviewOk = TRUE, !.gatesOk = FALSE,
        !.done = {}, !.strategy = "none", !.repeated = FALSE])
  /\ passes' = IF mem = NoClaim THEN passes
               ELSE [passes EXCEPT ![mem.id] = Saturate(@)]
  /\ DoctorOnly /\ UNCHANGED <<lock, tree, commits, prs>>

(* After a repair the diff is another one: nothing found of the old diff   *)
(* holds for it.                                                           *)
Rewritten(diff) == [tree EXCEPT !.diff = diff, !.verdict = "none", !.gated = FALSE]

(* Mutant: the diff found in the worktree counts as reviewed.              *)
DoctorRepairTrustsResume(d) ==
  LET me == doc[d] IN
  /\ me.pc = "repair"
  /\ \E ok \in BOOLEAN, s \in Strategies,
       diff \in IF me.resume THEN {tree.diff} ELSE {"clean", "evidence", "repair"} :
       LET repairOk == ok /\ diff # "evidence" IN
       /\ tree' = Rewritten(diff)
       /\ Become(d, [me EXCEPT !.resume = FALSE, !.strategy = s,
             !.repairOk = repairOk, !.changed = diff # "clean",
             !.pc = IF ~repairOk THEN "settle" ELSE IF me.resume THEN "gate" ELSE "review"])
  /\ DoctorOnly /\ History /\ UNCHANGED <<control, lock>>

(* The repair command, or the diff found when the Doctor came in.  ok: the *)
(* command succeeded and validate_state_direct_patch has no objection.     *)
DoctorRepair(d) ==
  LET me == doc[d] IN
  /\ me.pc = "repair"
  /\ \E ok \in BOOLEAN, s \in Strategies,
       diff \in IF me.resume THEN {tree.diff} ELSE {"clean", "evidence", "repair"} :
       LET repeated == s \in me.rejected
           repairOk == ok /\ ~repeated /\ diff # "evidence"
           changed == diff # "clean"
       IN
       /\ tree' = Rewritten(diff)
       /\ Become(d, [me EXCEPT !.resume = FALSE, !.strategy = s, !.repeated = repeated,
             !.repairOk = repairOk, !.changed = changed,
             !.pc = IF repairOk /\ (changed \/ AutoMerge) THEN "review" ELSE "settle"])
  /\ DoctorOnly /\ History /\ UNCHANGED <<control, lock>>

DoctorReview(d) ==
  LET me == doc[d]
      mem == With(me.mem, "repairing", me.attempt, "live") IN
  /\ me.pc = "review"
  /\ Save(mem)
  /\ Become(d, [me EXCEPT !.pc = "reviewing", !.mem = mem])
  /\ DoctorOnly /\ History /\ UNCHANGED <<lock, tree>>

Findings == {"notes", "soft", "hard", "p0"}

(* _doctor_can_soft_override_p1.                                           *)
SoftOverride(me, verdict, again) ==
  /\ me.mem # NoClaim /\ Mode = "codex"
  /\ me.strategy \notin me.rejected /\ ~again
  /\ me.attempt >= Budget
  /\ verdict = "soft"

(* The review answers.  again: this strategy met this feedback before.     *)
DoctorVerdict(d) ==
  LET me == doc[d] IN
  /\ me.pc = "reviewing"
  /\ \E verdict \in Reviews, again \in BOOLEAN :
       LET override == SoftOverride(me, verdict, again)
           reviewOk == verdict \in {"pass", "notes"} \/ override
           repairOk == ~again
       IN
       /\ again => verdict \in Findings /\ <<me.strategy, verdict>> \in me.history
       /\ tree' = [tree EXCEPT !.verdict = IF override THEN "override" ELSE verdict]
       /\ Become(d, [me EXCEPT !.review = verdict, !.reviewOk = reviewOk,
             !.repairOk = repairOk,
             !.rejected = IF again THEN @ \cup {me.strategy} ELSE @,
             !.history = IF verdict \in Findings
                         THEN @ \cup {<<me.strategy, verdict>>} ELSE @,
             !.pc = IF repairOk /\ me.changed /\ reviewOk THEN "gate" ELSE "settle"])
  /\ DoctorOnly /\ History /\ UNCHANGED <<control, lock>>

DoctorGate(d) ==
  LET me == doc[d]
      mem == With(me.mem, "repairing", me.attempt, "live") IN
  /\ me.pc = "gate"
  /\ Save(mem)
  /\ \E ok \in BOOLEAN :
       /\ tree' = [tree EXCEPT !.gated = ok]
       /\ Become(d, [me EXCEPT !.mem = mem, !.gatesOk = ok,
             !.pc = IF ok /\ "commit" \notin Skipped THEN "publish" ELSE "settle"])
  /\ DoctorOnly /\ History /\ UNCHANGED lock

DoctorPublish(d) ==
  LET me == doc[d]
      mem == With(me.mem, "publishing", me.attempt, "live") IN
  /\ me.pc = "publish"
  /\ Save(mem)
  /\ Become(d, [me EXCEPT !.pc = "commit", !.mem = mem])
  /\ DoctorOnly /\ History /\ UNCHANGED <<lock, tree>>

(* commit_repair, push_repair and create_pull_request, each of which may   *)
(* fail; the next one runs only after a success.                           *)
After(step) == IF step = "commit" /\ "push" \notin Skipped THEN "push"
               ELSE IF step = "push" /\ "pr" \notin Skipped THEN "pr"
               ELSE "settle"

DoctorCommit(d) ==
  LET me == doc[d] IN
  /\ me.pc = "commit"
  /\ \/ /\ tree' = [tree EXCEPT !.diff = "clean", !.unpushed = @ \/ me.mem # NoClaim]
        /\ commits' = commits \cup {[verdict |-> tree.verdict, gated |-> tree.gated,
                                     rejected |-> me.strategy \in me.rejected]}
        /\ Become(d, [me EXCEPT !.done = {"commit"}, !.pc = After("commit")])
     \/ /\ Become(d, [me EXCEPT !.pc = "settle"])
        /\ UNCHANGED <<tree, commits>>
  /\ DoctorOnly /\ UNCHANGED <<control, lock, prs, passes>>

DoctorPush(d) ==
  LET me == doc[d] IN
  /\ me.pc = "push"
  /\ \/ /\ tree' = [tree EXCEPT !.unpushed = FALSE]
        /\ Become(d, [me EXCEPT !.done = @ \cup {"push"}, !.pc = After("push")])
     \/ /\ Become(d, [me EXCEPT !.pc = "settle"])
        /\ UNCHANGED tree
  /\ DoctorOnly /\ History /\ UNCHANGED <<control, lock>>

DoctorPr(d) ==
  LET me == doc[d] IN
  /\ me.pc = "pr"
  /\ \/ /\ Become(d, [me EXCEPT !.done = @ \cup {"pr"}, !.pc = "settle"])
        /\ prs' = IF me.mem = NoClaim THEN prs ELSE prs \cup {me.mem.id}
     \/ /\ Become(d, [me EXCEPT !.pc = "settle"])
        /\ UNCHANGED prs
  /\ DoctorOnly /\ UNCHANGED <<control, lock, tree, commits, passes>>

(* _doctor_patchable_blocker_reason.                                       *)
Blocker(me) ==
  /\ me.review # "missing"
  /\ me.done = {} /\ ~me.merged
  /\ \/ ~me.repairOk
     \/ ~me.reviewOk
     \/ me.changed /\ ~me.gatesOk

(* _doctor_should_retry_patchable_attempt.                                 *)
Retries(me) ==
  /\ Blocker(me)
  /\ me.mem # NoClaim /\ Mode = "codex"
  /\ me.attempt < Budget
  /\ ~me.repeated

(* Mutant: the pass is repeated under the same number.                     *)
DoctorRetryUncounted(d) ==
  LET me == doc[d]
      mem == With(me.mem, "repairing", me.attempt, "live") IN
  /\ me.pc = "settle"
  /\ Retries(me)
  /\ Save(mem)
  /\ Become(d, [me EXCEPT !.pc = "attempt", !.mem = mem])
  /\ DoctorOnly /\ History /\ UNCHANGED <<lock, tree>>

DoctorRetry(d) ==
  LET me == doc[d]
      mem == With(me.mem, "repairing", me.attempt + 1, "live") IN
  /\ me.pc = "settle"
  /\ Retries(me)
  /\ Save(mem)
  /\ Become(d, [me EXCEPT !.pc = "attempt", !.mem = mem])
  /\ DoctorOnly /\ History /\ UNCHANGED <<lock, tree>>

DoctorSettle(d) ==
  LET me == doc[d] IN
  /\ me.pc = "settle"
  /\ ~Retries(me)
  /\ Become(d, [me EXCEPT !.pc = "decide"])
  /\ DoctorOnly /\ History /\ UNCHANGED <<control, lock, tree>>

-----------------------------------------------------------------------------
(* The end of a run.                                                       *)

(* merge_pull_request.                                                     *)
DoctorMerge(d) ==
  LET me == doc[d] IN
  /\ me.pc = "decide"
  /\ AutoMerge /\ me.reviewOk /\ me.skip = "none" /\ "pr" \in me.done
  /\ \E ok \in BOOLEAN : Become(d, [me EXCEPT !.merged = ok, !.pc = "finish"])
  /\ DoctorOnly /\ History /\ UNCHANGED <<control, lock, tree>>

DoctorNoMerge(d) ==
  LET me == doc[d] IN
  /\ me.pc = "decide"
  /\ ~(AutoMerge /\ me.reviewOk /\ me.skip = "none" /\ "pr" \in me.done)
  /\ Become(d, [me EXCEPT !.pc = "finish"])
  /\ DoctorOnly /\ History /\ UNCHANGED <<control, lock, tree>>

(* Mutant: a commit counts as the publication.                             *)
PublicationReadyAtCommit(me) ==
  /\ me.repairOk /\ me.reviewOk
  /\ me.changed => me.gatesOk
  /\ "commit" \in Skipped \/ "commit" \in me.done

PublicationReady(me) ==
  /\ me.repairOk /\ me.reviewOk
  /\ me.changed => me.gatesOk
  /\ \/ "commit" \in Skipped
     \/ /\ "commit" \in me.done
        /\ \/ "push" \in Skipped
           \/ "push" \in me.done /\ ("pr" \in Skipped \/ "pr" \in me.done)

(* _doctor_publish_blocker_reason.                                         *)
PublishBlocked(me) ==
  /\ "commit" \in me.done
  /\ \/ "push" \notin Skipped /\ "push" \notin me.done
     \/ "pr" \notin Skipped /\ "pr" \notin me.done
     \/ AutoMerge /\ "pr" \in me.done /\ ~me.merged

(* Mutant: the operator is told, with a status the Doctor never writes.    *)
ExhaustedIsAware(me) == "operator-aware"

(* Mutant: only a P0 stops the loop when the attempts are used up.         *)
ExhaustedHardIsSoft(me) == IF me.review = "p0" THEN "manual-review" ELSE "auto-escalate"

Exhausted(me) == IF me.review \in {"p0", "hard"} THEN "manual-review" ELSE "auto-escalate"

(* The status the claim ends with; "publishing" keeps it active.           *)
FinalStatus(me) ==
  CASE me.class = "transient" -> IF me.attempt > Budget THEN "paused" ELSE "released"
    [] me.class # "transient" /\ me.skip # "none" -> "auto-escalate"
    [] me.class # "transient" /\ me.skip = "none" ->
         IF PublicationReady(me) THEN "released"
         ELSE IF me.repeated THEN "manual-review"
         ELSE IF me.review = "missing" THEN "auto-escalate"
         ELSE IF PublishBlocked(me) THEN "publishing"
         ELSE IF Blocker(me) /\ me.attempt >= Budget THEN Exhausted(me)
         ELSE IF me.class = "hard-manual" THEN "manual-review"
         ELSE "auto-escalate"

DoctorFinish(d) ==
  LET me == doc[d]
      mem == IF me.mem = NoClaim THEN NoClaim
             ELSE With(me.mem, FinalStatus(me), me.mem.attempt, "live") IN
  /\ me.pc = "finish"
  /\ Save(mem)
  /\ Become(d, [me EXCEPT !.pc = "unlock", !.mem = mem])
  /\ DoctorOnly /\ History /\ UNCHANGED <<lock, tree>>

(* finally: the path is unlinked, whoever's lock is there.                 *)
DoctorUnlock(d) ==
  /\ doc[d].pc = "unlock"
  /\ lock' = Free
  /\ Leave(d)
  /\ DoctorOnly /\ History /\ UNCHANGED <<control, tree>>

(* An exception inside the try leaves through finally; a kill leaves the   *)
(* lock behind, as both do between its creation and its pid.               *)
DoctorCrash(d) ==
  /\ doc[d].pc # "idle"
  /\ crashes < MaxCrashes
  /\ crashes' = crashes + 1
  /\ \/ /\ doc[d].pc \in Inside
        /\ lock' \in {Free, IF lock = d THEN Dead ELSE lock}
     \/ /\ doc[d].pc \in Outside
        /\ lock' = IF lock = d THEN Blank ELSE lock
  /\ Leave(d)
  /\ Others /\ History /\ UNCHANGED <<control, tree, recovered, claims, commands, lapses>>

-----------------------------------------------------------------------------
(* The launcher's functions on the claim.  It reads the claim, looks at    *)
(* the lock and writes in separate steps.                                  *)
LauncherOnly ==
  History /\ UNCHANGED <<lock, raced, doc, clear, tree, recovered, crashes, commands, lapses>>

Launch(place, claim) == launch' = [pc |-> place, claim |-> claim]

(* An expired claim may be renewed, a soft one is cleared; without a claim *)
(* the launcher starts the loop, and reads the claim again while it        *)
(* watches it.  An active claim starts the Doctor.                         *)
LauncherRead ==
  LET c == control.claim IN
  /\ \/ /\ launch.pc = "idle" /\ Active(c) /\ c.lease # "live"
        /\ Launch("look", With(c, "repairing", c.attempt, "live"))
     \/ /\ launch.pc = "idle" /\ Soft(c)
        /\ Launch("clear", NoClaim)
     \/ /\ launch.pc = "idle" /\ c = NoClaim
        /\ Launch("create", NoClaim)
     \/ /\ launch.pc = "create" /\ Active(c)
        /\ Launch("idle", NoClaim)
  /\ LauncherOnly /\ UNCHANGED <<control, claims>>

(* Mutant: an expired claim is renewed under a living Doctor's feet.       *)
LauncherLookIgnores ==
  /\ launch.pc = "look"
  /\ launch' = [launch EXCEPT !.pc = "renew"]
  /\ LauncherOnly /\ UNCHANGED <<control, claims>>

(* _doctor_lock_is_active: a lock without a pid counts as none.            *)
LauncherLook ==
  /\ launch.pc = "look"
  /\ IF lock \in Doctors /\ HasPid(lock) THEN Launch("idle", NoClaim)
     ELSE launch' = [launch EXCEPT !.pc = "renew"]
  /\ LauncherOnly /\ UNCHANGED <<control, claims>>

(* _expire_stale_doctor_claim, the write.                                  *)
LauncherRenew ==
  /\ launch.pc = "renew"
  /\ Save(launch.claim)
  /\ Launch("idle", NoClaim)
  /\ LauncherOnly /\ UNCHANGED claims

(* _clear_released_doctor_claim, the write.                                *)
LauncherClear ==
  /\ launch.pc = "clear"
  /\ control' = [control EXCEPT !.claim = NoClaim]
  /\ Launch("idle", NoClaim)
  /\ LauncherOnly /\ UNCHANGED claims

(* create_doctor_claim, for a failed or stalled run of the loop.           *)
LauncherCreate ==
  /\ launch.pc = "create"
  /\ claims < MaxClaims
  /\ claims' = claims + 1
  /\ \E class \in Classes :
       control' = [control EXCEPT !.claim =
         [id |-> claims', status |-> "claimed",
          attempt |-> IF @ = NoClaim THEN 1 ELSE @.attempt + 1,
          lease |-> "live", class |-> class]]
  /\ Launch("idle", NoClaim)
  /\ LauncherOnly

(* The launcher ends, or its loop does, and it begins again.               *)
LauncherRestart ==
  /\ launch.pc # "idle"
  /\ Launch("idle", NoClaim)
  /\ LauncherOnly /\ UNCHANGED <<control, claims>>

-----------------------------------------------------------------------------
(* The operator, and time.                                                 *)

(* pause, stop and resume write a new payload, without a doctor_claim.     *)
Operate(mode) ==
  /\ commands < MaxCommands
  /\ commands' = commands + 1
  /\ control' = [mode |-> mode, claim |-> NoClaim]
  /\ History /\ Others /\ UNCHANGED <<lock, doc, tree, recovered, claims, crashes, lapses>>

(* clear_terminal_claim reads the mode, looks at the lock, reads the claim *)
(* and writes.                                                             *)
ClearLook ==
  /\ clear.pc = "idle"
  /\ commands < MaxCommands
  /\ commands' = commands + 1
  /\ lock = Free
  /\ clear' = [pc |-> "read", mode |-> control.mode]
  /\ History /\ UNCHANGED <<control, lock, raced, doc, launch, tree, recovered, claims, crashes,
                           lapses>>

ClearRead ==
  /\ clear.pc = "read"
  /\ clear' = [clear EXCEPT !.pc =
       IF Terminal(control.claim) \/ (control.claim = NoClaim /\ clear.mode = "running")
       THEN "write" ELSE "idle"]
  /\ History /\ UNCHANGED <<control, lock, raced, doc, launch, tree, recovered, claims, crashes,
                           commands, lapses>>

ClearTerminal ==
  /\ clear.pc = "write"
  /\ control' = [mode |-> clear.mode, claim |-> NoClaim]
  /\ clear' = [clear EXCEPT !.pc = "idle"]
  /\ History /\ UNCHANGED <<lock, raced, doc, launch, tree, recovered, claims, crashes, commands,
                           lapses>>

Older(lease) == IF lease = "live" THEN "expired" ELSE "stale"

(* The copies of a claim that carry the same deadline grow old together.   *)
LeasePass ==
  LET c == control.claim
      Same(m) == m # NoClaim /\ m.id = c.id /\ m.lease = c.lease
  IN
  /\ Active(c) /\ c.lease # "stale"
  /\ lapses < MaxLapses
  /\ lapses' = lapses + 1
  /\ control' = [control EXCEPT !.claim.lease = Older(@)]
  /\ doc' = [d \in Doctors |-> IF Same(doc[d].mem)
                               THEN [doc[d] EXCEPT !.mem.lease = Older(@)] ELSE doc[d]]
  /\ Others /\ History /\ UNCHANGED <<lock, tree, recovered, claims, crashes, commands>>

-----------------------------------------------------------------------------
DoctorStep(d) ==
  \/ DoctorCreate(d) \/ DoctorCreateFails(d) \/ DoctorWritePid(d) \/ DoctorReadPid(d)
  \/ DoctorJudge(d) \/ DoctorUnlink(d) \/ DoctorRecover(d) \/ DoctorOwn(d)
  \/ DoctorEnter(d) \/ DoctorAttempt(d) \/ DoctorRepair(d) \/ DoctorReview(d)
  \/ DoctorVerdict(d) \/ DoctorGate(d) \/ DoctorPublish(d) \/ DoctorCommit(d)
  \/ DoctorPush(d) \/ DoctorPr(d) \/ DoctorRetry(d) \/ DoctorSettle(d)
  \/ DoctorMerge(d) \/ DoctorNoMerge(d) \/ DoctorFinish(d) \/ DoctorUnlock(d)

Next ==
  \/ \E d \in Doctors : DoctorStart(d) \/ DoctorStep(d) \/ DoctorCrash(d)
  \/ LauncherRead \/ LauncherLook \/ LauncherRenew \/ LauncherClear \/ LauncherCreate
  \/ LauncherRestart
  \/ \E mode \in Modes : Operate(mode)
  \/ ClearLook \/ ClearRead \/ ClearTerminal
  \/ LeasePass

Spec == Init /\ [][Next]_vars

(* A Doctor that was started goes on: it is one sequential process, and    *)
(* the subprocesses it waits for have a time limit or end by themselves.   *)
FairSpec == Spec /\ \A d \in Doctors : WF_vars(DoctorStep(d))

-----------------------------------------------------------------------------
Verdicts == AllReviews \cup {"none", "override"}

(* The type invariant.                                                     *)
TypeOK ==
  /\ control \in [mode : Modes, claim : Claim \cup {NoClaim}]
  /\ lock \in Doctors \cup {Free, Dead, Blank} /\ raced \in BOOLEAN
  /\ launch \in [pc : Writing \cup {"idle", "look"}, claim : Claim \cup {NoClaim}]
  /\ clear \in [pc : {"idle", "read", "write"}, mode : Modes]
  /\ doc \in [Doctors ->
       [pc : Inside \cup Outside, saw : Doctors \cup {Free, Dead}, late : BOOLEAN, mem : Claim \cup {NoClaim},
        skip : {"none", "operator", "notfailed", "repeated", "budget", "cleanup"},
        class : AllClasses, attempt : Nat, resume : BOOLEAN, repairOk : BOOLEAN,
        changed : BOOLEAN, review : AllReviews \cup {"none"}, reviewOk : BOOLEAN,
        gatesOk : BOOLEAN, done : SUBSET Steps, merged : BOOLEAN,
        strategy : Strategies \cup {"none"}, repeated : BOOLEAN,
        history : SUBSET (Strategies \X AllReviews), rejected : SUBSET Strategies]]
  /\ tree \in [diff : {"absent", "clean", "evidence", "repair"}, verdict : Verdicts,
               gated : BOOLEAN, unpushed : BOOLEAN]
  /\ commits \subseteq [verdict : Verdicts, gated : BOOLEAN, rejected : BOOLEAN]
  /\ prs \subseteq Nat
  /\ passes \in [1 .. MaxClaims -> Nat]
  /\ recovered \subseteq Nat
  /\ claims \in 0 .. MaxClaims /\ crashes \in 0 .. MaxCrashes /\ commands \in 0 .. MaxCommands
  /\ lapses \in 0 .. MaxLapses

OneDoctorAtATime ==
  \A d, e \in Doctors : doc[d].pc \in Inside /\ doc[e].pc \in Inside => d = e

(* Every diff the Doctor commits was, as it is committed, accepted by a    *)
(* cross-review (or by the P1 override) and by the gates, and its strategy *)
(* was not rejected in this run: whatever attempts, crashes and resumed    *)
(* worktrees came before (the attempt loop of repair_latest).              *)
CommitsReviewed ==
  \A c \in commits : c.verdict \in {"pass", "notes", "override"} /\ c.gated /\ ~c.rejected

(* Two runs of repair-latest are not both past acquire_lock, unless one of *)
(* them unlinked, as left behind, another lock than the one it had judged  *)
(* (_remove_stale_lock_if_dead): no other order of starts, ends, crashes   *)
(* and cleanups lets two in.                                               *)
OneDoctorInside == ~raced => OneDoctorAtATime

(* A claim of a patchable failure that ends as released had its pull       *)
(* request opened, unless the run was told to leave a step out.            *)
ReleasedIsPublished ==
  Skipped = {} /\ control.claim # NoClaim /\ control.claim.class \in Patchable
    /\ control.claim.status = "released" => control.claim.id \in prs

(* A run that ends on a P0 or a hard-risk P1 does not leave a status after *)
(* which the launcher starts the loop again.                               *)
HardStopHolds ==
  \A d \in Doctors : doc[d].pc = "unlock" /\ Soft(doc[d].mem)
                     => doc[d].review \notin {"p0", "hard"}

(* Until the operator writes, control.json holds exactly the claim that a  *)
(* Doctor at work remembers, still active, unless the launcher was already *)
(* about to write when the Doctor took the claim over, or a cleanup let    *)
(* two Doctors in: neither the recovery of stale claims nor a renewal, a   *)
(* clearing, a restart, another Doctor or a crash sets them apart          *)
(* (_expire_stale_doctor_claim, recover_stale_state).                      *)
Holding == Inside \ {"recover", "own", "unlock"}

ClaimHeld ==
  ~raced /\ commands = 0 =>
    \A d \in Doctors :
      doc[d].pc \in Holding /\ doc[d].mem # NoClaim /\ ~doc[d].late
        => control.claim = doc[d].mem /\ Active(control.claim)

(* Every run of repair-latest ends and gives up the lock it took.          *)
DoctorEnds == \A d \in Doctors : doc[d].pc # "idle" ~> doc[d].pc = "idle"

-----------------------------------------------------------------------------
(* What the documents say and the code does not do.  OneDoctorAtATime is   *)
(* another: acquire_lock is meant to keep a second repair-latest out.      *)

(* CHANGELOG.md: what is renewed is an expired claim nobody works on.      *)
RenewalSpares ==
  [][\A d \in Doctors :
       doc[d].pc \in Holding /\ doc[d].mem # NoClaim /\ launch.pc = "renew" /\ launch'.pc = "idle"
         => control'.claim = control.claim]_vars

(* HARNESS.md: the passes under one active claim are at most Budget.       *)
PassesBounded == \A i \in DOMAIN passes : passes[i] <= Budget

(* AUTONOMY.md: the same failure goes on with the same budget.             *)
BudgetPerIncident ==
  LET Sum[i \in 0 .. MaxClaims] == IF i = 0 THEN 0 ELSE Sum[i - 1] + passes[i]
  IN  Sum[MaxClaims] <= Budget

(* AUTONOMY.md: a failed merge is a publish retry or a closed failure.     *)
UnmergedIsNotReleased ==
  \A d \in Doctors : doc[d].pc = "unlock" /\ doc[d].mem # NoClaim /\ AutoMerge
                       /\ doc[d].mem.status = "released" /\ doc[d].class \in Patchable
                     => doc[d].merged

(* AUTONOMY.md: a failed push is a publish retry or a closed failure, not  *)
(* a soft escalation that forgets the commit.                              *)
NoForgottenCommit ==
  \A d \in Doctors : doc[d].pc = "unlock" /\ Soft(doc[d].mem) => ~tree.unpushed

(* HARNESS.md: secret, environment, destructive and security failures are  *)
(* a hard stop.                                                            *)
HardClassStops ==
  control.claim # NoClaim /\ control.claim.class = "hard-manual" => ~Soft(control.claim)
=============================================================================
