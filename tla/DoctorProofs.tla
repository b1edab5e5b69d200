---------------------------- MODULE DoctorProofs ----------------------------
(***************************************************************************)
(* Proofs about repair-latest, for every set of Doctors, every budget,     *)
(* every set of classes, strategies and verdicts, and any number of        *)
(* claims, crashes and commands.                                           *)
(***************************************************************************)
EXTENDS Doctor, TLAPS

-----------------------------------------------------------------------------
(* The types of TypeOK, by name.                                           *)

Statuses  == ActiveStatus \cup SoftStatus \cup HardStatus
MayClaim  == Claim \cup {NoClaim}
Controls  == [mode : Modes, claim : MayClaim]
Places    == Inside \cup Outside
Skips     == {"none", "operator", "notfailed", "repeated", "budget", "cleanup"}
Locals    == [pc : Places, saw : Doctors \cup {Free, Dead}, late : BOOLEAN, mem : MayClaim, skip : Skips, class : AllClasses,
              attempt : Nat, resume : BOOLEAN, repairOk : BOOLEAN,
              changed : BOOLEAN, review : AllReviews \cup {"none"}, reviewOk : BOOLEAN,
              gatesOk : BOOLEAN, done : SUBSET Steps, merged : BOOLEAN,
              strategy : Strategies \cup {"none"}, repeated : BOOLEAN,
              history : SUBSET (Strategies \X AllReviews), rejected : SUBSET Strategies]
Diffs     == {"absent", "clean", "evidence", "repair"}
Trees     == [diff : Diffs, verdict : Verdicts, gated : BOOLEAN, unpushed : BOOLEAN]
Commits   == [verdict : Verdicts, gated : BOOLEAN, rejected : BOOLEAN]

Launches  == [pc : Writing \cup {"idle", "look"}, claim : MayClaim]
Clears    == [pc : {"idle", "read", "write"}, mode : Modes]

Typed == /\ control \in Controls /\ doc \in [Doctors -> Locals] /\ tree \in Trees
         /\ launch \in Launches /\ clear \in Clears /\ raced \in BOOLEAN

Counted ==
  /\ lock \in Doctors \cup {Free, Dead, Blank}
  /\ commits \subseteq Commits
  /\ prs \subseteq Nat
  /\ passes \in [1 .. MaxClaims -> Nat]
  /\ recovered \subseteq Nat
  /\ claims \in 0 .. MaxClaims /\ crashes \in 0 .. MaxCrashes /\ commands \in 0 .. MaxCommands
  /\ lapses \in 0 .. MaxLapses

LEMMA TypedCounted == TypeOK <=> Typed /\ Counted
BY DEF TypeOK, Typed, Counted, Controls, Places, Skips, Locals, Diffs, Trees, Commits, MayClaim,
       Launches, Clears

LEMMA Names ==
  /\ Statuses = {"claimed", "repairing", "publishing", "released", "auto-escalate",
                 "manual-review", "paused"}
  /\ Leases = {"live", "expired", "stale"}
  /\ AllClasses = {"patchable", "transient", "hard-manual", "soft-manual"}
  /\ Inside \subseteq Places /\ Outside \subseteq Places
  /\ "idle" \in Places /\ "lock" \in Places
BY DEF Statuses, ActiveStatus, SoftStatus, HardStatus, Leases, AllClasses, Patchable, Places,
       Inside, Outside

LEMMA ClaimType == Claim = [id : Nat, status : Statuses, attempt : Nat, lease : Leases, class : AllClasses]
BY DEF Claim, Statuses

-----------------------------------------------------------------------------
(* The helpers keep the types.                                             *)

LEMMA WithType ==
  ASSUME NEW c \in MayClaim, NEW s \in Statuses, NEW n \in Nat, NEW l \in Leases
  PROVE  /\ With(c, s, n, l) \in MayClaim
         /\ c # NoClaim => [c EXCEPT !.status = s] \in MayClaim
BY ClaimType DEF With, MayClaim

LEMMA SaveType ==
  ASSUME control \in Controls, NEW c \in MayClaim, Save(c)
  PROVE  control' \in Controls
BY DEF Save, Controls

LEMMA BecomeType ==
  ASSUME doc \in [Doctors -> Locals], NEW d \in Doctors, NEW r \in Locals, Become(d, r)
  PROVE  doc' \in [Doctors -> Locals] /\ doc'[d] = r /\ \A e \in Doctors \ {d} : doc'[e] = doc[e]
BY DEF Become

LEMMA FreshType == Fresh \in Locals /\ Fresh.pc = "idle"
BY Names DEF Fresh, Locals, MayClaim, Skips, AllReviews, Steps

LEMMA MoveType ==
  ASSUME NEW me \in Locals, NEW pc \in Places
  PROVE  [me EXCEPT !.pc = pc] \in Locals /\ [me EXCEPT !.pc = pc].pc = pc
BY DEF Locals

LEMMA ClaimOf ==
  ASSUME control \in Controls
  PROVE  control.claim \in MayClaim
BY DEF Controls

(* Read leaves a typed record at the place it is told.                     *)
LEMMA ReadType ==
  ASSUME doc \in [Doctors -> Locals], NEW d \in Doctors, NEW claim \in MayClaim,
         NEW next \in Places, Read(d, claim, next)
  PROVE  /\ doc' \in [Doctors -> Locals] /\ doc'[d].pc = next
         /\ \A e \in Doctors \ {d} : doc'[e] = doc[e]
<1> DEFINE mine == ~Blocked /\ Active(claim)
<1>1. mine => claim \in Claim
  BY Zenon DEF Active, MayClaim
<1>2. PICK class \in IF mine THEN {claim.class} ELSE Classes, skip \in Skips :
        Become(d, [doc[d] EXCEPT !.pc = next, !.skip = skip, !.class = class,
                                 !.mem = IF mine THEN claim ELSE NoClaim,
                                 !.attempt = IF mine THEN claim.attempt ELSE 1])
  BY Zenon DEF Read, Skips
<1>3. class \in AllClasses /\ skip \in Skips /\ doc[d] \in Locals
  BY <1>1, <1>2, ClaimType, DoctorAssumption DEF DoctorAssumption
<1>4. (IF mine THEN claim ELSE NoClaim) \in MayClaim /\ (IF mine THEN claim.attempt ELSE 1) \in Nat
  BY <1>1, ClaimType DEF MayClaim
<1> DEFINE m == IF mine THEN claim ELSE NoClaim
           n == IF mine THEN claim.attempt ELSE 1
           r == [doc[d] EXCEPT !.pc = next, !.skip = skip, !.class = class, !.mem = m, !.attempt = n]
<1>5. Become(d, r) /\ m \in MayClaim /\ n \in Nat
  BY <1>2, <1>4
<1> HIDE DEF m, n, mine
<1>6. r \in Locals /\ r.pc = next
  BY <1>3, <1>5 DEF Locals
<1> HIDE DEF r
<1> QED
  BY <1>5, <1>6, BecomeType

-----------------------------------------------------------------------------
(* The inductive invariant.  Until a Doctor unlinks a lock that it did not *)
(* judge, a Doctor past acquire_lock holds the lock, so the worktree it    *)
(* works on changes by its own hand only; and what it needs to commit      *)
(* holds from the step that establishes it to the commit.                  *)

Judged == {"review", "reviewing", "gate", "publish", "commit"}
Accepted == {"pass", "notes", "override"}
Locked == Inside \cup {"write"}

Chosen(d) == doc[d].pc \in Judged => doc[d].strategy \in Strategies \ doc[d].rejected

(* A lock with the name of a Doctor is that of one past its creation.      *)
Owned(d) == lock = d => doc[d].pc \in Locked

Held(d) == doc[d].pc \in Locked => lock = d

Reviewed(d) ==
  /\ doc[d].pc \in {"gate", "publish", "commit"} => tree.verdict \in Accepted
  /\ doc[d].pc \in {"publish", "commit"} => tree.gated

Guarded == (\A d \in Doctors : Held(d) /\ Reviewed(d)) /\ CommitsReviewed

Safe == (\A d \in Doctors : Chosen(d) /\ Owned(d)) /\ (~raced => Guarded)

Inv == Typed /\ Counted /\ Safe

(* What a step of d leaves of another Doctor's record, whose saw changes   *)
(* when d ends.                                                            *)
Unmoved(e) ==
  /\ doc'[e].pc = doc[e].pc /\ doc'[e].strategy = doc[e].strategy
  /\ doc'[e].rejected = doc[e].rejected

(* While d holds the lock no other Doctor does, so whatever d does the     *)
(* others are safe after it.                                               *)
LEMMA OthersAreSafe ==
  ASSUME Typed, Safe, NEW d \in Doctors, doc[d].pc \in Locked, lock' = lock,
         \A e \in Doctors \ {d} : Unmoved(e)
  PROVE  \A e \in Doctors \ {d} : Chosen(e)' /\ Owned(e)' /\ (~raced => Held(e)' /\ Reviewed(e)')
<1> TAKE e \in Doctors \ {d}
<1>1. Chosen(e)' /\ Owned(e)'
  BY DEF Safe, Chosen, Owned, Unmoved
<1>2. ASSUME ~raced PROVE Held(e)' /\ Reviewed(e)'
  <2>1. doc'[e].pc \notin Locked
    BY <1>2 DEF Safe, Guarded, Held, Unmoved
  <2> QED
    BY <2>1 DEF Held, Reviewed, Locked, Inside
<1> QED
  BY <1>1, <1>2

(* A step of d under the lock, after which it is not about to review,      *)
(* gate or commit, keeps Safe when it commits nothing.                     *)
LEMMA LockedStepIsSafe ==
  ASSUME Typed, Safe, NEW d \in Doctors, doc[d].pc \in Locked, NEW r \in Locals, Become(d, r),
         r.pc \in Locked \ Judged, lock' = lock, raced' = raced, commits' = commits
  PROVE  Safe'
<1>1. doc'[d] = r /\ \A e \in Doctors \ {d} : doc'[e] = doc[e]
  BY BecomeType DEF Typed
<1>2. \A e \in Doctors \ {d} : Chosen(e)' /\ Owned(e)' /\ (~raced => Held(e)' /\ Reviewed(e)')
  BY <1>1, OthersAreSafe DEF Unmoved
<1>3. Chosen(d)' /\ Owned(d)' /\ (~raced => Held(d)' /\ Reviewed(d)')
  BY <1>1 DEF Safe, Guarded, Held, Chosen, Owned, Reviewed, Judged
<1> QED
  BY <1>2, <1>3 DEF Safe, Guarded, CommitsReviewed

LEMMA StepIsSafe ==
  ASSUME Typed, Safe, NEW d \in Doctors, doc[d].pc \in Inside, NEW r \in Locals, Become(d, r),
         r.pc \in Inside \ Judged, lock' = lock, DoctorOnly, commits' = commits
  PROVE  Safe'
BY LockedStepIsSafe DEF Locked, DoctorOnly, Others

(* The same when d is among the places that Judged lists.                  *)
LEMMA JudgedStepIsSafe ==
  ASSUME Typed, Safe, NEW d \in Doctors, doc[d].pc \in Inside, NEW r \in Locals, Become(d, r),
         r.pc \in Inside, lock' = lock, DoctorOnly, commits' = commits,
         r.strategy \in Strategies \ r.rejected,
         ~raced /\ r.pc \in {"gate", "publish", "commit"} => tree'.verdict \in Accepted,
         ~raced /\ r.pc \in {"publish", "commit"} => tree'.gated
  PROVE  Safe'
<1>1. doc'[d] = r /\ \A e \in Doctors \ {d} : doc'[e] = doc[e]
  BY BecomeType DEF Typed
<1>2. \A e \in Doctors \ {d} : Chosen(e)' /\ Owned(e)' /\ (~raced => Held(e)' /\ Reviewed(e)')
  BY <1>1, OthersAreSafe DEF Unmoved, Locked
<1>3. Chosen(d)' /\ Owned(d)' /\ (~raced => Held(d)' /\ Reviewed(d)')
  BY <1>1 DEF Safe, Guarded, Held, Chosen, Owned, Reviewed, Locked
<1> QED
  BY <1>2, <1>3 DEF Safe, Guarded, CommitsReviewed, DoctorOnly, Others

(* Steps that leave the lock, the tree, the commits and the places alone.  *)
LEMMA QuietIsSafe ==
  ASSUME Safe, lock' = lock, raced' = raced, tree' = tree, commits' = commits,
         \A d \in Doctors : Unmoved(d)
  PROVE  Safe'
BY DEF Safe, Guarded, Held, Chosen, Owned, Reviewed, CommitsReviewed, Unmoved

(* A step of d from one place outside the lock to another.                 *)
LEMMA OutsideIsSafe ==
  ASSUME Safe, NEW d \in Doctors, doc'[d].pc \notin Locked, \A e \in Doctors \ {d} : Unmoved(e),
         raced' = raced, tree' = tree, commits' = commits,
         lock' # d, \A e \in Doctors \ {d} : lock' = e => lock = e,
         \A e \in Doctors \ {d} : ~raced /\ doc[e].pc \in Locked => lock' = lock
  PROVE  Safe'
<1>1. Chosen(d)' /\ Owned(d)' /\ Held(d)' /\ Reviewed(d)'
  BY DEF Chosen, Owned, Held, Reviewed, Judged, Locked, Inside
<1>2. ASSUME NEW e \in Doctors \ {d}
      PROVE  Chosen(e)' /\ Owned(e)' /\ (~raced => Held(e)' /\ Reviewed(e)')
  BY <1>2 DEF Safe, Guarded, Chosen, Owned, Held, Reviewed, Unmoved, Locked, Inside
<1> QED
  BY <1>1, <1>2 DEF Safe, Guarded, CommitsReviewed

-----------------------------------------------------------------------------
(* Every action of a Doctor keeps the invariant.                           *)

LEMMA DoctorStartKeeps ==
  ASSUME Inv, NEW d \in Doctors, DoctorStart(d)
  PROVE  Inv'
<1>1. control.claim \in MayClaim /\ doc \in [Doctors -> Locals] /\ "lock" \in Places
  BY ClaimOf, Names DEF Inv, Typed
<1>2. /\ doc' \in [Doctors -> Locals] /\ doc'[d].pc = "lock"
      /\ \A e \in Doctors \ {d} : doc'[e] = doc[e]
  BY <1>1, ReadType DEF DoctorStart
<1>3. UNCHANGED <<control, lock, tree, commits>> /\ DoctorOnly /\ History
  BY DEF DoctorStart, History
<1>4. Typed' /\ Counted'
  BY <1>2, <1>3 DEF Inv, Typed, Counted, DoctorOnly, Others, History
<1>5. doc[d].pc \notin Locked /\ lock # d
  BY DEF Inv, Safe, Owned, DoctorStart, Locked, Inside
<1>6. Safe'
  BY <1>2, <1>3, <1>5, OutsideIsSafe DEF Inv, Unmoved, Locked, Inside, DoctorOnly, Others
<1> QED
  BY <1>4, <1>6 DEF Inv

(* A step outside the lock.                                                *)
LEMMA OutsideKeeps ==
  ASSUME Inv, NEW d \in Doctors, doc[d].pc \in Outside \ {"write"},
         NEW r \in Locals, r.pc \in Outside \ {"write"}, Become(d, r), DoctorOnly, History, UNCHANGED <<control, lock, tree>>
  PROVE  Inv'
<1>1. doc' \in [Doctors -> Locals] /\ doc'[d] = r /\ \A e \in Doctors \ {d} : doc'[e] = doc[e]
  BY BecomeType DEF Inv, Typed
<1>2. Typed' /\ Counted'
  BY <1>1 DEF Inv, Typed, Counted, DoctorOnly, Others, History
<1>3. r.pc \notin Locked /\ lock # d
  BY DEF Outside, Locked, Inside, Inv, Safe, Owned
<1>4. Safe'
  BY <1>1, <1>3, OutsideIsSafe DEF Inv, Unmoved, DoctorOnly, Others, History
<1> QED
  BY <1>2, <1>4 DEF Inv

LEMMA DoctorCreateFailsKeeps ==
  ASSUME Inv, NEW d \in Doctors, DoctorCreateFails(d)
  PROVE  Inv'
<1> DEFINE r == IF doc[d].pc = "lock" THEN [doc[d] EXCEPT !.pc = "read"] ELSE Fresh
<1>1. r \in Locals /\ r.pc \in Outside \ {"write"}
  <2>1. doc[d] \in Locals /\ "read" \in Places
    BY DEF Inv, Typed, Places, Outside
  <2>2. [doc[d] EXCEPT !.pc = "read"] \in Locals /\ [doc[d] EXCEPT !.pc = "read"].pc = "read"
    BY <2>1, MoveType
  <2> QED
    BY <2>2, FreshType DEF Outside
<1>2. Become(d, r) /\ DoctorOnly /\ History /\ UNCHANGED <<control, lock, tree>>
      /\ doc[d].pc \in Outside \ {"write"}
  BY DEF DoctorCreateFails, Outside
<1> HIDE DEF r
<1> QED
  BY <1>1, <1>2, OutsideKeeps

LEMMA DoctorReadPidKeeps ==
  ASSUME Inv, NEW d \in Doctors, DoctorReadPid(d)
  PROVE  Inv'
<1> DEFINE r == IF HasPid(lock) THEN [doc[d] EXCEPT !.pc = "judge", !.saw = lock] ELSE Fresh
<1>1. r \in Locals /\ r.pc \in Outside \ {"write"}
  <2>1. doc[d] \in Locals /\ "judge" \in Places
    BY DEF Inv, Typed, Places, Outside
  <2>2. CASE HasPid(lock)
    <3>1. lock \in Doctors \cup {Free, Dead}
      BY <2>2 DEF HasPid
    <3>2. [doc[d] EXCEPT !.pc = "judge", !.saw = lock] \in Locals
          /\ [doc[d] EXCEPT !.pc = "judge", !.saw = lock].pc = "judge"
      BY <2>1, <3>1 DEF Locals
    <3> QED
      BY <2>2, <3>2 DEF Outside
  <2> QED
    BY <2>2, FreshType DEF Outside
<1>2. Become(d, r) /\ DoctorOnly /\ History /\ UNCHANGED <<control, lock, tree>>
      /\ doc[d].pc \in Outside \ {"write"}
  BY DEF DoctorReadPid, Outside
<1> HIDE DEF r
<1> QED
  BY <1>1, <1>2, OutsideKeeps

LEMMA DoctorJudgeKeeps ==
  ASSUME Inv, NEW d \in Doctors, DoctorJudge(d)
  PROVE  Inv'
<1> DEFINE r == IF doc[d].saw = Dead THEN [doc[d] EXCEPT !.pc = "unlink"] ELSE Fresh
<1>1. r \in Locals /\ r.pc \in Outside \ {"write"}
  <2>1. doc[d] \in Locals /\ "unlink" \in Places
    BY DEF Inv, Typed, Places, Outside
  <2>2. [doc[d] EXCEPT !.pc = "unlink"] \in Locals /\ [doc[d] EXCEPT !.pc = "unlink"].pc = "unlink"
    BY <2>1, MoveType
  <2> QED
    BY <2>2, FreshType DEF Outside
<1>2. Become(d, r) /\ DoctorOnly /\ History /\ UNCHANGED <<control, lock, tree>>
      /\ doc[d].pc \in Outside \ {"write"}
  BY DEF DoctorJudge, Outside
<1> HIDE DEF r
<1> QED
  BY <1>1, <1>2, OutsideKeeps

(* Nobody holds a lock that is free, and until the race nobody holds the   *)
(* lock of one that is gone.                                               *)
LEMMA DoctorUnlinkKeeps ==
  ASSUME Inv, NEW d \in Doctors, DoctorUnlink(d)
  PROVE  Inv'
<1> DEFINE r == [doc[d] EXCEPT !.pc = "again", !.saw = Free]
<1>1. Become(d, r) /\ lock' = Free /\ raced' = (raced \/ lock \notin {Free, Dead})
      /\ UNCHANGED <<control, tree, launch, clear, recovered, claims, crashes, commands, lapses>>
      /\ History
  BY DEF DoctorUnlink
<1>2. doc[d] \in Locals /\ "again" \in Places
  BY DEF Inv, Typed, Places, Outside
<1>3. r \in Locals /\ r.pc = "again"
  BY <1>2 DEF Locals
<1> HIDE DEF r
<1>4. doc' \in [Doctors -> Locals] /\ doc'[d] = r /\ \A e \in Doctors \ {d} : doc'[e] = doc[e]
  BY <1>1, <1>3, BecomeType DEF Inv, Typed
<1>5. Typed' /\ Counted'
  BY <1>1, <1>4 DEF Inv, Typed, Counted, History
<1>6. \A e \in Doctors : Chosen(e)' /\ Owned(e)'
  BY <1>1, <1>3, <1>4, DoctorAssumption DEF DoctorAssumption, Inv, Safe, Chosen, Owned, Judged
<1>7. ASSUME ~raced' PROVE Guarded'
  <2>1. ~raced /\ lock \in {Free, Dead}
    BY <1>1, <1>7
  <2>2. \A e \in Doctors : doc[e].pc \notin Locked
    BY <2>1, DoctorAssumption DEF DoctorAssumption, Inv, Safe, Guarded, Held
  <2>3. \A e \in Doctors : doc'[e].pc \notin Locked
    BY <1>3, <1>4, <2>2 DEF Locked, Inside
  <2>4. \A e \in Doctors : Held(e)' /\ Reviewed(e)'
    BY <2>3 DEF Held, Reviewed, Locked, Inside
  <2> QED
    BY <1>1, <2>1, <2>4 DEF Guarded, CommitsReviewed, Inv, Safe, History
<1> QED
  BY <1>5, <1>6, <1>7 DEF Inv, Safe

LEMMA DoctorCreateKeeps ==
  ASSUME Inv, NEW d \in Doctors, DoctorCreate(d)
  PROVE  Inv'
<1> DEFINE r == [doc[d] EXCEPT !.pc = "write"]
<1>1. r \in Locals /\ r.pc = "write"
  BY MoveType DEF Inv, Typed, Places, Outside
<1>2. doc' \in [Doctors -> Locals] /\ doc'[d] = r /\ \A e \in Doctors \ {d} : doc'[e] = doc[e]
  BY <1>1, BecomeType DEF DoctorCreate, Inv, Typed
<1>3. Typed' /\ Counted'
  BY <1>2 DEF Inv, Typed, Counted, DoctorCreate, DoctorOnly, Others, History
<1> HIDE DEF r
<1>4. Chosen(d)' /\ Owned(d)' /\ Held(d)' /\ Reviewed(d)'
  BY <1>1, <1>2 DEF Chosen, Owned, Held, Reviewed, Judged, Locked, DoctorCreate
<1>5. ASSUME NEW e \in Doctors \ {d}
      PROVE  Chosen(e)' /\ Owned(e)' /\ (~raced => Held(e)' /\ Reviewed(e)')
  <2>1. Chosen(e)' /\ Owned(e)'
    BY <1>2 DEF Inv, Safe, Chosen, Owned, DoctorCreate
  <2>2. ASSUME ~raced PROVE Held(e)' /\ Reviewed(e)'
    <3>1. doc[e].pc \notin Locked
      BY <2>2, DoctorAssumption DEF DoctorAssumption, Inv, Safe, Guarded, Held, DoctorCreate
    <3> QED
      BY <1>2, <3>1 DEF Held, Reviewed, Locked, Inside
  <2> QED
    BY <2>1, <2>2
<1>6. UNCHANGED <<raced, commits>>
  BY DEF DoctorCreate, DoctorOnly, Others, History
<1> QED
  BY <1>3, <1>4, <1>5, <1>6 DEF Inv, Safe, Guarded, CommitsReviewed

(* d ends: what the others do does not change.                             *)
LEMMA LeaveType ==
  ASSUME doc \in [Doctors -> Locals], NEW d \in Doctors, Leave(d)
  PROVE  /\ doc' \in [Doctors -> Locals] /\ doc'[d] = Fresh
         /\ \A e \in Doctors \ {d} : doc'[e] = [doc[e] EXCEPT !.saw = doc'[e].saw] /\ Unmoved(e)
<1>1. ASSUME NEW e \in Doctors
      PROVE  [doc[e] EXCEPT !.saw = Dead] \in Locals /\ doc[e] = [doc[e] EXCEPT !.saw = doc[e].saw]
             /\ [doc[e] EXCEPT !.saw = Dead].saw = Dead
  BY DEF Locals
<1>2. doc' \in [Doctors -> Locals] /\ doc'[d] = Fresh
  BY <1>1, FreshType DEF Leave
<1>3. ASSUME NEW e \in Doctors \ {d}
      PROVE  doc'[e] = [doc[e] EXCEPT !.saw = doc'[e].saw] /\ Unmoved(e)
  <2>1. doc'[e] \in {doc[e], [doc[e] EXCEPT !.saw = Dead]}
    BY DEF Leave
  <2>2. doc'[e] = [doc[e] EXCEPT !.saw = doc'[e].saw]
    BY <1>1, <2>1
  <2> QED
    BY <2>1, <2>2 DEF Unmoved, Locals
<1> QED
  BY <1>2, <1>3

LEMMA DoctorUnlockKeeps ==
  ASSUME Inv, NEW d \in Doctors, DoctorUnlock(d)
  PROVE  Inv'
<1>1. doc' \in [Doctors -> Locals] /\ doc'[d] = Fresh /\ \A e \in Doctors \ {d} : Unmoved(e)
  BY LeaveType DEF DoctorUnlock, Inv, Typed
<1>2. Typed' /\ Counted'
  BY <1>1 DEF Inv, Typed, Counted, DoctorUnlock, DoctorOnly, Others, History
<1>3. doc'[d].pc \notin Locked /\ doc[d].pc \in Locked
  BY <1>1, FreshType DEF DoctorUnlock, Locked, Inside
<1>4. \A e \in Doctors \ {d} : ~raced => doc[e].pc \notin Locked
  BY <1>3 DEF Inv, Safe, Guarded, Held
<1>5. lock' = Free /\ Free \notin Doctors
  BY DoctorAssumption DEF DoctorAssumption, DoctorUnlock
<1>6. Safe'
  BY <1>1, <1>3, <1>4, <1>5, OutsideIsSafe DEF Inv, DoctorUnlock, DoctorOnly, Others, History
<1> QED
  BY <1>2, <1>6 DEF Inv

LEMMA DoctorCrashKeeps ==
  ASSUME Inv, NEW d \in Doctors, DoctorCrash(d)
  PROVE  Inv'
<1>1. doc' \in [Doctors -> Locals] /\ doc'[d] = Fresh /\ \A e \in Doctors \ {d} : Unmoved(e)
  BY LeaveType DEF DoctorCrash, Inv, Typed
<1>2. crashes' \in 0 .. MaxCrashes /\ lock' \in Doctors \cup {Free, Dead, Blank}
  BY DoctorAssumption DEF DoctorAssumption, DoctorCrash, Inv, Counted
<1>3. UNCHANGED <<control, tree, commits, prs, passes, recovered, claims, commands, lapses,
                  raced, launch, clear>>
  BY DEF DoctorCrash, Others, History
<1>4. Typed' /\ Counted'
  BY <1>1, <1>2, <1>3 DEF Inv, Typed, Counted
<1>5. doc'[d].pc \notin Locked
  BY <1>1, FreshType DEF Locked, Inside
<1>6. ASSUME NEW e \in Doctors \ {d}, ~raced, doc[e].pc \in Locked PROVE lock' = lock
  <2>1. lock = e /\ doc[d].pc \notin Inside
    BY <1>6 DEF Inv, Safe, Guarded, Held, Locked
  <2> QED
    BY <1>6, <2>1 DEF DoctorCrash
<1>7. lock' # d /\ \A e \in Doctors \ {d} : lock' = e => lock = e
  BY DoctorAssumption DEF DoctorAssumption, DoctorCrash
<1>8. Safe'
  BY <1>1, <1>3, <1>5, <1>6, <1>7, OutsideIsSafe DEF Inv
<1> QED
  BY <1>4, <1>8 DEF Inv

LEMMA DoctorRecoverKeeps ==
  ASSUME Inv, NEW d \in Doctors, DoctorRecover(d)
  PROVE  Inv'
<1>1. control \in Controls /\ control.claim \in MayClaim /\ doc \in [Doctors -> Locals]
      /\ "own" \in Places /\ NoClaim \in MayClaim
  BY ClaimOf, Names DEF Inv, Typed, Inside, MayClaim
<1>2. /\ doc' \in [Doctors -> Locals] /\ doc'[d].pc = "own"
      /\ \A e \in Doctors \ {d} : doc'[e] = doc[e]
  <2>1. CASE Become(d, [doc[d] EXCEPT !.pc = "own"])
    <3>1. [doc[d] EXCEPT !.pc = "own"] \in Locals /\ [doc[d] EXCEPT !.pc = "own"].pc = "own"
      BY <1>1, MoveType
    <3> QED
      BY <1>1, <2>1, <3>1, BecomeType
  <2>2. CASE Read(d, control.claim, "own")
    BY <1>1, <2>2, ReadType
  <2>3. CASE Read(d, NoClaim, "own")
    BY <1>1, <2>3, ReadType
  <2> QED
    BY <2>1, <2>2, <2>3 DEF DoctorRecover
<1>3. control' \in Controls /\ recovered' \subseteq Nat
  <2>1. CASE UNCHANGED <<control, recovered>>
    BY <1>1, <2>1 DEF Inv, Counted
  <2>2. CASE StaleClaim /\ control' = [control EXCEPT !.claim = NoClaim]
             /\ recovered' = recovered \cup {control.claim.id}
    <3>1. control.claim.id \in Nat
      BY <1>1, <2>2, ClaimType DEF StaleClaim, Active, MayClaim
    <3> QED
      BY <1>1, <2>2, <3>1 DEF Controls, Inv, Counted
  <2> QED
    BY <2>1, <2>2 DEF DoctorRecover
<1>4. doc[d].pc \in Inside /\ doc[d].pc \in Locked
  BY DEF DoctorRecover, Inside, Locked
<1>5. UNCHANGED <<lock, tree, commits, claims, crashes, commands, lapses, prs, passes, raced,
                  launch, clear>>
  BY DEF DoctorRecover, Others, History
<1>6. Typed' /\ Counted'
  BY <1>2, <1>3, <1>5 DEF Inv, Typed, Counted
<1>7. \A e \in Doctors \ {d} : Chosen(e)' /\ Owned(e)' /\ (~raced => Held(e)' /\ Reviewed(e)')
  BY <1>2, <1>4, <1>5, OthersAreSafe DEF Inv, Unmoved
<1>8. Chosen(d)' /\ Owned(d)' /\ (~raced => Held(d)' /\ Reviewed(d)')
  BY <1>2, <1>4, <1>5 DEF Inv, Safe, Guarded, Held, Chosen, Owned, Reviewed, Judged, Locked, Inside
<1> QED
  BY <1>5, <1>6, <1>7, <1>8 DEF Inv, Safe, Guarded, CommitsReviewed

(* A step inside the lock that leaves the history, the lock and the        *)
(* counters alone.                                                         *)
LEMMA InsideKeeps ==
  ASSUME Inv, NEW d \in Doctors, NEW r \in Locals, Become(d, r), DoctorOnly, History,
         lock' = lock, control' \in Controls, tree' \in Trees, Safe'
  PROVE  Inv'
<1>1. doc' \in [Doctors -> Locals]
  BY BecomeType DEF Inv, Typed
<1> QED
  BY <1>1 DEF Inv, Typed, Counted, DoctorOnly, Others, History

LEMMA DoctorWritePidKeeps ==
  ASSUME Inv, NEW d \in Doctors, DoctorWritePid(d)
  PROVE  Inv'
<1> DEFINE r == [doc[d] EXCEPT !.pc = "recover"]
<1>1. r \in Locals /\ r.pc = "recover"
  BY MoveType DEF Inv, Typed, Places, Inside
<1>2. Become(d, r) /\ doc[d].pc \in Locked /\ DoctorOnly /\ History
      /\ UNCHANGED <<control, lock, tree>>
  BY DEF DoctorWritePid, Locked
<1> HIDE DEF r
<1>3. Safe'
  BY <1>1, <1>2, LockedStepIsSafe DEF Inv, Judged, Locked, Inside, DoctorOnly, Others, History
<1> QED
  BY <1>1, <1>2, <1>3, InsideKeeps DEF Inv, Typed

(* What a step inside the lock may use of the state before it.             *)
LEMMA Before ==
  ASSUME Inv, NEW d \in Doctors
  PROVE  /\ control \in Controls /\ control.claim \in MayClaim /\ tree \in Trees /\ Typed /\ Safe
         /\ doc[d] \in Locals /\ doc[d].mem \in MayClaim /\ doc[d].attempt \in Nat
         /\ doc[d].strategy \in Strategies \cup {"none"} /\ doc[d].rejected \subseteq Strategies
         /\ doc[d].history \subseteq Strategies \X AllReviews
         /\ doc[d].done \subseteq Steps /\ doc[d].skip \in Skips /\ doc[d].class \in AllClasses
         /\ doc[d].review \in AllReviews \cup {"none"}
BY ClaimOf DEF Inv, Typed, Locals

LEMMA ClaimParts ==
  ASSUME NEW c \in MayClaim, c # NoClaim
  PROVE  c \in Claim /\ c.id \in Nat /\ c.attempt \in Nat /\ c.lease \in Leases
BY ClaimType DEF MayClaim

LEMMA DoctorOwnKeeps ==
  ASSUME Inv, NEW d \in Doctors, DoctorOwn(d)
  PROVE  Inv'
<1> DEFINE mem == IF doc[d].mem = NoClaim THEN NoClaim ELSE [doc[d].mem EXCEPT !.status = "repairing"]
           pc == IF doc[d].skip = "none" /\ Direct(d) THEN "enter" ELSE "decide"
           ok == doc[d].skip = "none" /\ Mode = "diagnose" /\ doc[d].class = "transient"
           late == launch.pc \in Writing
           r == [doc[d] EXCEPT !.mem = mem, !.late = late, !.pc = pc, !.repairOk = ok]
<1>1. Become(d, r) /\ Save(mem) /\ doc[d].pc \in Inside /\ UNCHANGED <<lock, tree>>
      /\ DoctorOnly /\ History
  BY DEF DoctorOwn, Inside
<1>2. mem \in MayClaim /\ pc \in {"enter", "decide"} /\ ok \in BOOLEAN
  BY Before, WithType, Names, 0 \in Nat DEF MayClaim
<1>7. late \in BOOLEAN
  OBVIOUS
<1> HIDE DEF mem, pc, ok, late
<1>3. pc \in Places /\ doc[d] \in Locals
  BY <1>2, Before DEF Places, Inside
<1>4. r \in Locals /\ r.pc = pc
  BY <1>2, <1>3, <1>7 DEF Locals
<1> HIDE DEF r
<1>5. Safe'
  BY <1>1, <1>2, <1>4, Before, StepIsSafe DEF Inside, Judged, History
<1>6. control' \in Controls /\ tree' \in Trees
  BY <1>1, <1>2, Before, SaveType
<1> QED
  BY <1>1, <1>4, <1>5, <1>6, InsideKeeps

LEMMA DoctorEnterKeeps ==
  ASSUME Inv, NEW d \in Doctors, DoctorEnter(d)
  PROVE  Inv'
<1> DEFINE back == IF tree.diff = "evidence" THEN "cleanup" ELSE doc[d].skip
           r1 == [doc[d] EXCEPT !.pc = "attempt", !.resume = tree.diff = "repair"]
           r2 == [doc[d] EXCEPT !.pc = "decide", !.skip = back]
<1>1. doc[d].pc \in Inside /\ UNCHANGED lock /\ DoctorOnly /\ History
  BY DEF DoctorEnter, Inside
<1>2. doc[d] \in Locals /\ {"attempt", "decide"} \subseteq Places
  BY Before DEF Places, Inside
<1>3. r1 \in Locals /\ r1.pc = "attempt"
  BY <1>2 DEF Locals
<1>4. back \in Skips
  BY Before DEF Skips
<1> HIDE DEF back
<1>5. r2 \in Locals /\ r2.pc = "decide"
  BY <1>4, <1>2 DEF Locals
<1>6. CASE /\ tree' = [tree EXCEPT !.diff = IF tree.diff = "repair" THEN tree.diff ELSE "clean"]
           /\ Save(doc[d].mem)
           /\ Become(d, r1)
  <2>1. control' \in Controls
    BY <1>6, Before, SaveType
  <2>2. tree' \in Trees
    BY <1>6, Before DEF Trees, Diffs
  <2> HIDE DEF r1
  <2>3. Safe'
    BY <1>1, <1>3, <1>6, Before, StepIsSafe DEF Inside, Judged, History
  <2> QED
    BY <1>1, <1>3, <1>6, <2>1, <2>2, <2>3, InsideKeeps
<1>7. CASE Become(d, r2) /\ UNCHANGED <<control, tree>>
  <2>1. control' \in Controls /\ tree' \in Trees
    BY <1>7, Before
  <2> HIDE DEF r2
  <2>2. Safe'
    BY <1>1, <1>5, <1>7, Before, StepIsSafe DEF Inside, Judged, History
  <2> QED
    BY <1>1, <1>5, <1>7, <2>1, <2>2, InsideKeeps
<1> QED
  BY <1>6, <1>7 DEF DoctorEnter, back

LEMMA DoctorAttemptKeeps ==
  ASSUME Inv, NEW d \in Doctors, DoctorAttempt(d)
  PROVE  Inv'
<1> DEFINE n == IF doc[d].mem = NoClaim THEN doc[d].attempt ELSE doc[d].mem.attempt
           mem == With(doc[d].mem, "repairing", n, "live")
           r == [doc[d] EXCEPT !.pc = "repair", !.mem = mem, !.attempt = n,
                   !.repairOk = TRUE, !.changed = FALSE, !.review = "none", !.reviewOk = TRUE,
                   !.gatesOk = FALSE, !.done = {}, !.strategy = "none", !.repeated = FALSE]
<1>1. /\ Become(d, r) /\ Save(mem) /\ doc[d].pc \in Inside /\ DoctorOnly
      /\ UNCHANGED <<lock, tree, commits, prs>>
      /\ passes' = IF mem = NoClaim THEN passes ELSE [passes EXCEPT ![mem.id] = Saturate(@)]
  BY DEF DoctorAttempt, Inside
<1>2. n \in Nat
  BY Before, ClaimParts
<1>3. mem \in MayClaim
  BY <1>2, Before, WithType, Names
<1> HIDE DEF n, mem
<1>4. doc[d] \in Locals /\ "repair" \in Places
  BY Before DEF Places, Inside
<1>5. r \in Locals /\ r.pc = "repair"
  BY Zenon, <1>2, <1>3, <1>4 DEF Locals
<1> HIDE DEF r
<1>6. Safe'
  BY <1>1, <1>5, Before, StepIsSafe DEF Inside, Judged
<1>7. control' \in Controls /\ tree' \in Trees /\ doc' \in [Doctors -> Locals]
  BY <1>1, <1>3, <1>5, Before, SaveType, BecomeType DEF Inv, Typed
<1>8. passes' \in [1 .. MaxClaims -> Nat]
  <2>1. \A k \in Nat : Saturate(k) \in Nat
    BY DoctorAssumption DEF DoctorAssumption, Saturate
  <2> QED
    BY <1>1, <2>1 DEF Inv, Counted
<1> QED
  BY <1>1, <1>6, <1>7, <1>8 DEF Inv, Typed, Counted, DoctorOnly, Others

(* The record a repair leaves.                                             *)
Repaired(me, s, b1, b2, b3, pc) ==
  [me EXCEPT !.resume = FALSE, !.strategy = s, !.repeated = b1,
             !.repairOk = b2, !.changed = b3, !.pc = pc]

LEMMA RepairedType ==
  ASSUME NEW me \in Locals, NEW s \in Strategies, NEW b1 \in BOOLEAN, NEW b2 \in BOOLEAN,
         NEW b3 \in BOOLEAN, NEW pc \in Places
  PROVE  /\ Repaired(me, s, b1, b2, b3, pc) \in Locals
         /\ Repaired(me, s, b1, b2, b3, pc).pc = pc
         /\ Repaired(me, s, b1, b2, b3, pc).strategy = s
         /\ Repaired(me, s, b1, b2, b3, pc).rejected = me.rejected
<1> DEFINE m == [me EXCEPT !.resume = FALSE, !.strategy = s, !.repeated = b1]
           r == [m EXCEPT !.repairOk = b2, !.changed = b3, !.pc = pc]
<1>1. m \in Locals /\ m.strategy = s /\ m.rejected = me.rejected
  BY DEF Locals
<1> HIDE DEF m
<1>2. r \in Locals /\ r.pc = pc /\ r.strategy = m.strategy /\ r.rejected = m.rejected
  BY ZenonT(40), <1>1 DEF Locals
<1> QED
  BY <1>1, <1>2 DEF m, Repaired

LEMMA DoctorRepairKeeps ==
  ASSUME Inv, NEW d \in Doctors, DoctorRepair(d)
  PROVE  Inv'
<1>1. doc[d].pc \in Inside /\ DoctorOnly /\ History /\ UNCHANGED <<control, lock>>
  BY DEF DoctorRepair, Inside
<1>2. PICK ok \in BOOLEAN, s \in Strategies,
           diff \in IF doc[d].resume THEN {tree.diff} ELSE {"clean", "evidence", "repair"} :
        LET repeated == s \in doc[d].rejected
            repairOk == ok /\ ~repeated /\ diff # "evidence"
            changed == diff # "clean"
        IN
        /\ tree' = Rewritten(diff)
        /\ Become(d, [doc[d] EXCEPT !.resume = FALSE, !.strategy = s, !.repeated = repeated,
              !.repairOk = repairOk, !.changed = changed,
              !.pc = IF repairOk /\ (changed \/ AutoMerge) THEN "review" ELSE "settle"])
  BY ZenonT(40) DEF DoctorRepair
<1> DEFINE repeated == s \in doc[d].rejected
           repairOk == ok /\ ~repeated /\ diff # "evidence"
           changed == diff # "clean"
           pc == IF repairOk /\ (changed \/ AutoMerge) THEN "review" ELSE "settle"
           r == Repaired(doc[d], s, repeated, repairOk, changed, pc)
<1>3. Become(d, r) /\ tree' = Rewritten(diff)
  BY <1>2 DEF Repaired
<1>4. diff \in Diffs /\ s \in Strategies
  BY Before DEF Trees, Diffs
<1>5. repeated \in BOOLEAN /\ repairOk \in BOOLEAN /\ changed \in BOOLEAN /\ pc \in {"review", "settle"}
      /\ (pc = "review" => s \notin doc[d].rejected)
  OBVIOUS
<1> HIDE DEF repeated, repairOk, changed, pc
<1>6. doc[d] \in Locals /\ pc \in Places
  BY <1>5, Before DEF Places, Inside
<1>7. r \in Locals /\ r.pc = pc /\ r.strategy = s /\ r.rejected = doc[d].rejected
  BY SMTT(40), <1>4, <1>5, <1>6, RepairedType
<1> HIDE DEF r
<1>8. tree' \in Trees /\ control' \in Controls
  BY <1>1, <1>3, <1>4, Before DEF Rewritten, Trees, Verdicts
<1>9. Safe'
  <2>1. CASE pc = "review"
    BY <1>1, <1>3, <1>4, <1>5, <1>7, <2>1, Before, JudgedStepIsSafe DEF Inside, History
  <2>2. CASE pc = "settle"
    BY <1>1, <1>3, <1>7, <2>2, Before, StepIsSafe DEF Inside, Judged, History
  <2> QED
    BY <1>5, <2>1, <2>2
<1> QED
  BY <1>1, <1>3, <1>7, <1>8, <1>9, InsideKeeps

LEMMA DoctorReviewKeeps ==
  ASSUME Inv, NEW d \in Doctors, DoctorReview(d)
  PROVE  Inv'
<1> DEFINE mem == With(doc[d].mem, "repairing", doc[d].attempt, "live")
           r == [doc[d] EXCEPT !.pc = "reviewing", !.mem = mem]
<1>1. /\ Become(d, r) /\ Save(mem) /\ doc[d].pc \in Inside /\ doc[d].pc \in Judged
      /\ UNCHANGED <<lock, tree>> /\ DoctorOnly /\ History
  BY DEF DoctorReview, Inside, Judged
<1>2. mem \in MayClaim
  BY Before, WithType, Names
<1> HIDE DEF mem
<1>3. doc[d] \in Locals /\ "reviewing" \in Places
  BY Before DEF Places, Inside
<1>4. /\ r \in Locals /\ r.pc = "reviewing"
      /\ r.strategy = doc[d].strategy /\ r.rejected = doc[d].rejected
  BY <1>2, <1>3 DEF Locals
<1> HIDE DEF r
<1>5. Safe'
  <2>1. r.strategy \in Strategies \ r.rejected
    BY <1>1, <1>4, Before DEF Safe, Guarded, Chosen, Reviewed
  <2> QED
    BY <1>1, <1>4, <2>1, Before, JudgedStepIsSafe DEF Inside, History
<1>6. control' \in Controls /\ tree' \in Trees
  BY <1>1, <1>2, Before, SaveType
<1> QED
  BY <1>1, <1>4, <1>5, <1>6, InsideKeeps

(* The record the answer of a review leaves.                               *)
Answered(me, v, b1, b2, rej, hist, pc) ==
  [me EXCEPT !.review = v, !.reviewOk = b1, !.repairOk = b2,
             !.rejected = rej, !.history = hist, !.pc = pc]

LEMMA AnsweredType ==
  ASSUME NEW me \in Locals, NEW v \in AllReviews, NEW b1 \in BOOLEAN, NEW b2 \in BOOLEAN,
         NEW rej \in SUBSET Strategies, NEW hist \in SUBSET (Strategies \X AllReviews),
         NEW pc \in Places
  PROVE  /\ Answered(me, v, b1, b2, rej, hist, pc) \in Locals
         /\ Answered(me, v, b1, b2, rej, hist, pc).pc = pc
         /\ Answered(me, v, b1, b2, rej, hist, pc).strategy = me.strategy
         /\ Answered(me, v, b1, b2, rej, hist, pc).rejected = rej
<1> DEFINE m == [me EXCEPT !.review = v, !.reviewOk = b1, !.repairOk = b2]
           r == [m EXCEPT !.rejected = rej, !.history = hist, !.pc = pc]
<1>1. m \in Locals /\ m.strategy = me.strategy
  BY DEF Locals
<1> HIDE DEF m
<1>2. r \in Locals /\ r.pc = pc /\ r.strategy = m.strategy /\ r.rejected = rej
  BY <1>1 DEF Locals
<1> QED
  BY <1>1, <1>2 DEF m, Answered

LEMMA DoctorVerdictKeeps ==
  ASSUME Inv, NEW d \in Doctors, DoctorVerdict(d)
  PROVE  Inv'
<1>1. doc[d].pc = "reviewing" /\ doc[d].pc \in Inside /\ doc[d].pc \in Judged
      /\ DoctorOnly /\ History /\ UNCHANGED <<control, lock>>
  BY DEF DoctorVerdict, Inside, Judged
<1>2. PICK verdict \in Reviews, again \in BOOLEAN :
        LET override == SoftOverride(doc[d], verdict, again)
            reviewOk == verdict \in {"pass", "notes"} \/ override
            repairOk == ~again
        IN
        /\ again => verdict \in Findings /\ <<doc[d].strategy, verdict>> \in doc[d].history
        /\ tree' = [tree EXCEPT !.verdict = IF override THEN "override" ELSE verdict]
        /\ Become(d, [doc[d] EXCEPT !.review = verdict, !.reviewOk = reviewOk,
              !.repairOk = repairOk,
              !.rejected = IF again THEN @ \cup {doc[d].strategy} ELSE @,
              !.history = IF verdict \in Findings
                          THEN @ \cup {<<doc[d].strategy, verdict>>} ELSE @,
              !.pc = IF repairOk /\ doc[d].changed /\ reviewOk THEN "gate" ELSE "settle"])
  BY Zenon DEF DoctorVerdict
<1> DEFINE override == SoftOverride(doc[d], verdict, again)
           reviewOk == verdict \in {"pass", "notes"} \/ override
           repairOk == ~again
           rej == IF again THEN doc[d].rejected \cup {doc[d].strategy} ELSE doc[d].rejected
           hist == IF verdict \in Findings
                   THEN doc[d].history \cup {<<doc[d].strategy, verdict>>} ELSE doc[d].history
           pc == IF repairOk /\ doc[d].changed /\ reviewOk THEN "gate" ELSE "settle"
           found == IF override THEN "override" ELSE verdict
           r == Answered(doc[d], verdict, reviewOk, repairOk, rej, hist, pc)
<1>3. Become(d, r) /\ tree' = [tree EXCEPT !.verdict = found]
  BY <1>2 DEF Answered
<1>4. doc[d].strategy \in Strategies \ doc[d].rejected
  BY <1>1, Before DEF Safe, Guarded, Chosen, Reviewed
<1>5. verdict \in AllReviews
  BY DoctorAssumption DEF DoctorAssumption
<1>6. rej \in SUBSET Strategies /\ hist \in SUBSET (Strategies \X AllReviews)
  BY <1>4, <1>5, Before
<1>7. reviewOk \in BOOLEAN /\ repairOk \in BOOLEAN /\ pc \in {"gate", "settle"} /\ found \in Verdicts
  BY <1>5 DEF SoftOverride, Verdicts
<1>8. pc = "gate" => found \in Accepted /\ rej = doc[d].rejected
  BY DEF Accepted
<1> HIDE DEF override, reviewOk, repairOk, rej, hist, pc, found
<1>9. doc[d] \in Locals /\ pc \in Places
  BY <1>7, Before DEF Places, Inside
<1>10. r \in Locals /\ r.pc = pc /\ r.strategy = doc[d].strategy /\ r.rejected = rej
  BY <1>5, <1>6, <1>7, <1>9, AnsweredType
<1> HIDE DEF r
<1>11. tree' \in Trees /\ tree'.verdict = found /\ control' \in Controls
  BY <1>1, <1>3, <1>7, Before DEF Trees
<1>12. Safe'
  <2>1. CASE pc = "gate"
    BY <1>1, <1>3, <1>4, <1>8, <1>10, <1>11, <2>1, Before, JudgedStepIsSafe DEF Inside, History
  <2>2. CASE pc = "settle"
    BY <1>1, <1>3, <1>10, <2>2, Before, StepIsSafe DEF Inside, Judged, History
  <2> QED
    BY <1>7, <2>1, <2>2
<1> QED
  BY <1>1, <1>3, <1>10, <1>11, <1>12, InsideKeeps

LEMMA DoctorGateKeeps ==
  ASSUME Inv, NEW d \in Doctors, DoctorGate(d)
  PROVE  Inv'
<1> DEFINE mem == With(doc[d].mem, "repairing", doc[d].attempt, "live")
           P(ok) == IF ok /\ "commit" \notin Skipped THEN "publish" ELSE "settle"
           R(ok) == [doc[d] EXCEPT !.mem = mem, !.gatesOk = ok, !.pc = P(ok)]
<1>1. /\ Save(mem) /\ doc[d].pc = "gate" /\ doc[d].pc \in Inside /\ doc[d].pc \in Judged
      /\ UNCHANGED lock /\ DoctorOnly /\ History
  BY DEF DoctorGate, Inside, Judged
<1>2. PICK ok \in BOOLEAN : tree' = [tree EXCEPT !.gated = ok] /\ Become(d, R(ok))
  BY Zenon DEF DoctorGate
<1> DEFINE pc == P(ok)
           r == [doc[d] EXCEPT !.mem = mem, !.gatesOk = ok, !.pc = pc]
<1>3. Become(d, r) /\ tree' = [tree EXCEPT !.gated = ok]
  BY <1>2
<1>4. mem \in MayClaim
  BY Before, WithType, Names
<1>5. pc \in {"publish", "settle"} /\ (pc = "publish" => ok)
  OBVIOUS
<1> HIDE DEF mem, P, pc
<1>6. doc[d] \in Locals /\ pc \in Places
  BY <1>5, Before DEF Places, Inside
<1>7. /\ r \in Locals /\ r.pc = pc
      /\ r.strategy = doc[d].strategy /\ r.rejected = doc[d].rejected
  BY <1>4, <1>6 DEF Locals
<1> HIDE DEF r
<1>8. tree' \in Trees /\ tree'.verdict = tree.verdict /\ tree'.gated = ok /\ control' \in Controls
  BY <1>1, <1>3, <1>4, Before, SaveType DEF Trees
<1>9. Safe'
  <2>1. CASE pc = "publish"
    <3>1. r.strategy \in Strategies \ r.rejected /\ (~raced => tree'.verdict \in Accepted)
      BY <1>1, <1>7, <1>8, Before DEF Safe, Guarded, Chosen, Reviewed
    <3> QED
      BY <1>1, <1>3, <1>5, <1>7, <1>8, <2>1, <3>1, Before, JudgedStepIsSafe DEF Inside, History
  <2>2. CASE pc = "settle"
    BY <1>1, <1>3, <1>7, <2>2, Before, StepIsSafe DEF Inside, Judged, History
  <2> QED
    BY <1>5, <2>1, <2>2
<1> QED
  BY <1>1, <1>3, <1>7, <1>8, <1>9, InsideKeeps

LEMMA DoctorPublishKeeps ==
  ASSUME Inv, NEW d \in Doctors, DoctorPublish(d)
  PROVE  Inv'
<1> DEFINE mem == With(doc[d].mem, "publishing", doc[d].attempt, "live")
           r == [doc[d] EXCEPT !.pc = "commit", !.mem = mem]
<1>1. /\ Become(d, r) /\ Save(mem) /\ doc[d].pc = "publish"
      /\ doc[d].pc \in Inside /\ doc[d].pc \in Judged
      /\ UNCHANGED <<lock, tree>> /\ DoctorOnly /\ History
  BY DEF DoctorPublish, Inside, Judged
<1>2. mem \in MayClaim
  BY Before, WithType, Names
<1> HIDE DEF mem
<1>3. doc[d] \in Locals /\ "commit" \in Places
  BY Before DEF Places, Inside
<1>4. /\ r \in Locals /\ r.pc = "commit"
      /\ r.strategy = doc[d].strategy /\ r.rejected = doc[d].rejected
  BY <1>2, <1>3 DEF Locals
<1> HIDE DEF r
<1>5. Safe'
  <2>1. /\ r.strategy \in Strategies \ r.rejected
        /\ ~raced => tree'.verdict \in Accepted /\ tree'.gated
    BY <1>1, <1>4, Before DEF Safe, Guarded, Chosen, Reviewed
  <2> QED
    BY <1>1, <1>4, <2>1, Before, JudgedStepIsSafe DEF Inside, History
<1>6. control' \in Controls /\ tree' \in Trees
  BY <1>1, <1>2, Before, SaveType
<1> QED
  BY <1>1, <1>4, <1>5, <1>6, InsideKeeps

LEMMA DoctorCommitKeeps ==
  ASSUME Inv, NEW d \in Doctors, DoctorCommit(d)
  PROVE  Inv'
<1> DEFINE r1 == [doc[d] EXCEPT !.done = {"commit"}, !.pc = After("commit")]
           r2 == [doc[d] EXCEPT !.pc = "settle"]
           rejected == doc[d].strategy \in doc[d].rejected
           c == [verdict |-> tree.verdict, gated |-> tree.gated, rejected |-> rejected]
<1>1. /\ doc[d].pc = "commit" /\ doc[d].pc \in Inside /\ doc[d].pc \in Judged
      /\ DoctorOnly /\ UNCHANGED <<control, lock, prs, passes>>
  BY DEF DoctorCommit, Inside, Judged
<1>2. doc[d] \in Locals /\ After("commit") \in {"push", "settle"} /\ {"push", "settle"} \subseteq Places
  BY Before DEF After, Places, Inside
<1>3. r1 \in Locals /\ r1.pc = After("commit") /\ r2 \in Locals /\ r2.pc = "settle"
  BY <1>2 DEF Locals, Steps
<1> HIDE DEF r1, r2
<1>4. PICK r \in Locals : Become(d, r) /\ r.pc \in {"push", "settle"}
  BY <1>2, <1>3 DEF DoctorCommit, r1, r2
<1>5. CASE UNCHANGED <<tree, commits>>
  <2>1. Safe'
    BY <1>1, <1>4, <1>5, Before, StepIsSafe DEF Inside, Judged
  <2>2. doc' \in [Doctors -> Locals]
    BY <1>4, BecomeType DEF Inv, Typed
  <2> QED
    BY <1>1, <1>5, <2>1, <2>2 DEF Inv, Typed, Counted, DoctorOnly, Others
<1>6. CASE /\ tree' = [tree EXCEPT !.diff = "clean", !.unpushed = @ \/ doc[d].mem # NoClaim]
           /\ commits' = commits \cup {c}
  <2>1. (~raced => c.verdict \in Accepted /\ c.gated) /\ ~c.rejected /\ c \in Commits
    <3>1. (~raced => tree.verdict \in Accepted /\ tree.gated) /\ rejected = FALSE
      BY <1>1, Before DEF Safe, Guarded, Chosen, Reviewed
    <3>2. tree.verdict \in Verdicts /\ tree.gated \in BOOLEAN
      BY Before DEF Trees
    <3> HIDE DEF rejected
    <3> QED
      BY <3>1, <3>2 DEF Commits
  <2>2. tree' \in Trees
    BY <1>6, Before DEF Trees, Diffs
  <2>3. doc' \in [Doctors -> Locals] /\ doc'[d] = r /\ \A e \in Doctors \ {d} : doc'[e] = doc[e]
    BY <1>4, BecomeType DEF Inv, Typed
  <2> HIDE DEF c
  <2>4. ~raced => CommitsReviewed'
    BY <1>6, <2>1 DEF Inv, Safe, Guarded, CommitsReviewed, Accepted
  <2>5. \A e \in Doctors \ {d} : Chosen(e)' /\ Owned(e)' /\ (~raced => Held(e)' /\ Reviewed(e)')
    BY <1>1, <2>3, OthersAreSafe DEF Inv, Unmoved, Locked
  <2>6. Chosen(d)' /\ Owned(d)' /\ (~raced => Held(d)' /\ Reviewed(d)')
    BY <1>1, <1>4, <2>3 DEF Inv, Safe, Guarded, Chosen, Owned, Held, Reviewed, Judged, Locked, Inside
  <2>7. commits' \subseteq Commits
    BY <1>6, <2>1 DEF Inv, Counted
  <2>8. Safe'
    BY <1>1, <2>4, <2>5, <2>6 DEF Safe, Guarded, DoctorOnly, Others
  <2> QED
    BY <1>1, <2>2, <2>3, <2>7, <2>8 DEF Inv, Typed, Counted, DoctorOnly, Others
<1> QED
  BY <1>5, <1>6 DEF DoctorCommit

LEMMA DoctorPushKeeps ==
  ASSUME Inv, NEW d \in Doctors, DoctorPush(d)
  PROVE  Inv'
<1> DEFINE done == doc[d].done \cup {"push"}
           r1 == [doc[d] EXCEPT !.done = done, !.pc = After("push")]
           r2 == [doc[d] EXCEPT !.pc = "settle"]
<1>1. doc[d].pc \in Inside /\ DoctorOnly /\ History /\ UNCHANGED <<control, lock>>
  BY DEF DoctorPush, Inside
<1>2. doc[d] \in Locals /\ After("push") \in {"pr", "settle"} /\ {"pr", "settle"} \subseteq Places
      /\ done \in SUBSET Steps
  BY Before DEF After, Places, Inside, Steps
<1>3. r1 \in Locals /\ r1.pc = After("push") /\ r2 \in Locals /\ r2.pc = "settle"
  <2> HIDE DEF done
  <2> QED
    BY <1>2 DEF Locals
<1> HIDE DEF r1, r2
<1>4. PICK r \in Locals : Become(d, r) /\ r.pc \in {"pr", "settle"}
  BY <1>2, <1>3 DEF DoctorPush, r1, r2
<1>5. tree' \in Trees /\ control' \in Controls
  BY <1>1, Before DEF DoctorPush, Trees
<1>6. Safe'
  BY <1>1, <1>4, Before, StepIsSafe DEF Inside, Judged, History
<1> QED
  BY <1>1, <1>4, <1>5, <1>6, InsideKeeps

LEMMA DoctorPrKeeps ==
  ASSUME Inv, NEW d \in Doctors, DoctorPr(d)
  PROVE  Inv'
<1> DEFINE done == doc[d].done \cup {"pr"}
           r1 == [doc[d] EXCEPT !.done = done, !.pc = "settle"]
           r2 == [doc[d] EXCEPT !.pc = "settle"]
<1>1. /\ doc[d].pc \in Inside /\ DoctorOnly
      /\ UNCHANGED <<control, lock, tree, commits, passes>>
  BY DEF DoctorPr, Inside
<1>2. doc[d] \in Locals /\ "settle" \in Places /\ done \in SUBSET Steps
  BY Before DEF Places, Inside, Steps
<1>3. r1 \in Locals /\ r1.pc = "settle" /\ r2 \in Locals /\ r2.pc = "settle"
  <2> HIDE DEF done
  <2> QED
    BY <1>2 DEF Locals
<1> HIDE DEF r1, r2
<1>4. PICK r \in Locals : Become(d, r) /\ r.pc = "settle"
  BY <1>3 DEF DoctorPr, r1, r2
<1>5. prs' \subseteq Nat
  BY Before, ClaimParts DEF DoctorPr, Inv, Counted
<1>6. Safe'
  BY <1>1, <1>4, Before, StepIsSafe DEF Inside, Judged
<1>7. doc' \in [Doctors -> Locals]
  BY <1>4, BecomeType DEF Inv, Typed
<1> QED
  BY <1>1, <1>5, <1>6, <1>7 DEF Inv, Typed, Counted, DoctorOnly, Others

LEMMA DoctorRetryKeeps ==
  ASSUME Inv, NEW d \in Doctors, DoctorRetry(d)
  PROVE  Inv'
<1> DEFINE mem == With(doc[d].mem, "repairing", doc[d].attempt + 1, "live")
           r == [doc[d] EXCEPT !.pc = "attempt", !.mem = mem]
<1>1. /\ Become(d, r) /\ Save(mem) /\ doc[d].pc \in Inside
      /\ UNCHANGED <<lock, tree>> /\ DoctorOnly /\ History
  BY DEF DoctorRetry, Inside
<1>2. doc[d].attempt + 1 \in Nat
  BY Before
<1>3. mem \in MayClaim
  BY <1>2, Before, WithType, Names
<1> HIDE DEF mem
<1>4. doc[d] \in Locals /\ "attempt" \in Places
  BY Before DEF Places, Inside
<1>5. r \in Locals /\ r.pc = "attempt"
  BY <1>3, <1>4 DEF Locals
<1> HIDE DEF r
<1>6. Safe'
  BY <1>1, <1>5, Before, StepIsSafe DEF Inside, Judged, History
<1>7. control' \in Controls /\ tree' \in Trees
  BY <1>1, <1>3, Before, SaveType
<1> QED
  BY <1>1, <1>5, <1>6, <1>7, InsideKeeps

(* The steps that only move on.                                            *)
LEMMA MoveKeeps ==
  ASSUME Inv, NEW d \in Doctors, NEW pc \in Inside \ Judged, doc[d].pc \in Inside,
         Become(d, [doc[d] EXCEPT !.pc = pc]), DoctorOnly, History, UNCHANGED <<control, lock, tree>>
  PROVE  Inv'
<1> DEFINE r == [doc[d] EXCEPT !.pc = pc]
<1>1. r \in Locals /\ r.pc = pc
  BY Before, MoveType, Names
<1> HIDE DEF r
<1>2. Become(d, r) /\ control' \in Controls /\ tree' \in Trees
  BY Before DEF r
<1>3. Safe'
  BY <1>1, <1>2, Before, StepIsSafe DEF Inside, History
<1> QED
  BY <1>1, <1>2, <1>3, InsideKeeps

LEMMA DoctorSettleKeeps ==
  ASSUME Inv, NEW d \in Doctors, DoctorSettle(d)
  PROVE  Inv'
<1>1. doc[d].pc \in Inside /\ "decide" \in Inside \ Judged
  BY DEF DoctorSettle, Inside, Judged
<1> QED
  BY <1>1, MoveKeeps DEF DoctorSettle

LEMMA DoctorNoMergeKeeps ==
  ASSUME Inv, NEW d \in Doctors, DoctorNoMerge(d)
  PROVE  Inv'
<1>1. doc[d].pc \in Inside /\ "finish" \in Inside \ Judged
  BY DEF DoctorNoMerge, Inside, Judged
<1> QED
  BY <1>1, MoveKeeps DEF DoctorNoMerge

LEMMA DoctorMergeKeeps ==
  ASSUME Inv, NEW d \in Doctors, DoctorMerge(d)
  PROVE  Inv'
<1>1. doc[d].pc \in Inside /\ DoctorOnly /\ History /\ UNCHANGED <<control, lock, tree>>
  BY DEF DoctorMerge, Inside
<1>2. PICK ok \in BOOLEAN : Become(d, [doc[d] EXCEPT !.merged = ok, !.pc = "finish"])
  BY Zenon DEF DoctorMerge
<1> DEFINE r == [doc[d] EXCEPT !.merged = ok, !.pc = "finish"]
<1>3. doc[d] \in Locals /\ "finish" \in Places
  BY Before DEF Places, Inside
<1>4. r \in Locals /\ r.pc = "finish"
  BY <1>3 DEF Locals
<1> HIDE DEF r
<1>5. Become(d, r) /\ control' \in Controls /\ tree' \in Trees
  BY <1>1, <1>2, Before DEF r
<1>6. Safe'
  BY <1>1, <1>4, <1>5, Before, StepIsSafe DEF Inside, Judged, History
<1> QED
  BY <1>1, <1>4, <1>5, <1>6, InsideKeeps

LEMMA DoctorFinishKeeps ==
  ASSUME Inv, NEW d \in Doctors, DoctorFinish(d)
  PROVE  Inv'
<1> DEFINE mem == IF doc[d].mem = NoClaim THEN NoClaim
                  ELSE With(doc[d].mem, FinalStatus(doc[d]), doc[d].mem.attempt, "live")
           r == [doc[d] EXCEPT !.pc = "unlock", !.mem = mem]
<1>1. /\ Become(d, r) /\ Save(mem) /\ doc[d].pc \in Inside
      /\ UNCHANGED <<lock, tree>> /\ DoctorOnly /\ History
  BY DEF DoctorFinish, Inside
<1>2. FinalStatus(doc[d]) \in Statuses
  BY Names DEF FinalStatus, Exhausted
<1>3. mem \in MayClaim
  BY <1>2, Before, ClaimParts, WithType, Names DEF MayClaim
<1> HIDE DEF mem
<1>4. doc[d] \in Locals /\ "unlock" \in Places
  BY Before DEF Places, Inside
<1>5. r \in Locals /\ r.pc = "unlock"
  BY <1>3, <1>4 DEF Locals
<1> HIDE DEF r
<1>6. Safe'
  BY <1>1, <1>5, Before, StepIsSafe DEF Inside, Judged, History
<1>7. control' \in Controls /\ tree' \in Trees
  BY <1>1, <1>3, Before, SaveType
<1> QED
  BY <1>1, <1>5, <1>6, <1>7, InsideKeeps

-----------------------------------------------------------------------------
(* The launcher, the operator and time.                                    *)

(* They leave to the Doctors their places, the tree and the lock.          *)
LEMMA LauncherKeeps ==
  ASSUME Inv, control' \in Controls, launch' \in Launches, claims' \in 0 .. MaxClaims, LauncherOnly
  PROVE  Inv'
<1>1. Safe'
  BY QuietIsSafe DEF Inv, History, LauncherOnly, Unmoved
<1> QED
  BY <1>1 DEF Inv, Typed, Counted, History, LauncherOnly

LEMMA LaunchType ==
  ASSUME NEW pc \in Writing \cup {"idle", "look"}, NEW c \in MayClaim, Launch(pc, c)
  PROVE  launch' \in Launches
BY DEF Launch, Launches

(* The steps that write nothing.                                           *)
LEMMA LauncherLooksKeeps ==
  ASSUME Inv, LauncherRead \/ LauncherLook \/ LauncherRestart
  PROVE  Inv'
<1>1. /\ control \in Controls /\ control.claim \in MayClaim /\ launch \in Launches
      /\ NoClaim \in MayClaim /\ claims \in 0 .. MaxClaims
  BY ClaimOf DEF Inv, Typed, Counted, MayClaim
<1>2. launch' \in Launches
  <2>1. CASE LauncherRead
    <3>1. Active(control.claim) =>
            With(control.claim, "repairing", control.claim.attempt, "live") \in MayClaim
      BY <1>1, ClaimParts, WithType, Names DEF Active
    <3> QED
      BY <1>1, <2>1, <3>1, LaunchType DEF LauncherRead, Writing
  <2>2. CASE LauncherLook
    BY <1>1, <2>2 DEF LauncherLook, Launch, Launches, Writing
  <2>3. CASE LauncherRestart
    BY <1>1, <2>3, LaunchType DEF LauncherRestart
  <2> QED
    BY <2>1, <2>2, <2>3
<1>3. LauncherOnly /\ UNCHANGED <<control, claims>>
  BY DEF LauncherRead, LauncherLook, LauncherRestart
<1> QED
  BY <1>1, <1>2, <1>3, LauncherKeeps

LEMMA LauncherCreateKeeps == ASSUME Inv, LauncherCreate PROVE Inv'
<1>1. PICK class \in Classes :
        control' = [control EXCEPT !.claim =
          [id |-> claims', status |-> "claimed",
           attempt |-> IF control.claim = NoClaim THEN 1 ELSE control.claim.attempt + 1,
           lease |-> "live", class |-> class]]
  BY DEF LauncherCreate
<1> DEFINE n == IF control.claim = NoClaim THEN 1 ELSE control.claim.attempt + 1
           c == [id |-> claims', status |-> "claimed", attempt |-> n, lease |-> "live",
                 class |-> class]
<1>2. claims' \in 0 .. MaxClaims /\ claims' \in Nat
  BY DoctorAssumption DEF DoctorAssumption, LauncherCreate, Inv, Counted
<1>3. n \in Nat
  BY ClaimOf, ClaimParts DEF Inv, Typed
<1> HIDE DEF n
<1>4. c \in MayClaim
  BY <1>2, <1>3, ClaimType, Names, DoctorAssumption DEF DoctorAssumption, MayClaim
<1>5. control' = [control EXCEPT !.claim = c]
  BY <1>1 DEF n
<1> HIDE DEF c
<1>6. control' \in Controls
  BY <1>4, <1>5 DEF Inv, Typed, Controls
<1>7. launch' \in Launches
  BY LaunchType DEF LauncherCreate, MayClaim
<1> QED
  BY <1>2, <1>6, <1>7, LauncherKeeps DEF LauncherCreate

LEMMA LauncherRenewKeeps == ASSUME Inv, LauncherRenew PROVE Inv'
<1>1. control' \in Controls
  BY SaveType DEF LauncherRenew, Inv, Typed, Launches
<1>2. launch' \in Launches
  BY LaunchType DEF LauncherRenew, MayClaim
<1> QED
  BY <1>1, <1>2, LauncherKeeps DEF LauncherRenew, Inv, Counted

LEMMA LauncherClearKeeps == ASSUME Inv, LauncherClear PROVE Inv'
<1>1. control' \in Controls
  BY DEF LauncherClear, Inv, Typed, Controls, MayClaim
<1>2. launch' \in Launches
  BY LaunchType DEF LauncherClear, MayClaim
<1> QED
  BY <1>1, <1>2, LauncherKeeps DEF LauncherClear, Inv, Counted

(* The operator's commands.                                                *)
LEMMA OperatorKeeps ==
  ASSUME Inv, control' \in Controls, clear' \in Clears, commands' \in 0 .. MaxCommands, History,
         UNCHANGED <<lock, raced, doc, launch, tree, recovered, claims, crashes, lapses>>
  PROVE  Inv'
<1>1. Safe'
  BY QuietIsSafe DEF Inv, History, Unmoved
<1> QED
  BY <1>1 DEF Inv, Typed, Counted, History

LEMMA OperateKeeps ==
  ASSUME Inv, NEW mode \in Modes, Operate(mode)
  PROVE  Inv'
<1>1. control' \in Controls /\ commands' \in 0 .. MaxCommands /\ clear' \in Clears
  BY DoctorAssumption DEF DoctorAssumption, Operate, Others, Inv, Typed, Counted, Controls, MayClaim
<1> QED
  BY <1>1, OperatorKeeps DEF Operate, Others

LEMMA ClearKeeps == ASSUME Inv, ClearLook \/ ClearRead \/ ClearTerminal PROVE Inv'
<1>1. control \in Controls /\ clear \in Clears /\ commands \in 0 .. MaxCommands
      /\ control.mode \in Modes
  BY DEF Inv, Typed, Counted, Controls
<1>2. CASE ClearLook
  <2>1. commands' \in 0 .. MaxCommands
    BY <1>1, <1>2, DoctorAssumption DEF DoctorAssumption, ClearLook
  <2>2. clear' \in Clears
    BY <1>1, <1>2 DEF ClearLook, Clears
  <2> QED
    BY <1>1, <1>2, <2>1, <2>2, OperatorKeeps DEF ClearLook
<1>3. CASE ClearRead
  <2>1. clear' \in Clears
    BY <1>1, <1>3 DEF ClearRead, Clears
  <2> QED
    BY <1>1, <1>3, <2>1, OperatorKeeps DEF ClearRead
<1>4. CASE ClearTerminal
  <2>1. clear' \in Clears
    BY <1>1, <1>4 DEF ClearTerminal, Clears
  <2>2. control' \in Controls
    BY <1>1, <1>4 DEF ClearTerminal, Clears, Controls, MayClaim
  <2> QED
    BY <1>1, <1>4, <2>1, <2>2, OperatorKeeps DEF ClearTerminal
<1> QED
  BY <1>2, <1>3, <1>4

LEMMA OlderType ==
  ASSUME NEW c \in Claim
  PROVE  [c EXCEPT !.lease = Older(c.lease)] \in MayClaim
BY ClaimType, Names DEF Older, MayClaim

LEMMA LeasePassKeeps == ASSUME Inv, LeasePass PROVE Inv'
<1> DEFINE Same(m) == m # NoClaim /\ m.id = control.claim.id /\ m.lease = control.claim.lease
           old == [control.claim EXCEPT !.lease = Older(control.claim.lease)]
           R(d) == IF Same(doc[d].mem)
                   THEN [doc[d] EXCEPT !.mem = [doc[d].mem EXCEPT !.lease = Older(doc[d].mem.lease)]]
                   ELSE doc[d]
<1>1. /\ control' = [control EXCEPT !.claim = old]
      /\ doc' = [d \in Doctors |-> R(d)]
      /\ Active(control.claim)
      /\ UNCHANGED <<lock, tree, recovered, claims, crashes, commands>> /\ History /\ Others
      /\ lapses < MaxLapses /\ lapses' = lapses + 1
  BY DEF LeasePass
<1>2. control' \in Controls
  <2>1. control.claim \in Claim
    BY <1>1, ClaimOf DEF Active, MayClaim, Inv, Typed
  <2>2. old \in MayClaim
    BY <2>1, OlderType
  <2> HIDE DEF old
  <2> QED
    BY <1>1, <2>2 DEF Inv, Typed, Controls
<1>3. ASSUME NEW d \in Doctors
      PROVE  /\ R(d) \in Locals /\ R(d).pc = doc[d].pc /\ R(d).strategy = doc[d].strategy
             /\ R(d).rejected = doc[d].rejected
  <2>1. CASE ~Same(doc[d].mem)
    BY <2>1, Before
  <2>2. CASE Same(doc[d].mem)
    <3> DEFINE m == [doc[d].mem EXCEPT !.lease = Older(doc[d].mem.lease)]
    <3>1. m \in MayClaim /\ doc[d] \in Locals
      BY <2>2, Before, ClaimParts, OlderType
    <3>2. R(d) = [doc[d] EXCEPT !.mem = m]
      BY <2>2
    <3> HIDE DEF m, R
    <3> QED
      BY <3>1, <3>2 DEF Locals
  <2> QED
    BY <2>1, <2>2
<1> HIDE DEF R, old, Same
<1>4. doc' \in [Doctors -> Locals]
  BY <1>1, <1>3
<1>5. Safe'
  BY <1>1, <1>3, QuietIsSafe DEF Inv, History, Others, Unmoved
<1>6. lapses' \in 0 .. MaxLapses
  BY <1>1, DoctorAssumption DEF DoctorAssumption, Inv, Counted
<1> QED
  BY <1>1, <1>2, <1>4, <1>5, <1>6 DEF Inv, Typed, Counted, Others, History

-----------------------------------------------------------------------------
(* The invariant is inductive.                                             *)

LEMMA InvInit == Init => Inv
<1> SUFFICES ASSUME Init PROVE Inv
  OBVIOUS
<1>1. Typed
  BY FreshType, Names DEF Init, Typed, Controls, Modes, MayClaim, Trees, Diffs, Verdicts, Launches,
                          Clears
<1>2. Counted
  BY DoctorAssumption DEF DoctorAssumption, Init, Counted
<1>3. \A d \in Doctors : Chosen(d) /\ Owned(d) /\ Held(d) /\ Reviewed(d)
  BY FreshType, DoctorAssumption DEF DoctorAssumption, Init, Chosen, Owned, Held, Reviewed, Judged,
     Locked, Inside
<1> QED
  BY <1>1, <1>2, <1>3 DEF Inv, Safe, Guarded, CommitsReviewed, Init

LEMMA StepKeeps ==
  ASSUME Inv, NEW d \in Doctors, DoctorStep(d)
  PROVE  Inv'
<1>1. CASE \/ DoctorCreate(d) \/ DoctorCreateFails(d) \/ DoctorWritePid(d) \/ DoctorReadPid(d)
           \/ DoctorJudge(d) \/ DoctorUnlink(d)
  BY <1>1, DoctorCreateKeeps, DoctorCreateFailsKeeps, DoctorWritePidKeeps, DoctorReadPidKeeps,
     DoctorJudgeKeeps, DoctorUnlinkKeeps
<1>2. CASE \/ DoctorRecover(d) \/ DoctorOwn(d) \/ DoctorEnter(d) \/ DoctorAttempt(d)
           \/ DoctorRepair(d) \/ DoctorReview(d)
  BY <1>2, DoctorRecoverKeeps, DoctorOwnKeeps, DoctorEnterKeeps, DoctorAttemptKeeps,
     DoctorRepairKeeps, DoctorReviewKeeps
<1>3. CASE \/ DoctorVerdict(d) \/ DoctorGate(d) \/ DoctorPublish(d) \/ DoctorCommit(d)
           \/ DoctorPush(d) \/ DoctorPr(d)
  BY <1>3, DoctorVerdictKeeps, DoctorGateKeeps, DoctorPublishKeeps, DoctorCommitKeeps,
     DoctorPushKeeps, DoctorPrKeeps
<1>4. CASE \/ DoctorRetry(d) \/ DoctorSettle(d) \/ DoctorMerge(d) \/ DoctorNoMerge(d)
           \/ DoctorFinish(d) \/ DoctorUnlock(d)
  BY <1>4, DoctorRetryKeeps, DoctorSettleKeeps, DoctorMergeKeeps, DoctorNoMergeKeeps,
     DoctorFinishKeeps, DoctorUnlockKeeps
<1> QED
  BY <1>1, <1>2, <1>3, <1>4 DEF DoctorStep

LEMMA InvNext == Inv /\ [Next]_vars => Inv'
<1> SUFFICES ASSUME Inv, [Next]_vars PROVE Inv'
  OBVIOUS
<1>1. CASE \E d \in Doctors : DoctorStart(d) \/ DoctorStep(d) \/ DoctorCrash(d)
  BY <1>1, DoctorStartKeeps, StepKeeps, DoctorCrashKeeps
<1>2. CASE LauncherRead \/ LauncherLook \/ LauncherRestart
  BY <1>2, LauncherLooksKeeps
<1>3. CASE LauncherRenew \/ LauncherClear \/ LauncherCreate
  BY <1>3, LauncherRenewKeeps, LauncherClearKeeps, LauncherCreateKeeps
<1>4. CASE \E mode \in Modes : Operate(mode)
  BY <1>4, OperateKeeps
<1>5. CASE ClearLook \/ ClearRead \/ ClearTerminal
  BY <1>5, ClearKeeps
<1>6. CASE LeasePass
  BY <1>6, LeasePassKeeps
<1>7. CASE UNCHANGED vars
  BY <1>7 DEF vars, Inv, Typed, Counted, Safe, Guarded, Chosen, Owned, Held, Reviewed, CommitsReviewed
<1> QED
  BY <1>1, <1>2, <1>3, <1>4, <1>5, <1>6, <1>7 DEF Next

LEMMA InvAlways == Spec => []Inv
BY InvInit, InvNext, PTL DEF Spec

(* Every variable keeps its type.                                          *)
THEOREM TypeCorrect == Spec => []TypeOK
<1>1. Inv => TypeOK
  BY TypedCounted DEF Inv
<1> QED
  BY <1>1, InvAlways, PTL

(* However many runs of repair-latest the launcher and the operator start, *)
(* and whichever of them end or are killed, no two are past acquire_lock   *)
(* together before one of them unlinks a lock that it did not judge.       *)
THEOREM LockExcludes == Spec => []OneDoctorInside
<1>1. Inv => OneDoctorInside
  BY DEF Inv, Safe, Guarded, Held, Locked, OneDoctorInside, OneDoctorAtATime
<1> QED
  BY <1>1, InvAlways, PTL

(* Up to then, what repair_latest commits was reviewed and gated as it is  *)
(* committed, through every retry, crash, resumed worktree and second      *)
(* Doctor.                                                                 *)
THEOREM OnlyReviewedIsCommitted == Spec => [](~raced => CommitsReviewed)
<1>1. Inv => (~raced => CommitsReviewed)
  BY DEF Inv, Safe, Guarded
<1> QED
  BY <1>1, InvAlways, PTL

-----------------------------------------------------------------------------
(* A Doctor that runs alone judges and unlinks a lock that nobody touches. *)

Undisturbed(d) == ~raced /\ (doc[d].pc \in {"judge", "unlink"} => lock = Dead)

LEMMA UndisturbedNext ==
  ASSUME NEW d, Doctors = {d}, Inv, Undisturbed(d), [Next]_vars
  PROVE  Undisturbed(d)'
<1>1. /\ d \in Doctors /\ doc[d] \in Locals /\ doc \in [Doctors -> Locals]
      /\ lock \in {d, Free, Dead, Blank} /\ Dead # d /\ Free # Dead
  BY Before, DoctorAssumption DEF DoctorAssumption, Inv, Typed, Counted
<1>2. Inv'
  BY InvNext
<1>3. CASE DoctorStart(d) \/ DoctorCreate(d)
  <2>1. doc'[d].pc \in {"lock", "write"} /\ raced' = raced
    BY <1>1, <1>3, ReadType, ClaimOf, Names DEF DoctorStart, DoctorCreate, Become, Locals, DoctorOnly,
       Others, Inv, Typed
  <2> QED
    BY <2>1 DEF Undisturbed
<1>4. CASE DoctorCreateFails(d) \/ DoctorReadPid(d) \/ DoctorJudge(d)
  <2>1. lock # d /\ UNCHANGED <<lock, raced>>
    BY <1>1, <1>4 DEF DoctorCreateFails, DoctorReadPid, DoctorJudge, DoctorOnly, Others, Inv, Safe,
                      Owned, Locked, Inside
  <2>2. CASE lock = Dead
    BY <2>1, <2>2 DEF Undisturbed
  <2>3. CASE lock # Dead
    <3>1. doc'[d].pc \in {"read", "idle"}
      <4>1. CASE DoctorCreateFails(d)
        BY <1>1, <4>1, FreshType DEF DoctorCreateFails, Become, Locals
      <4>2. CASE DoctorReadPid(d)
        BY <1>1, <2>1, <2>3, <4>2, FreshType DEF DoctorReadPid, HasPid, Become
      <4>3. CASE DoctorJudge(d)
        BY <2>3, <4>3 DEF DoctorJudge, Undisturbed
      <4> QED
        BY <1>4, <4>1, <4>2, <4>3
    <3> QED
      BY <2>1, <3>1 DEF Undisturbed
  <2> QED
    BY <2>2, <2>3
<1>5. CASE DoctorUnlink(d)
  BY <1>1, <1>5 DEF DoctorUnlink, Become, Locals, Undisturbed
<1>6. CASE DoctorUnlock(d) \/ DoctorCrash(d)
  <2>1. doc'[d] = Fresh /\ raced' = raced
    BY <1>1, <1>6 DEF DoctorUnlock, DoctorCrash, Leave, DoctorOnly, Others
  <2> QED
    BY <2>1, FreshType DEF Undisturbed
<1>7. CASE doc[d].pc \in Locked /\ UNCHANGED <<lock, raced>>
  <2>1. lock' = d
    BY <1>1, <1>7 DEF Inv, Safe, Guarded, Held, Undisturbed
  <2> QED
    BY <1>1, <1>2, <1>7, <2>1 DEF Inv, Safe, Owned, Locked, Inside, Undisturbed
<1>8. CASE \/ DoctorWritePid(d) \/ DoctorRecover(d) \/ DoctorOwn(d) \/ DoctorEnter(d)
           \/ DoctorAttempt(d) \/ DoctorRepair(d) \/ DoctorReview(d) \/ DoctorVerdict(d)
           \/ DoctorGate(d) \/ DoctorPublish(d) \/ DoctorCommit(d) \/ DoctorPush(d)
           \/ DoctorPr(d) \/ DoctorRetry(d) \/ DoctorSettle(d) \/ DoctorMerge(d)
           \/ DoctorNoMerge(d) \/ DoctorFinish(d)
  <2>1. doc[d].pc \in Locked /\ UNCHANGED <<lock, raced>>
    BY <1>8 DEF DoctorWritePid, DoctorRecover, DoctorOwn, DoctorEnter, DoctorAttempt, DoctorRepair,
                DoctorReview, DoctorVerdict, DoctorGate, DoctorPublish, DoctorCommit, DoctorPush,
                DoctorPr, DoctorRetry, DoctorSettle, DoctorMerge, DoctorNoMerge, DoctorFinish,
                DoctorOnly, Others, Locked, Inside
  <2> QED
    BY <1>7, <2>1
<1>9. CASE \E e \in Doctors : DoctorStart(e) \/ DoctorStep(e) \/ DoctorCrash(e)
  <2>1. DoctorStart(d) \/ DoctorStep(d) \/ DoctorCrash(d)
    BY <1>9
  <2> QED
    BY <1>3, <1>4, <1>5, <1>6, <1>8, <2>1 DEF DoctorStep
<1>10. CASE \/ LauncherRead \/ LauncherLook \/ LauncherRenew \/ LauncherClear \/ LauncherCreate
            \/ LauncherRestart \/ (\E mode \in Modes : Operate(mode))
            \/ ClearLook \/ ClearRead \/ ClearTerminal
  BY <1>10 DEF LauncherRead, LauncherLook, LauncherRenew, LauncherClear, LauncherCreate,
               LauncherRestart, LauncherOnly, Operate, Others, ClearLook, ClearRead, ClearTerminal,
               Undisturbed
<1>11. CASE LeasePass
  <2> DEFINE m == [doc[d].mem EXCEPT !.lease = Older(doc[d].mem.lease)]
  <2>1. doc'[d] \in {doc[d], [doc[d] EXCEPT !.mem = m]} /\ UNCHANGED <<lock, raced>>
    BY <1>1, <1>11 DEF LeasePass, Others
  <2> HIDE DEF m
  <2>2. doc'[d].pc = doc[d].pc
    BY <1>1, <2>1 DEF Locals
  <2> QED
    BY <2>1, <2>2 DEF Undisturbed
<1>12. CASE UNCHANGED vars
  BY <1>12 DEF vars, Undisturbed
<1> QED
  BY <1>9, <1>10, <1>11, <1>12 DEF Next

(* One repair-latest at a time, started again after every end and crash:   *)
(* everything it commits was reviewed and gated, its own resumed worktree  *)
(* included.                                                               *)
THEOREM AloneCommitsReviewed ==
  ASSUME NEW d, Doctors = {d}
  PROVE  Spec => []CommitsReviewed
<1>1. Init => Undisturbed(d)
  BY FreshType, DoctorAssumption DEF DoctorAssumption, Init, Undisturbed
<1>2. Inv /\ Undisturbed(d) /\ [Next]_vars => Undisturbed(d)'
  BY UndisturbedNext
<1>3. Inv /\ Undisturbed(d) => CommitsReviewed
  BY DEF Inv, Safe, Guarded, Undisturbed
<1> QED
  BY <1>1, <1>2, <1>3, InvAlways, PTL DEF Spec

-----------------------------------------------------------------------------
(* What a run still owes to its claim and to the verdict it got.           *)

Directed == {"enter", "attempt", "repair", "review", "reviewing", "gate", "publish", "commit",
             "push", "pr", "settle"}
Ending   == {"attempt", "settle", "decide", "finish", "unlock"}
Stopping == {"p0", "hard"}

(* A review that found a P0 or a hard P1: nothing was published after it,  *)
(* and the run ends only when its attempts are used up.                    *)
Condemned(me) ==
  /\ ~me.reviewOk /\ me.done = {} /\ me.skip = "none" /\ me.class \in Patchable
  /\ me.pc \in Ending
  /\ Mode # "command" /\ me.pc \in {"decide", "finish"} =>
       me.mem = NoClaim \/ me.attempt >= Budget \/ me.repeated
  /\ Mode # "command" /\ me.pc = "unlock" => ~Soft(me.mem)

OnCourse(me) ==
  /\ me.pc \in Directed => me.class \in Patchable /\ me.skip = "none" /\ Mode # "diagnose"
  /\ me.pc \notin {"push", "pr", "settle", "decide", "finish", "unlock"} => me.done = {}
  /\ me.pc \notin {"finish", "unlock"} => ~me.merged
  /\ me.review \in Stopping => Condemned(me) /\ ~me.merged /\ Mode # "diagnose"

(* A claim in memory is the one of the failure at hand, is active until    *)
(* the run ends it, and has a pull request when the run opened one.        *)
Owns(me, opened) ==
  me.mem # NoClaim =>
    /\ me.mem.class = me.class
    /\ me.pc # "unlock" => Active(me.mem)
    /\ "pr" \in me.done => me.mem.id \in opened

(* A Doctor that took its claim over when the launcher was not about to    *)
(* write it has the claim that control.json has, and the launcher comes to *)
(* no write: it finds the claim active, and the lock with its pid.         *)
Holds(d) ==
  ~raced /\ commands = 0 /\ doc[d].pc \in Holding /\ doc[d].mem # NoClaim /\ ~doc[d].late
    => control.claim = doc[d].mem /\ launch.pc \notin Writing

Waiting ==
  /\ launch.claim # NoClaim => launch.claim.status = "repairing"
  /\ commands = 0 => clear.pc = "idle"

Course ==
  /\ \A d \in Doctors : OnCourse(doc[d]) /\ Owns(doc[d], prs) /\ Holds(d)
  /\ ReleasedIsPublished
  /\ Waiting

-----------------------------------------------------------------------------
(* One step of one Doctor.                                                 *)

LEMMA Becomes ==
  ASSUME doc \in [Doctors -> Locals], NEW d \in Doctors, NEW r, Become(d, r)
  PROVE  doc'[d] = r /\ \A e \in Doctors \ {d} : doc'[e] = doc[e]
BY DEF Become

Alone == UNCHANGED <<raced, launch, clear, commands>>

LEMMA OnlyIsAlone == DoctorOnly => Alone
BY DEF DoctorOnly, Others, Alone

(* The others are outside, and what was opened stays opened.               *)
LEMMA TurnKeeps ==
  ASSUME Inv, Course, NEW d \in Doctors, doc[d].pc \in Inside, Alone,
         \A e \in Doctors \ {d} : doc'[e] = doc[e],
         prs \subseteq prs', OnCourse(doc'[d]), Owns(doc'[d], prs'), Holds(d)',
         ReleasedIsPublished'
  PROVE  Course'
<1>1. Waiting'
  BY DEF Course, Waiting, Alone
<1>2. ASSUME NEW e \in Doctors \ {d}
      PROVE  OnCourse(doc'[e]) /\ Owns(doc'[e], prs') /\ Holds(e)'
  <2>1. OnCourse(doc'[e]) /\ Owns(doc'[e], prs')
    BY DEF Course, Owns
  <2>2. ~raced => doc[e].pc \notin Inside
    BY DEF Inv, Safe, Guarded, Held, Locked
  <2>3. Holds(e)'
    BY <2>2 DEF Holds, Holding, Alone
  <2> QED
    BY <2>1, <2>3
<1> QED
  BY <1>1, <1>2 DEF Course

(* A claim that is written, released only with its pull request.           *)
LEMMA SavedIsPublished ==
  ASSUME Inv, ReleasedIsPublished, NEW c \in MayClaim, Save(c), prs \subseteq prs',
         Skipped = {} /\ c # NoClaim /\ c.class \in Patchable /\ c.status = "released"
           => c.id \in prs'
  PROVE  ReleasedIsPublished' /\ (c # NoClaim => control'.claim = c)
<1>1. control \in Controls
  BY DEF Inv, Typed
<1>2. CASE c = NoClaim
  BY <1>2 DEF Save, ReleasedIsPublished
<1>3. CASE c # NoClaim
  <2>1. control'.claim = c
    BY <1>1, <1>3 DEF Save, Controls
  <2> QED
    BY <2>1, <1>3 DEF ReleasedIsPublished
<1> QED
  BY <1>2, <1>3

LEMMA UnwrittenIsPublished ==
  ASSUME ReleasedIsPublished, control' = control, prs \subseteq prs'
  PROVE  ReleasedIsPublished'
BY DEF ReleasedIsPublished

LEMMA WithParts ==
  ASSUME NEW c \in MayClaim, NEW s, NEW n, NEW l, With(c, s, n, l) # NoClaim
  PROVE  /\ c # NoClaim
         /\ With(c, s, n, l).class = c.class /\ With(c, s, n, l).id = c.id
         /\ With(c, s, n, l).status = s
BY ClaimType DEF With, MayClaim

(* A step that puts a record into place, and writes its claim or leaves    *)
(* both copies of it alone.                                                *)
Took(me, r) ==
  \/ me.pc \in Holding /\ (me.late => r.late) /\ (me.mem = NoClaim => r.mem = NoClaim)
  \/ launch.pc \in Writing => r.late

LEMMA PutKeeps ==
  ASSUME Inv, Course, NEW d \in Doctors, doc[d].pc \in Inside, NEW r, Become(d, r), Alone,
         r.mem \in MayClaim, prs \subseteq prs', OnCourse(r), Owns(r, prs'), Took(doc[d], r),
         \/ Save(r.mem) /\ (r.pc # "unlock" \/ (Skipped = {} /\ r.mem # NoClaim
              /\ r.mem.class \in Patchable /\ r.mem.status = "released" => r.mem.id \in prs'))
         \/ control' = control /\ r.mem = doc[d].mem /\ (r.pc \in Holding => doc[d].pc \in Holding)
              /\ (doc[d].late => r.late)
  PROVE  Course'
<1>1. doc'[d] = r /\ \A e \in Doctors \ {d} : doc'[e] = doc[e]
  BY Becomes DEF Inv, Typed
<1>2. CASE Save(r.mem) /\ (r.pc # "unlock" \/ (Skipped = {} /\ r.mem # NoClaim
              /\ r.mem.class \in Patchable /\ r.mem.status = "released" => r.mem.id \in prs'))
  <2>1. Skipped = {} /\ r.mem # NoClaim /\ r.mem.class \in Patchable /\ r.mem.status = "released"
          => r.mem.id \in prs'
    BY <1>2 DEF Owns, Active, ActiveStatus
  <2>2. ReleasedIsPublished' /\ (r.mem # NoClaim => control'.claim = r.mem)
    BY <1>2, <2>1, SavedIsPublished DEF Course
  <2>3. ASSUME ~raced, commands = 0, r.mem # NoClaim, ~r.late PROVE launch.pc \notin Writing
    BY <2>3 DEF Took, Course, Holds
  <2>4. Holds(d)'
    BY <1>1, <2>2, <2>3 DEF Holds, Alone
  <2> QED
    BY <1>1, <2>2, <2>4, TurnKeeps
<1>3. CASE control' = control /\ r.mem = doc[d].mem /\ (r.pc \in Holding => doc[d].pc \in Holding)
              /\ (doc[d].late => r.late)
  <2>1. Holds(d)'
    BY <1>1, <1>3 DEF Holds, Course, Alone
  <2>2. ReleasedIsPublished'
    BY <1>3, UnwrittenIsPublished DEF Course
  <2> QED
    BY <1>1, <2>1, <2>2, TurnKeeps
<1> QED
  BY <1>2, <1>3

(* What a step that moves on keeps of the record.                          *)
Alike(r, me) ==
  /\ r.class = me.class /\ r.skip = me.skip /\ r.done = me.done /\ r.review = me.review
  /\ r.attempt = me.attempt
  /\ r.merged => me.merged
  /\ r.reviewOk => me.reviewOk
  /\ me.repeated => r.repeated
  /\ me.late => r.late

LEMMA MovesOn ==
  ASSUME NEW me \in Locals, NEW pc, NEW mem
  PROVE  /\ Alike([me EXCEPT !.pc = pc, !.mem = mem], me)
         /\ [me EXCEPT !.pc = pc, !.mem = mem].pc = pc
         /\ [me EXCEPT !.pc = pc, !.mem = mem].mem = mem
         /\ Alike([me EXCEPT !.pc = pc], me)
         /\ [me EXCEPT !.pc = pc].pc = pc
         /\ [me EXCEPT !.pc = pc].mem = me.mem
BY DEF Alike, Locals

(* From one place of the attempt to the next.                              *)
LEMMA OnwardKeeps ==
  ASSUME Inv, Course, NEW d \in Doctors, doc[d].pc \in Directed,
         NEW pc \in Directed \ {"enter", "attempt"}, NEW s \in ActiveStatus,
         doc[d].pc \notin Ending, pc = "settle" \/ doc[d].done = {},
         LET mem == With(doc[d].mem, s, doc[d].attempt, "live")
         IN  Save(mem) /\ Become(d, [doc[d] EXCEPT !.pc = pc, !.mem = mem]),
         prs' = prs, DoctorOnly
  PROVE  Course'
<1> DEFINE mem == With(doc[d].mem, s, doc[d].attempt, "live")
           r == [doc[d] EXCEPT !.pc = pc, !.mem = mem]
<1>1. doc[d] \in Locals /\ doc[d].mem \in MayClaim /\ doc[d].attempt \in Nat /\ s \in Statuses
  BY Before DEF Statuses
<1>2. mem \in MayClaim
  BY <1>1, WithType, Names
<1>3. mem # NoClaim => /\ doc[d].mem # NoClaim /\ mem.class = doc[d].mem.class
                       /\ mem.id = doc[d].mem.id /\ mem.status = s
  BY <1>1, WithParts
<1>4. Save(mem) /\ Become(d, r)
  OBVIOUS
<1> HIDE DEF mem
<1>5. Alike(r, doc[d]) /\ r.pc = pc /\ r.mem = mem
  BY <1>1 DEF Alike, Locals
<1> HIDE DEF r
<1>6. OnCourse(doc[d]) /\ Owns(doc[d], prs)
  BY DEF Course
<1>7. OnCourse(r)
  BY <1>5, <1>6 DEF OnCourse, Condemned, Alike, Directed, Ending
<1>8. Owns(r, prs')
  BY <1>3, <1>5, <1>6 DEF Owns, Active, Alike
<1>9. doc[d].pc \in Inside /\ r.pc # "unlock" /\ Took(doc[d], r)
  BY <1>3, <1>5 DEF Directed, Inside, Took, Holding, Alike
<1> QED
  BY <1>2, <1>4, <1>5, <1>7, <1>8, <1>9, PutKeeps, OnlyIsAlone

LEMMA ReviewStays ==
  ASSUME Inv, Course, NEW d \in Doctors, DoctorReview(d)
  PROVE  Course'
<1>1. doc[d].pc = "review" /\ doc[d].done = {}
  BY DEF DoctorReview, Course, OnCourse
<1> QED
  BY <1>1, OnwardKeeps DEF DoctorReview, Directed, Ending, ActiveStatus, History

LEMMA PublishStays ==
  ASSUME Inv, Course, NEW d \in Doctors, DoctorPublish(d)
  PROVE  Course'
<1>1. doc[d].pc = "publish" /\ doc[d].done = {}
  BY DEF DoctorPublish, Course, OnCourse
<1> QED
  BY <1>1, OnwardKeeps DEF DoctorPublish, Directed, Ending, ActiveStatus, History

(* A step of one that is outside, before or after it.                      *)
LEMMA AsideKeeps ==
  ASSUME Inv, Course, NEW d \in Doctors, \A e \in Doctors \ {d} : doc'[e] = doc[e],
         UNCHANGED <<control, prs, launch, clear, commands>>, raced => raced',
         OnCourse(doc'[d]), Owns(doc'[d], prs'), doc'[d].pc \notin Holding
  PROVE  Course'
<1>1. \A e \in Doctors \ {d} : OnCourse(doc'[e]) /\ Owns(doc'[e], prs') /\ Holds(e)'
  BY DEF Course, Holds
<1>2. Holds(d)'
  BY DEF Holds
<1>3. ReleasedIsPublished' /\ Waiting'
  BY DEF Course, ReleasedIsPublished, Waiting
<1> QED
  BY <1>1, <1>2, <1>3 DEF Course

LEMMA FreshIsOnCourse ==
  ASSUME NEW opened
  PROVE  OnCourse(Fresh) /\ Owns(Fresh, opened) /\ Fresh.pc \notin Holding
BY DEF Fresh, OnCourse, Owns, Condemned, Directed, Ending, Stopping, Holding, Inside

(* What d saw does not matter.                                             *)
LEMMA SeenIsOnCourse ==
  ASSUME NEW me \in Locals, NEW x, NEW r, r = [me EXCEPT !.saw = x], NEW opened,
         OnCourse(me), Owns(me, opened)
  PROVE  /\ OnCourse(r) /\ Owns(r, opened)
         /\ r.pc = me.pc /\ r.mem = me.mem /\ r.late = me.late
<1>1. Alike(r, me) /\ r.pc = me.pc /\ r.mem = me.mem /\ r.late = me.late
  BY DEF Alike, Locals
<1>2. OnCourse(r) /\ Owns(r, opened)
  BY <1>1 DEF OnCourse, Owns, Condemned, Alike
<1> QED
  BY <1>1, <1>2

LEMMA LeavingKeeps ==
  ASSUME Inv, Course, NEW d \in Doctors, Leave(d),
         UNCHANGED <<control, prs, raced, launch, clear, commands>>
  PROVE  Course'
<1>1. doc'[d] = Fresh /\ \A e \in Doctors \ {d} : doc'[e] = [doc[e] EXCEPT !.saw = doc'[e].saw]
  BY LeaveType DEF Inv, Typed
<1>2. ASSUME NEW e \in Doctors \ {d}
      PROVE  OnCourse(doc'[e]) /\ Owns(doc'[e], prs') /\ Holds(e)'
  <2>1. doc[e] \in Locals /\ OnCourse(doc[e]) /\ Owns(doc[e], prs) /\ Holds(e)
    BY Before DEF Course
  <2>2. /\ OnCourse(doc'[e]) /\ Owns(doc'[e], prs)
        /\ doc'[e].pc = doc[e].pc /\ doc'[e].mem = doc[e].mem /\ doc'[e].late = doc[e].late
    BY <1>1, <2>1, SeenIsOnCourse
  <2> QED
    BY <2>1, <2>2 DEF Holds
<1>3. OnCourse(doc'[d]) /\ Owns(doc'[d], prs') /\ Holds(d)'
  BY <1>1, FreshIsOnCourse DEF Holds
<1>4. ReleasedIsPublished' /\ Waiting'
  BY DEF Course, ReleasedIsPublished, Waiting
<1> QED
  BY <1>2, <1>3, <1>4 DEF Course

(* What Read makes of a record that has nothing to show yet.               *)
LEMMA ReadIsOnCourse ==
  ASSUME Inv, Course, NEW d \in Doctors, doc[d].pc \in {"idle", "recover"},
         NEW claim \in MayClaim, NEW next \in {"lock", "own"}, Read(d, claim, next), NEW opened
  PROVE  /\ OnCourse(doc'[d]) /\ Owns(doc'[d], opened) /\ doc'[d].pc = next
         /\ \A e \in Doctors \ {d} : doc'[e] = doc[e]
<1> DEFINE mine == ~Blocked /\ Active(claim)
<1>1. PICK class \in IF mine THEN {claim.class} ELSE Classes, skip \in Skips :
        Become(d, [doc[d] EXCEPT !.pc = next, !.skip = skip, !.class = class,
                                 !.mem = IF mine THEN claim ELSE NoClaim,
                                 !.attempt = IF mine THEN claim.attempt ELSE 1])
  BY Zenon DEF Read, Skips
<1> DEFINE m == IF mine THEN claim ELSE NoClaim
           n == IF mine THEN claim.attempt ELSE 1
           r == [doc[d] EXCEPT !.pc = next, !.skip = skip, !.class = class, !.mem = m, !.attempt = n]
<1>2. Become(d, r)
  BY <1>1
<1>3. m # NoClaim => mine /\ m = claim /\ class = claim.class
  BY <1>1
<1>4. m # NoClaim => Active(m) /\ class = m.class
  BY <1>3
<1>5. doc[d] \in Locals
  BY Before
<1> HIDE DEF m, n, mine
<1>6. /\ r.pc = next /\ r.mem = m /\ r.class = class /\ r.done = doc[d].done
      /\ r.review = doc[d].review /\ (r.merged => doc[d].merged)
  BY <1>5 DEF Locals
<1> HIDE DEF r
<1>7. doc[d].done = {} /\ ~doc[d].merged /\ doc[d].review \notin Stopping
  BY DEF Course, OnCourse, Condemned, Ending
<1>8. OnCourse(r) /\ Owns(r, opened)
  BY <1>4, <1>6, <1>7 DEF OnCourse, Owns, Directed
<1> QED
  BY <1>2, <1>6, <1>8, Becomes DEF Inv, Typed

LEMMA StartStays ==
  ASSUME Inv, Course, NEW d \in Doctors, DoctorStart(d)
  PROVE  Course'
<1>1. /\ OnCourse(doc'[d]) /\ Owns(doc'[d], prs') /\ doc'[d].pc = "lock"
      /\ \A e \in Doctors \ {d} : doc'[e] = doc[e]
  BY ReadIsOnCourse, ClaimOf DEF DoctorStart, Inv, Typed
<1> QED
  BY <1>1, AsideKeeps DEF DoctorStart, DoctorOnly, Others, History, Holding, Inside

(* A step of acquire_lock that goes on.                                    *)
LEMMA LockingKeeps ==
  ASSUME Inv, Course, NEW d \in Doctors, doc[d].pc \in Outside \ {"idle"},
         NEW pc \in Outside \cup {"recover"}, NEW x,
         \/ Become(d, [doc[d] EXCEPT !.pc = pc]) \/ Become(d, [doc[d] EXCEPT !.pc = pc, !.saw = x]),
         UNCHANGED <<control, prs, launch, clear, commands>>, raced => raced'
  PROVE  Course'
<1>1. /\ Alike(doc'[d], doc[d]) /\ doc'[d].pc = pc /\ doc'[d].mem = doc[d].mem
      /\ \A e \in Doctors \ {d} : doc'[e] = doc[e]
  <2>1. CASE Become(d, [doc[d] EXCEPT !.pc = pc])
    <3> DEFINE r == [doc[d] EXCEPT !.pc = pc]
    <3>1. Alike(r, doc[d]) /\ r.pc = pc /\ r.mem = doc[d].mem
      BY Before DEF Alike, Locals
    <3> HIDE DEF r
    <3>2. Become(d, r)
      BY <2>1 DEF r
    <3> QED
      BY <3>1, <3>2, Becomes DEF Inv, Typed
  <2>2. CASE Become(d, [doc[d] EXCEPT !.pc = pc, !.saw = x])
    <3> DEFINE r == [doc[d] EXCEPT !.pc = pc, !.saw = x]
    <3>1. Alike(r, doc[d]) /\ r.pc = pc /\ r.mem = doc[d].mem
      BY Before DEF Alike, Locals
    <3> HIDE DEF r
    <3>2. Become(d, r)
      BY <2>2 DEF r
    <3> QED
      BY <3>1, <3>2, Becomes DEF Inv, Typed
  <2> QED
    BY <2>1, <2>2
<1>2. OnCourse(doc[d]) /\ Owns(doc[d], prs)
  BY DEF Course
<1>3. OnCourse(doc'[d]) /\ Owns(doc'[d], prs')
  BY <1>1, <1>2 DEF OnCourse, Owns, Condemned, Alike, Directed, Ending, Outside
<1> QED
  BY <1>1, <1>3, AsideKeeps DEF Holding, Inside, Outside

(* One that gives up: it never owned the lock.                             *)
LEMMA RefusedKeeps ==
  ASSUME Inv, Course, NEW d \in Doctors, Become(d, Fresh), DoctorOnly, UNCHANGED <<control, prs>>
  PROVE  Course'
<1>1. doc'[d] = Fresh /\ \A e \in Doctors \ {d} : doc'[e] = doc[e]
  BY Becomes DEF Inv, Typed
<1> QED
  BY <1>1, FreshIsOnCourse, AsideKeeps DEF DoctorOnly, Others

LEMMA LockStays ==
  ASSUME Inv, Course, NEW d \in Doctors,
         \/ DoctorCreate(d) \/ DoctorCreateFails(d) \/ DoctorWritePid(d)
         \/ DoctorReadPid(d) \/ DoctorJudge(d) \/ DoctorUnlink(d)
  PROVE  Course'
<1>1. CASE DoctorCreate(d)
  BY <1>1, LockingKeeps DEF DoctorCreate, DoctorOnly, Others, History, Outside
<1>2. CASE DoctorCreateFails(d)
  BY <1>2, LockingKeeps, RefusedKeeps DEF DoctorCreateFails, DoctorOnly, Others, History, Outside
<1>3. CASE DoctorWritePid(d)
  BY <1>3, LockingKeeps DEF DoctorWritePid, DoctorOnly, Others, History, Outside
<1>4. CASE DoctorReadPid(d)
  BY <1>4, LockingKeeps, RefusedKeeps DEF DoctorReadPid, DoctorOnly, Others, History, Outside
<1>5. CASE DoctorJudge(d)
  BY <1>5, LockingKeeps, RefusedKeeps DEF DoctorJudge, DoctorOnly, Others, History, Outside
<1>6. CASE DoctorUnlink(d)
  BY <1>6, LockingKeeps DEF DoctorUnlink, History, Outside
<1> QED
  BY <1>1, <1>2, <1>3, <1>4, <1>5, <1>6

LEMMA RecoverStays ==
  ASSUME Inv, Course, NEW d \in Doctors, DoctorRecover(d)
  PROVE  Course'
<1>1. /\ doc[d].pc = "recover" /\ doc[d].pc \in Inside /\ prs' = prs /\ Alone
      /\ control \in Controls /\ control.claim \in MayClaim /\ NoClaim \in MayClaim
  BY Before DEF DoctorRecover, History, Inside, MayClaim, Others, Alone
<1>2. /\ OnCourse(doc'[d]) /\ Owns(doc'[d], prs') /\ doc'[d].pc = "own"
      /\ \A e \in Doctors \ {d} : doc'[e] = doc[e]
  <2>1. CASE Become(d, [doc[d] EXCEPT !.pc = "own"])
    <3> DEFINE r == [doc[d] EXCEPT !.pc = "own"]
    <3>1. doc'[d] = r /\ \A e \in Doctors \ {d} : doc'[e] = doc[e]
      BY <2>1, Becomes DEF Inv, Typed
    <3>2. Alike(r, doc[d]) /\ r.pc = "own" /\ r.mem = doc[d].mem
      BY Before, MovesOn
    <3> HIDE DEF r
    <3>3. OnCourse(r) /\ Owns(r, prs')
      BY <1>1, <3>2 DEF Course, OnCourse, Owns, Condemned, Alike, Directed, Ending
    <3> QED
      BY <3>1, <3>2, <3>3
  <2>2. CASE Read(d, control.claim, "own")
    BY <1>1, <2>2, ReadIsOnCourse
  <2>3. CASE Read(d, NoClaim, "own")
    BY <1>1, <2>3, ReadIsOnCourse
  <2> QED
    BY <2>1, <2>2, <2>3 DEF DoctorRecover
<1>3. ReleasedIsPublished'
  <2>1. CASE control' = control
    BY <1>1, <2>1, UnwrittenIsPublished DEF Course
  <2>2. CASE control' = [control EXCEPT !.claim = NoClaim]
    BY <1>1, <2>2 DEF Controls, ReleasedIsPublished
  <2> QED
    BY <2>1, <2>2 DEF DoctorRecover
<1>4. Holds(d)'
  BY <1>2 DEF Holds, Holding
<1> QED
  BY <1>1, <1>2, <1>3, <1>4, TurnKeeps

LEMMA OwnStays ==
  ASSUME Inv, Course, NEW d \in Doctors, DoctorOwn(d)
  PROVE  Course'
<1> DEFINE mem == IF doc[d].mem = NoClaim THEN NoClaim ELSE [doc[d].mem EXCEPT !.status = "repairing"]
           pc == IF doc[d].skip = "none" /\ Direct(d) THEN "enter" ELSE "decide"
           ok == doc[d].skip = "none" /\ Mode = "diagnose" /\ doc[d].class = "transient"
           late == launch.pc \in Writing
           r == [doc[d] EXCEPT !.mem = mem, !.late = late, !.pc = pc, !.repairOk = ok]
<1>1. Become(d, r) /\ Save(mem) /\ doc[d].pc = "own" /\ doc[d].pc \in Inside /\ prs' = prs /\ Alone
  BY OnlyIsAlone DEF DoctorOwn, Inside, History
<1>2. doc[d] \in Locals /\ doc[d].mem \in MayClaim
  BY Before
<1>3. mem \in MayClaim
  BY <1>2, WithType, Names, 0 \in Nat DEF MayClaim
<1>4. mem # NoClaim => doc[d].mem # NoClaim /\ mem.class = doc[d].mem.class /\ mem.status = "repairing"
  BY <1>2, ClaimType DEF MayClaim
<1>5. pc \in {"enter", "decide"} /\ (pc = "enter" => doc[d].skip = "none" /\ Direct(d))
  OBVIOUS
<1>12. launch.pc \in Writing => late
  OBVIOUS
<1> HIDE DEF mem, pc, ok, late
<1>6. /\ r.pc = pc /\ r.mem = mem /\ r.class = doc[d].class /\ r.skip = doc[d].skip
      /\ r.done = doc[d].done /\ r.review = doc[d].review /\ (r.merged => doc[d].merged)
      /\ (late => r.late)
  BY <1>2 DEF Locals
<1> HIDE DEF r
<1>7. OnCourse(doc[d]) /\ Owns(doc[d], prs)
  BY DEF Course
<1>8. doc[d].done = {} /\ ~doc[d].merged /\ doc[d].review \notin Stopping
  BY <1>1, <1>7 DEF OnCourse, Condemned, Ending
<1>9. OnCourse(r)
  BY <1>5, <1>6, <1>8 DEF OnCourse, Directed, Direct
<1>10. Owns(r, prs')
  BY <1>4, <1>6, <1>7, <1>8 DEF Owns, Active, ActiveStatus
<1>11. r.pc # "unlock" /\ Took(doc[d], r)
  BY <1>5, <1>6, <1>12 DEF Took
<1> QED
  BY <1>1, <1>3, <1>6, <1>9, <1>10, <1>11, PutKeeps

LEMMA EnterStays ==
  ASSUME Inv, Course, NEW d \in Doctors, DoctorEnter(d)
  PROVE  Course'
<1> DEFINE back == IF tree.diff = "evidence" THEN "cleanup" ELSE doc[d].skip
           r1 == [doc[d] EXCEPT !.pc = "attempt", !.resume = tree.diff = "repair"]
           r2 == [doc[d] EXCEPT !.pc = "decide", !.skip = back]
<1>1. /\ doc[d].pc = "enter" /\ doc[d].pc \in Inside /\ doc[d].pc \in Holding /\ prs' = prs
      /\ Alone
  BY OnlyIsAlone DEF DoctorEnter, Inside, Holding, History
<1>2. doc[d] \in Locals /\ doc[d].mem \in MayClaim
  BY Before
<1>3. r1.pc = "attempt" /\ r1.mem = doc[d].mem /\ Alike(r1, doc[d])
  BY <1>2 DEF Locals, Alike
<1> HIDE DEF back
<1>4. /\ r2.pc = "decide" /\ r2.mem = doc[d].mem /\ r2.class = doc[d].class
      /\ r2.done = doc[d].done /\ r2.review = doc[d].review /\ (r2.merged => doc[d].merged)
      /\ (doc[d].late => r2.late)
  BY <1>2 DEF Locals
<1> HIDE DEF r1, r2
<1>5. OnCourse(doc[d]) /\ Owns(doc[d], prs)
  BY DEF Course
<1>6. doc[d].done = {} /\ ~doc[d].merged /\ doc[d].review \notin Stopping
      /\ doc[d].class \in Patchable /\ doc[d].skip = "none" /\ Mode # "diagnose"
  BY <1>1, <1>5 DEF OnCourse, Condemned, Ending, Directed
<1>7. OnCourse(r1) /\ Owns(r1, prs') /\ OnCourse(r2) /\ Owns(r2, prs')
  BY <1>1, <1>3, <1>4, <1>5, <1>6 DEF OnCourse, Owns, Alike, Directed
<1>10. Took(doc[d], r1) /\ Took(doc[d], r2)
  BY <1>1, <1>3, <1>4 DEF Took, Alike
<1>8. CASE Save(doc[d].mem) /\ Become(d, r1)
  <2>1. Save(r1.mem)
    BY <1>8, <1>3
  <2>2. r1.mem \in MayClaim /\ r1.pc # "unlock"
    BY <1>2, <1>3
  <2> QED
    BY <1>1, <1>7, <1>8, <1>10, <2>1, <2>2, PutKeeps
<1>9. CASE Become(d, r2) /\ control' = control
  <2>1. r2.mem \in MayClaim /\ doc[d].pc \in Holding
    BY <1>1, <1>2, <1>4 DEF Holding
  <2> QED
    BY <1>1, <1>4, <1>7, <1>9, <1>10, <2>1, PutKeeps
<1> QED
  BY <1>8, <1>9 DEF DoctorEnter, r1, r2, back

LEMMA AttemptStays ==
  ASSUME Inv, Course, NEW d \in Doctors, DoctorAttempt(d)
  PROVE  Course'
<1> DEFINE n == IF doc[d].mem = NoClaim THEN doc[d].attempt ELSE doc[d].mem.attempt
           mem == With(doc[d].mem, "repairing", n, "live")
           r == [doc[d] EXCEPT !.pc = "repair", !.mem = mem, !.attempt = n,
                   !.repairOk = TRUE, !.changed = FALSE, !.review = "none", !.reviewOk = TRUE,
                   !.gatesOk = FALSE, !.done = {}, !.strategy = "none", !.repeated = FALSE]
<1>1. Become(d, r) /\ Save(mem) /\ doc[d].pc = "attempt" /\ doc[d].pc \in Inside /\ prs' = prs
      /\ doc[d].pc \in Holding /\ Alone
  BY OnlyIsAlone DEF DoctorAttempt, Inside, Holding
<1>2. doc[d] \in Locals /\ doc[d].mem \in MayClaim /\ n \in Nat
  BY Before, ClaimParts
<1>3. mem \in MayClaim
  BY <1>2, WithType, Names
<1>4. mem # NoClaim => /\ doc[d].mem # NoClaim /\ mem.class = doc[d].mem.class
                       /\ mem.status = "repairing"
  BY <1>2, WithParts
<1> HIDE DEF n, mem
<1>5. /\ r.pc = "repair" /\ r.mem = mem /\ r.class = doc[d].class /\ r.skip = doc[d].skip
      /\ r.done = {} /\ r.review = "none" /\ (r.merged => doc[d].merged)
      /\ (doc[d].late => r.late)
  BY <1>2 DEF Locals
<1> HIDE DEF r
<1>6. OnCourse(doc[d]) /\ Owns(doc[d], prs)
  BY DEF Course
<1>7. OnCourse(r)
  BY <1>1, <1>5, <1>6 DEF OnCourse, Directed, Stopping
<1>8. Owns(r, prs')
  BY <1>4, <1>5, <1>6 DEF Owns, Active, ActiveStatus
<1>9. Took(doc[d], r)
  BY <1>1, <1>4, <1>5 DEF Took
<1> QED
  BY <1>1, <1>3, <1>5, <1>7, <1>8, <1>9, PutKeeps

LEMMA RepairStays ==
  ASSUME Inv, Course, NEW d \in Doctors, DoctorRepair(d)
  PROVE  Course'
<1>1. PICK s \in Strategies, b1 \in BOOLEAN, b2 \in BOOLEAN, b3 \in BOOLEAN, pc \in {"review", "settle"} :
        Become(d, Repaired(doc[d], s, b1, b2, b3, pc))
  <2>1. PICK ok \in BOOLEAN, s \in Strategies,
             diff \in IF doc[d].resume THEN {tree.diff} ELSE {"clean", "evidence", "repair"} :
          LET repeated == s \in doc[d].rejected
              repairOk == ok /\ ~repeated /\ diff # "evidence"
              changed == diff # "clean"
          IN  Become(d, [doc[d] EXCEPT !.resume = FALSE, !.strategy = s, !.repeated = repeated,
                !.repairOk = repairOk, !.changed = changed,
                !.pc = IF repairOk /\ (changed \/ AutoMerge) THEN "review" ELSE "settle"])
    BY ZenonT(40) DEF DoctorRepair
  <2> DEFINE repeated == s \in doc[d].rejected
             repairOk == ok /\ ~repeated /\ diff # "evidence"
             changed == diff # "clean"
             pc == IF repairOk /\ (changed \/ AutoMerge) THEN "review" ELSE "settle"
  <2>2. Become(d, Repaired(doc[d], s, repeated, repairOk, changed, pc))
    BY <2>1 DEF Repaired
  <2>3. repeated \in BOOLEAN /\ repairOk \in BOOLEAN /\ changed \in BOOLEAN /\ pc \in {"review", "settle"}
    OBVIOUS
  <2> HIDE DEF repeated, repairOk, changed, pc
  <2> QED
    BY <2>2, <2>3
<1> DEFINE r == Repaired(doc[d], s, b1, b2, b3, pc)
<1>2. doc[d] \in Locals /\ doc[d].mem \in MayClaim /\ doc[d].pc = "repair"
      /\ doc[d].pc \in Inside /\ doc[d].pc \in Holding /\ control' = control /\ prs' = prs
      /\ Alone
  BY Before, OnlyIsAlone DEF DoctorRepair, Inside, Holding, History
<1>3. /\ r.pc = pc /\ r.mem = doc[d].mem /\ r.class = doc[d].class /\ r.skip = doc[d].skip
      /\ r.done = doc[d].done /\ r.review = doc[d].review /\ (r.merged => doc[d].merged)
      /\ (doc[d].late => r.late)
  BY <1>2 DEF Locals, Repaired
<1>4. Become(d, r)
  BY <1>1
<1> HIDE DEF r
<1>5. OnCourse(doc[d]) /\ Owns(doc[d], prs)
  BY DEF Course
<1>6. OnCourse(r) /\ Owns(r, prs')
  BY <1>2, <1>3, <1>5 DEF OnCourse, Owns, Condemned, Directed, Ending
<1>7. Took(doc[d], r)
  BY <1>2, <1>3 DEF Took
<1> QED
  BY <1>2, <1>3, <1>4, <1>6, <1>7, PutKeeps

LEMMA VerdictStays ==
  ASSUME Inv, Course, NEW d \in Doctors, DoctorVerdict(d)
  PROVE  Course'
<1>1. PICK verdict \in Reviews, again \in BOOLEAN :
        LET override == SoftOverride(doc[d], verdict, again)
            reviewOk == verdict \in {"pass", "notes"} \/ override
            repairOk == ~again
        IN
        /\ again => verdict \in Findings /\ <<doc[d].strategy, verdict>> \in doc[d].history
        /\ tree' = [tree EXCEPT !.verdict = IF override THEN "override" ELSE verdict]
        /\ Become(d, [doc[d] EXCEPT !.review = verdict, !.reviewOk = reviewOk,
              !.repairOk = repairOk,
              !.rejected = IF again THEN @ \cup {doc[d].strategy} ELSE @,
              !.history = IF verdict \in Findings
                          THEN @ \cup {<<doc[d].strategy, verdict>>} ELSE @,
              !.pc = IF repairOk /\ doc[d].changed /\ reviewOk THEN "gate" ELSE "settle"])
  BY Zenon DEF DoctorVerdict
<1> DEFINE reviewOk == verdict \in {"pass", "notes"} \/ SoftOverride(doc[d], verdict, again)
           repairOk == ~again
           rej == IF again THEN doc[d].rejected \cup {doc[d].strategy} ELSE doc[d].rejected
           hist == IF verdict \in Findings
                   THEN doc[d].history \cup {<<doc[d].strategy, verdict>>} ELSE doc[d].history
           pc == IF repairOk /\ doc[d].changed /\ reviewOk THEN "gate" ELSE "settle"
           r == Answered(doc[d], verdict, reviewOk, repairOk, rej, hist, pc)
<1>2. Become(d, r)
  BY <1>1 DEF Answered
<1>3. /\ pc \in {"gate", "settle"}
      /\ (reviewOk => verdict \in {"pass", "notes", "soft"}) /\ (pc = "gate" => reviewOk)
  BY DEF SoftOverride
<1> HIDE DEF reviewOk, repairOk, rej, hist, pc
<1>4. doc[d] \in Locals /\ doc[d].mem \in MayClaim /\ doc[d].pc = "reviewing"
      /\ doc[d].pc \in Inside /\ doc[d].pc \in Holding /\ control' = control /\ prs' = prs
      /\ Alone
  BY Before, OnlyIsAlone DEF DoctorVerdict, Inside, Holding, History
<1>5. /\ r.pc = pc /\ r.mem = doc[d].mem /\ r.class = doc[d].class /\ r.skip = doc[d].skip
      /\ r.done = doc[d].done /\ r.review = verdict /\ (r.merged => doc[d].merged)
      /\ (r.reviewOk => reviewOk) /\ (doc[d].late => r.late)
  BY <1>4 DEF Locals, Answered
<1> HIDE DEF r
<1>6. OnCourse(doc[d]) /\ Owns(doc[d], prs)
  BY DEF Course
<1>7. OnCourse(r)
  BY <1>3, <1>4, <1>5, <1>6 DEF OnCourse, Condemned, Directed, Ending, Stopping
<1>8. Owns(r, prs')
  BY <1>3, <1>4, <1>5, <1>6 DEF Owns
<1>9. Took(doc[d], r)
  BY <1>4, <1>5 DEF Took
<1> QED
  BY <1>2, <1>3, <1>4, <1>5, <1>7, <1>8, <1>9, PutKeeps

LEMMA GateStays ==
  ASSUME Inv, Course, NEW d \in Doctors, DoctorGate(d)
  PROVE  Course'
<1> DEFINE mem == With(doc[d].mem, "repairing", doc[d].attempt, "live")
<1>1. PICK ok \in BOOLEAN :
        Become(d, [doc[d] EXCEPT !.mem = mem, !.gatesOk = ok,
             !.pc = IF ok /\ "commit" \notin Skipped THEN "publish" ELSE "settle"])
  BY Zenon DEF DoctorGate
<1> DEFINE pc == IF ok /\ "commit" \notin Skipped THEN "publish" ELSE "settle"
           r == [doc[d] EXCEPT !.mem = mem, !.gatesOk = ok, !.pc = pc]
<1>2. Become(d, r) /\ Save(mem) /\ doc[d].pc = "gate" /\ doc[d].pc \in Inside /\ prs' = prs
      /\ doc[d].pc \in Holding /\ Alone
  BY <1>1, OnlyIsAlone DEF DoctorGate, Inside, Holding, History
<1>3. doc[d] \in Locals /\ doc[d].mem \in MayClaim /\ doc[d].attempt \in Nat
  BY Before
<1>4. mem \in MayClaim
  BY <1>3, WithType, Names
<1>5. mem # NoClaim => /\ doc[d].mem # NoClaim /\ mem.class = doc[d].mem.class
                       /\ mem.id = doc[d].mem.id /\ mem.status = "repairing"
  BY <1>3, WithParts
<1>6. pc \in {"publish", "settle"}
  OBVIOUS
<1> HIDE DEF mem, pc
<1>7. r.pc = pc /\ r.mem = mem /\ Alike(r, doc[d])
  BY <1>3 DEF Locals, Alike
<1> HIDE DEF r
<1>8. OnCourse(doc[d]) /\ Owns(doc[d], prs)
  BY DEF Course
<1>9. OnCourse(r)
  BY <1>2, <1>6, <1>7, <1>8 DEF OnCourse, Condemned, Alike, Directed, Ending
<1>10. Owns(r, prs')
  BY <1>2, <1>5, <1>7, <1>8 DEF Owns, Active, ActiveStatus, Alike
<1>11. r.pc # "unlock" /\ Took(doc[d], r)
  BY <1>2, <1>5, <1>6, <1>7 DEF Took, Alike
<1> QED
  BY <1>2, <1>4, <1>7, <1>9, <1>10, <1>11, PutKeeps

(* A step of the publication: it succeeds, or the run goes on without it.  *)
LEMMA PublishedKeeps ==
  ASSUME Inv, Course, NEW d \in Doctors, doc[d].pc \in {"commit", "push", "pr"},
         NEW done, NEW pc \in {"push", "pr", "settle"},
         Become(d, [doc[d] EXCEPT !.done = done, !.pc = pc]), control' = control,
         prs \subseteq prs', DoctorOnly,
         "pr" \in done /\ doc[d].mem # NoClaim => doc[d].mem.id \in prs'
  PROVE  Course'
<1> DEFINE r == [doc[d] EXCEPT !.done = done, !.pc = pc]
<1>1. doc[d] \in Locals /\ doc[d].mem \in MayClaim
  BY Before
<1>2. /\ r.pc = pc /\ r.mem = doc[d].mem /\ r.class = doc[d].class /\ r.skip = doc[d].skip
      /\ r.done = done /\ r.review = doc[d].review /\ (r.merged => doc[d].merged)
      /\ (doc[d].late => r.late)
  BY <1>1 DEF Locals
<1>3. Become(d, r)
  OBVIOUS
<1> HIDE DEF r
<1>4. OnCourse(doc[d]) /\ Owns(doc[d], prs)
  BY DEF Course
<1>5. doc[d].review \notin Stopping
  BY <1>4 DEF OnCourse, Condemned, Ending
<1>6. OnCourse(r)
  BY <1>2, <1>4, <1>5 DEF OnCourse, Directed
<1>7. Owns(r, prs')
  BY <1>2, <1>4 DEF Owns
<1>8. doc[d].pc \in Inside /\ doc[d].pc \in Holding /\ Took(doc[d], r)
  BY <1>2 DEF Inside, Holding, Took
<1> QED
  BY <1>1, <1>2, <1>3, <1>6, <1>7, <1>8, PutKeeps, OnlyIsAlone

LEMMA UnpublishedKeeps ==
  ASSUME Inv, Course, NEW d \in Doctors, doc[d].pc \in {"commit", "push", "pr"},
         Become(d, [doc[d] EXCEPT !.pc = "settle"]), control' = control, prs' = prs,
         DoctorOnly
  PROVE  Course'
<1>1. [doc[d] EXCEPT !.pc = "settle"] = [doc[d] EXCEPT !.done = doc[d].done, !.pc = "settle"]
  BY Before DEF Locals
<1>2. "pr" \in doc[d].done /\ doc[d].mem # NoClaim => doc[d].mem.id \in prs'
  BY DEF Course, Owns
<1> QED
  BY <1>1, <1>2, PublishedKeeps

LEMMA CommitStays ==
  ASSUME Inv, Course, NEW d \in Doctors, DoctorCommit(d)
  PROVE  Course'
<1>1. DoctorOnly /\ doc[d].pc = "commit" /\ control' = control /\ prs' = prs
      /\ After("commit") \in {"push", "pr", "settle"}
  BY DEF DoctorCommit, After
<1>2. CASE Become(d, [doc[d] EXCEPT !.done = {"commit"}, !.pc = After("commit")])
  BY <1>1, <1>2, PublishedKeeps
<1>3. CASE Become(d, [doc[d] EXCEPT !.pc = "settle"])
  BY <1>1, <1>3, UnpublishedKeeps
<1> QED
  BY <1>2, <1>3 DEF DoctorCommit

LEMMA PushStays ==
  ASSUME Inv, Course, NEW d \in Doctors, DoctorPush(d)
  PROVE  Course'
<1>1. DoctorOnly /\ doc[d].pc = "push" /\ control' = control /\ prs' = prs
      /\ After("push") \in {"push", "pr", "settle"}
  BY DEF DoctorPush, History, After
<1>2. "pr" \in doc[d].done \cup {"push"} /\ doc[d].mem # NoClaim => doc[d].mem.id \in prs'
  BY <1>1 DEF Course, Owns
<1>3. CASE Become(d, [doc[d] EXCEPT !.done = doc[d].done \cup {"push"}, !.pc = After("push")])
  BY <1>1, <1>2, <1>3, PublishedKeeps
<1>4. CASE Become(d, [doc[d] EXCEPT !.pc = "settle"])
  BY <1>1, <1>4, UnpublishedKeeps
<1> QED
  BY <1>3, <1>4 DEF DoctorPush

LEMMA PrStays ==
  ASSUME Inv, Course, NEW d \in Doctors, DoctorPr(d)
  PROVE  Course'
<1>1. DoctorOnly /\ doc[d].pc = "pr" /\ control' = control
  BY DEF DoctorPr
<1>2. CASE /\ Become(d, [doc[d] EXCEPT !.done = doc[d].done \cup {"pr"}, !.pc = "settle"])
           /\ prs' = IF doc[d].mem = NoClaim THEN prs ELSE prs \cup {doc[d].mem.id}
  BY <1>1, <1>2, PublishedKeeps
<1>3. CASE Become(d, [doc[d] EXCEPT !.pc = "settle"]) /\ prs' = prs
  BY <1>1, <1>3, UnpublishedKeeps
<1> QED
  BY <1>2, <1>3 DEF DoctorPr

LEMMA RetryStays ==
  ASSUME Inv, Course, NEW d \in Doctors, DoctorRetry(d)
  PROVE  Course'
<1> DEFINE mem == With(doc[d].mem, "repairing", doc[d].attempt + 1, "live")
           r == [doc[d] EXCEPT !.pc = "attempt", !.mem = mem]
<1>1. /\ Become(d, r) /\ Save(mem) /\ doc[d].pc = "settle" /\ doc[d].pc \in Inside
      /\ prs' = prs /\ Retries(doc[d]) /\ doc[d].pc \in Holding /\ Alone
  BY OnlyIsAlone DEF DoctorRetry, Inside, Holding, History
<1>2. doc[d] \in Locals /\ doc[d].mem \in MayClaim /\ doc[d].attempt + 1 \in Nat
  BY Before
<1>3. mem \in MayClaim
  BY <1>2, WithType, Names
<1>4. mem # NoClaim => /\ doc[d].mem # NoClaim /\ mem.class = doc[d].mem.class
                       /\ mem.id = doc[d].mem.id /\ mem.status = "repairing"
  BY <1>2, WithParts
<1> HIDE DEF mem
<1>5. r.pc = "attempt" /\ r.mem = mem /\ Alike(r, doc[d])
  BY <1>2 DEF Locals, Alike
<1> HIDE DEF r
<1>6. OnCourse(doc[d]) /\ Owns(doc[d], prs) /\ doc[d].done = {}
  BY <1>1 DEF Course, Retries, Blocker
<1>7. OnCourse(r)
  BY <1>1, <1>5, <1>6 DEF OnCourse, Condemned, Alike, Directed, Ending
<1>8. Owns(r, prs')
  BY <1>1, <1>4, <1>5, <1>6 DEF Owns, Active, ActiveStatus, Alike
<1>9. Took(doc[d], r)
  BY <1>1, <1>4, <1>5 DEF Took, Alike
<1> QED
  BY <1>1, <1>3, <1>5, <1>7, <1>8, <1>9, PutKeeps

(* A condemned run does not settle before its attempts are used up.        *)
LEMMA SettledWhenExhausted ==
  ASSUME NEW me \in Locals, OnCourse(me), me.review \in Stopping, me.pc = "settle",
         ~Retries(me), Mode # "command"
  PROVE  me.mem = NoClaim \/ me.attempt >= Budget \/ me.repeated
<1>1. Blocker(me) /\ Mode = "codex"
  BY DoctorAssumption DEF DoctorAssumption, OnCourse, Condemned, Blocker, Stopping
<1>2. ~(me.attempt < Budget) => me.attempt >= Budget
  BY DoctorAssumption DEF DoctorAssumption, Locals
<1> QED
  BY <1>1, <1>2 DEF Retries

LEMMA SettleStays ==
  ASSUME Inv, Course, NEW d \in Doctors, DoctorSettle(d)
  PROVE  Course'
<1> DEFINE r == [doc[d] EXCEPT !.pc = "decide"]
<1>1. /\ Become(d, r) /\ doc[d].pc = "settle" /\ doc[d].pc \in Inside /\ doc[d].pc \in Holding
      /\ control' = control /\ prs' = prs /\ ~Retries(doc[d])
      /\ Alone
  BY OnlyIsAlone DEF DoctorSettle, Inside, Holding, History
<1>2. doc[d] \in Locals /\ doc[d].mem \in MayClaim
  BY Before
<1>3. r.pc = "decide" /\ r.mem = doc[d].mem /\ Alike(r, doc[d])
  BY <1>2, MovesOn
<1> HIDE DEF r
<1>4. OnCourse(doc[d]) /\ Owns(doc[d], prs)
  BY DEF Course
<1>5. doc[d].review \in Stopping /\ Mode # "command" =>
        r.mem = NoClaim \/ r.attempt >= Budget \/ r.repeated
  BY <1>1, <1>2, <1>3, <1>4, SettledWhenExhausted DEF Alike
<1>6. OnCourse(r)
  BY <1>1, <1>3, <1>4, <1>5 DEF OnCourse, Condemned, Alike, Directed, Ending
<1>7. Owns(r, prs')
  BY <1>1, <1>3, <1>4 DEF Owns, Alike
<1>8. Took(doc[d], r)
  BY <1>1, <1>3 DEF Took, Alike
<1> QED
  BY <1>1, <1>2, <1>3, <1>6, <1>7, <1>8, PutKeeps DEF Alike

LEMMA NoMergeStays ==
  ASSUME Inv, Course, NEW d \in Doctors, DoctorNoMerge(d)
  PROVE  Course'
<1> DEFINE r == [doc[d] EXCEPT !.pc = "finish"]
<1>1. /\ Become(d, r) /\ doc[d].pc = "decide" /\ doc[d].pc \in Inside /\ doc[d].pc \in Holding
      /\ control' = control /\ prs' = prs /\ Alone
  BY OnlyIsAlone DEF DoctorNoMerge, Inside, Holding, History
<1>2. doc[d] \in Locals /\ doc[d].mem \in MayClaim
  BY Before
<1>3. r.pc = "finish" /\ r.mem = doc[d].mem /\ Alike(r, doc[d])
  BY <1>2, MovesOn
<1> HIDE DEF r
<1>4. OnCourse(doc[d]) /\ Owns(doc[d], prs)
  BY DEF Course
<1>5. OnCourse(r)
  BY <1>1, <1>3, <1>4 DEF OnCourse, Condemned, Alike, Directed, Ending
<1>6. Owns(r, prs')
  BY <1>1, <1>3, <1>4 DEF Owns, Alike
<1>7. Took(doc[d], r)
  BY <1>1, <1>3 DEF Took, Alike
<1> QED
  BY <1>1, <1>2, <1>3, <1>5, <1>6, <1>7, PutKeeps DEF Alike

LEMMA MergeStays ==
  ASSUME Inv, Course, NEW d \in Doctors, DoctorMerge(d)
  PROVE  Course'
<1>1. PICK ok \in BOOLEAN : Become(d, [doc[d] EXCEPT !.merged = ok, !.pc = "finish"])
  BY Zenon DEF DoctorMerge
<1> DEFINE r == [doc[d] EXCEPT !.merged = ok, !.pc = "finish"]
<1>2. /\ Become(d, r) /\ doc[d].pc = "decide" /\ doc[d].pc \in Inside /\ doc[d].pc \in Holding
      /\ control' = control /\ prs' = prs /\ doc[d].reviewOk
      /\ Alone
  BY <1>1, OnlyIsAlone DEF DoctorMerge, Inside, Holding, History
<1>3. doc[d] \in Locals /\ doc[d].mem \in MayClaim
  BY Before
<1>4. /\ r.pc = "finish" /\ r.mem = doc[d].mem /\ r.class = doc[d].class /\ r.done = doc[d].done
      /\ r.review = doc[d].review /\ (doc[d].late => r.late)
  BY <1>3 DEF Locals
<1> HIDE DEF r
<1>5. OnCourse(doc[d]) /\ Owns(doc[d], prs) /\ doc[d].review \notin Stopping
  BY <1>2 DEF Course, OnCourse, Condemned
<1>6. OnCourse(r)
  BY <1>4, <1>5 DEF OnCourse, Directed
<1>7. Owns(r, prs')
  BY <1>2, <1>4, <1>5 DEF Owns
<1>8. Took(doc[d], r)
  BY <1>2, <1>4 DEF Took
<1> QED
  BY <1>2, <1>3, <1>4, <1>6, <1>7, <1>8, PutKeeps

(* The status a condemned run ends with keeps the loop from starting.      *)
LEMMA CondemnedEndsHard ==
  ASSUME NEW me \in Locals, OnCourse(me), me.review \in Stopping, me.pc = "finish",
         Mode # "command", me.mem # NoClaim
  PROVE  FinalStatus(me) \notin SoftStatus
<1>1. /\ me.class # "transient" /\ me.skip = "none" /\ me.review \in {"p0", "hard"} /\ me.done = {}
      /\ me.attempt >= Budget \/ me.repeated
  BY DEF OnCourse, Condemned, Patchable, Stopping
<1>2. ~PublicationReady(me) /\ ~PublishBlocked(me) /\ Blocker(me)
  BY <1>1 DEF OnCourse, Condemned, PublicationReady, PublishBlocked, Blocker
<1>3. FinalStatus(me) = "manual-review"
  BY <1>1, <1>2 DEF FinalStatus, Exhausted
<1> QED
  BY <1>3 DEF SoftStatus

(* A patchable failure is released only with its pull request.             *)
LEMMA ReleasedWhenPublished ==
  ASSUME NEW me \in Locals, NEW opened, Owns(me, opened), me.mem # NoClaim,
         me.class \in Patchable, Skipped = {}, FinalStatus(me) = "released"
  PROVE  me.mem.id \in opened
<1>1. PublicationReady(me)
  BY DEF FinalStatus, Exhausted, Patchable
<1> QED
  BY <1>1 DEF PublicationReady, Owns

LEMMA FinishStays ==
  ASSUME Inv, Course, NEW d \in Doctors, DoctorFinish(d)
  PROVE  Course'
<1> DEFINE mem == IF doc[d].mem = NoClaim THEN NoClaim
                  ELSE With(doc[d].mem, FinalStatus(doc[d]), doc[d].mem.attempt, "live")
           r == [doc[d] EXCEPT !.pc = "unlock", !.mem = mem]
<1>1. Become(d, r) /\ Save(mem) /\ doc[d].pc = "finish" /\ doc[d].pc \in Inside /\ prs' = prs
      /\ doc[d].pc \in Holding /\ Alone
  BY OnlyIsAlone DEF DoctorFinish, Inside, Holding, History
<1>2. doc[d] \in Locals /\ doc[d].mem \in MayClaim
  BY Before
<1>3. FinalStatus(doc[d]) \in Statuses
  BY Names DEF FinalStatus, Exhausted
<1>4. mem \in MayClaim
  BY <1>2, <1>3, ClaimParts, WithType, Names DEF MayClaim
<1>5. mem # NoClaim => /\ doc[d].mem # NoClaim /\ mem.class = doc[d].mem.class
                       /\ mem.id = doc[d].mem.id /\ mem.status = FinalStatus(doc[d])
  BY <1>2, WithParts
<1> HIDE DEF mem
<1>6. r.pc = "unlock" /\ r.mem = mem /\ Alike(r, doc[d])
  BY <1>2 DEF Alike, Locals
<1> HIDE DEF r
<1>7. OnCourse(doc[d]) /\ Owns(doc[d], prs)
  BY DEF Course
<1>8. doc[d].review \in Stopping /\ Mode # "command" => ~Soft(r.mem)
  BY <1>1, <1>2, <1>5, <1>6, <1>7, CondemnedEndsHard DEF Soft
<1>9. OnCourse(r)
  BY <1>1, <1>6, <1>7, <1>8 DEF OnCourse, Condemned, Alike, Directed, Ending
<1>10. Owns(r, prs')
  BY <1>1, <1>5, <1>6, <1>7 DEF Owns, Alike
<1>11. Skipped = {} /\ r.mem # NoClaim /\ r.mem.class \in Patchable /\ r.mem.status = "released"
         => r.mem.id \in prs'
  BY <1>1, <1>2, <1>5, <1>6, <1>7, ReleasedWhenPublished DEF Owns
<1>12. Took(doc[d], r)
  BY <1>1, <1>5, <1>6 DEF Took, Alike
<1> QED
  BY <1>1, <1>4, <1>6, <1>9, <1>10, <1>11, <1>12, PutKeeps

LEMMA LeaveStays ==
  ASSUME Inv, Course, NEW d \in Doctors, DoctorUnlock(d) \/ DoctorCrash(d)
  PROVE  Course'
BY LeavingKeeps DEF DoctorUnlock, DoctorCrash, DoctorOnly, Others, History

-----------------------------------------------------------------------------
(* The launcher, the operator and time.                                    *)

(* Who holds an active claim holds the lock, control.json has the claim,   *)
(* and nobody is about to write it.                                        *)
LEMMA HeldClaim ==
  ASSUME Inv, Course, NEW d \in Doctors, ~raced, commands = 0, doc[d].pc \in Holding,
         doc[d].mem # NoClaim, ~doc[d].late
  PROVE  /\ control.claim = doc[d].mem /\ Active(control.claim)
         /\ lock = d /\ HasPid(lock) /\ launch.pc \notin Writing
<1>1. control.claim = doc[d].mem /\ Active(control.claim) /\ launch.pc \notin Writing
  BY DEF Course, Holds, Owns, Holding
<1>2. lock = d /\ HasPid(lock)
  BY DEF Inv, Safe, Guarded, Held, Locked, Holding, HasPid, Inside
<1> QED
  BY <1>1, <1>2

(* A step of the launcher that leaves the claim of whoever holds it alone. *)
LEMMA LaunchKeeps ==
  ASSUME Inv, Course, LauncherOnly, ReleasedIsPublished',
         launch'.claim # NoClaim => launch'.claim.status = "repairing",
         \A d \in Doctors :
           ~raced /\ commands = 0 /\ doc[d].pc \in Holding /\ doc[d].mem # NoClaim /\ ~doc[d].late
             => control'.claim = control.claim /\ launch'.pc \notin Writing
  PROVE  Course'
<1>1. \A d \in Doctors : OnCourse(doc'[d]) /\ Owns(doc'[d], prs') /\ Holds(d)'
  BY DEF Course, Holds, LauncherOnly, History
<1>2. Waiting'
  BY DEF Course, Waiting, LauncherOnly
<1> QED
  BY <1>1, <1>2 DEF Course

LEMMA LaunchParts ==
  ASSUME NEW pc, NEW c, Launch(pc, c)
  PROVE  launch'.pc = pc /\ launch'.claim = c
BY DEF Launch

LEMMA LooksStay ==
  ASSUME Inv, Course, LauncherRead \/ LauncherLook \/ LauncherRestart
  PROVE  Course'
<1>1. LauncherOnly /\ control' = control /\ launch \in Launches /\ prs' = prs
      /\ control.claim \in MayClaim
  BY ClaimOf DEF LauncherRead, LauncherLook, LauncherRestart, LauncherOnly, History, Inv, Typed
<1>2. ReleasedIsPublished'
  BY <1>1, UnwrittenIsPublished DEF Course
<1>3. launch'.claim # NoClaim => launch'.claim.status = "repairing"
  <2>1. CASE LauncherRead
    BY <1>1, <2>1, LaunchParts, WithParts DEF LauncherRead
  <2>2. CASE LauncherLook
    BY <1>1, <2>2, LaunchParts DEF LauncherLook, Course, Waiting, Launches
  <2>3. CASE LauncherRestart
    BY <2>3, LaunchParts DEF LauncherRestart
  <2> QED
    BY <2>1, <2>2, <2>3
<1>4. ASSUME NEW d \in Doctors, ~raced, commands = 0, doc[d].pc \in Holding,
             doc[d].mem # NoClaim, ~doc[d].late
      PROVE  launch'.pc \notin Writing
  <2>1. Active(control.claim) /\ lock = d /\ HasPid(lock) /\ launch.pc \notin Writing
    BY <1>4, HeldClaim
  <2>2. ~Soft(control.claim) /\ control.claim # NoClaim
    BY <2>1 DEF Active, Soft, ActiveStatus, SoftStatus
  <2>3. CASE LauncherRead
    BY <2>1, <2>2, <2>3, LaunchParts DEF LauncherRead, Writing
  <2>4. CASE LauncherLook
    BY <2>1, <2>4, LaunchParts DEF LauncherLook, Writing
  <2>5. CASE LauncherRestart
    BY <2>5, LaunchParts DEF LauncherRestart, Writing
  <2> QED
    BY <2>3, <2>4, <2>5
<1> QED
  BY <1>1, <1>2, <1>3, <1>4, LaunchKeeps

(* What the launcher writes is not a release.                              *)
LEMMA WritesStay ==
  ASSUME Inv, Course, LauncherRenew \/ LauncherClear \/ LauncherCreate
  PROVE  Course'
<1>1. /\ LauncherOnly /\ prs' = prs /\ control \in Controls /\ launch.claim \in MayClaim
      /\ launch.pc \in Writing
  BY DEF LauncherRenew, LauncherClear, LauncherCreate, LauncherOnly, History, Inv, Typed, Launches,
         Writing
<1>2. ReleasedIsPublished'
  <2>1. CASE LauncherRenew
    BY <1>1, <2>1, SavedIsPublished DEF LauncherRenew, Course, Waiting
  <2>2. CASE LauncherClear
    BY <1>1, <2>2 DEF LauncherClear, ReleasedIsPublished, Controls
  <2>3. CASE LauncherCreate
    BY <1>1, <2>3 DEF LauncherCreate, ReleasedIsPublished, Controls
  <2> QED
    BY <2>1, <2>2, <2>3
<1>3. launch'.claim = NoClaim
  BY LaunchParts DEF LauncherRenew, LauncherClear, LauncherCreate
<1>4. ASSUME NEW d \in Doctors, ~raced, commands = 0, doc[d].pc \in Holding,
             doc[d].mem # NoClaim, ~doc[d].late
      PROVE  FALSE
  BY <1>1, <1>4, HeldClaim
<1> QED
  BY <1>1, <1>2, <1>3, <1>4, LaunchKeeps

(* After a command of the operator nothing is said of the claim.           *)
LEMMA CommandStays ==
  ASSUME Inv, Course, (\E mode \in Modes : Operate(mode)) \/ ClearLook \/ ClearRead \/ ClearTerminal
  PROVE  Course'
<1>1. commands' # 0 /\ UNCHANGED <<doc, prs, launch>>
  <2>1. commands \in Nat
    BY DoctorAssumption DEF DoctorAssumption, Inv, Counted
  <2> QED
    BY <2>1 DEF Operate, ClearLook, ClearRead, ClearTerminal, Others, History, Course, Waiting
<1>2. ReleasedIsPublished'
  <2>1. CASE control' = control
    BY <1>1, <2>1, UnwrittenIsPublished DEF Course
  <2>2. CASE control'.claim = NoClaim
    BY <2>2 DEF ReleasedIsPublished
  <2> QED
    BY <2>1, <2>2 DEF Operate, ClearLook, ClearRead, ClearTerminal
<1>3. \A d \in Doctors : OnCourse(doc'[d]) /\ Owns(doc'[d], prs') /\ Holds(d)'
  BY <1>1 DEF Course, Holds
<1>4. Waiting'
  BY <1>1 DEF Course, Waiting
<1> QED
  BY <1>2, <1>3, <1>4 DEF Course

(* Both copies of a claim age together.                                    *)
LEMMA AgedParts ==
  ASSUME NEW c \in MayClaim, c # NoClaim
  PROVE  LET old == [c EXCEPT !.lease = Older(c.lease)]
         IN  old.class = c.class /\ old.id = c.id /\ old.status = c.status
BY ClaimType DEF MayClaim

LEMMA LeaseStays == ASSUME Inv, Course, LeasePass PROVE Course'
<1> DEFINE Same(m) == m # NoClaim /\ m.id = control.claim.id /\ m.lease = control.claim.lease
           Old(c) == [c EXCEPT !.lease = Older(c.lease)]
           R(d) == IF Same(doc[d].mem) THEN [doc[d] EXCEPT !.mem = Old(doc[d].mem)] ELSE doc[d]
<1>1. /\ control' = [control EXCEPT !.claim = Old(control.claim)]
      /\ doc' = [d \in Doctors |-> R(d)] /\ prs' = prs /\ Alone
      /\ control.claim # NoClaim /\ control \in Controls /\ control.claim \in MayClaim
  BY ClaimOf DEF LeasePass, Active, History, Others, Alone, Inv, Typed
<1>2. control'.claim = Old(control.claim)
  BY <1>1 DEF Controls
<1>3. ASSUME NEW d \in Doctors
      PROVE  /\ Alike(R(d), doc[d]) /\ R(d).pc = doc[d].pc
             /\ R(d).late = doc[d].late
             /\ R(d).mem = IF Same(doc[d].mem) THEN Old(doc[d].mem) ELSE doc[d].mem
  <2>1. CASE ~Same(doc[d].mem)
    BY <2>1 DEF Alike
  <2>2. CASE Same(doc[d].mem)
    <3> DEFINE m == Old(doc[d].mem)
    <3>1. R(d) = [doc[d] EXCEPT !.mem = m] /\ doc[d] \in Locals
      BY <2>2, Before
    <3> HIDE DEF m, R
    <3>2. Alike(R(d), doc[d]) /\ R(d).pc = doc[d].pc /\ R(d).mem = m /\ R(d).late = doc[d].late
      BY <3>1 DEF Alike, Locals
    <3> QED
      BY <2>2, <3>2 DEF m
  <2> QED
    BY <2>1, <2>2
<1> HIDE DEF R
<1>4. ASSUME NEW c \in MayClaim, c # NoClaim
      PROVE  Old(c).class = c.class /\ Old(c).id = c.id /\ Old(c).status = c.status
  BY <1>4, AgedParts
<1> HIDE DEF Old
<1>5. ReleasedIsPublished'
  BY <1>1, <1>2, <1>4 DEF Course, ReleasedIsPublished
<1>6. ASSUME NEW d \in Doctors
      PROVE  OnCourse(doc'[d]) /\ Owns(doc'[d], prs') /\ Holds(d)'
  <2>1. doc'[d] = R(d) /\ doc[d].mem \in MayClaim
    BY <1>1, Before
  <2>2. OnCourse(doc[d]) /\ Owns(doc[d], prs) /\ Holds(d)
    BY DEF Course
  <2>3. /\ R(d).mem # NoClaim => doc[d].mem # NoClaim
        /\ R(d).mem # NoClaim => R(d).mem.class = doc[d].mem.class /\ R(d).mem.id = doc[d].mem.id
                                 /\ R(d).mem.status = doc[d].mem.status
        /\ doc[d].mem = NoClaim => R(d).mem = NoClaim
    BY <1>3, <1>4, <2>1
  <2>4. OnCourse(R(d))
    BY <1>3, <2>2, <2>3 DEF OnCourse, Condemned, Alike, Soft
  <2>5. Owns(R(d), prs')
    BY <1>1, <1>3, <2>2, <2>3 DEF Owns, Alike, Active
  <2>6. Holds(d)'
    BY <1>1, <1>2, <1>3, <2>1, <2>2, <2>3 DEF Holds, Alone
  <2> QED
    BY <2>1, <2>4, <2>5, <2>6
<1>7. Waiting'
  BY <1>1 DEF Course, Waiting, Alone
<1> QED
  BY <1>5, <1>6, <1>7 DEF Course

-----------------------------------------------------------------------------
LEMMA CourseInit == Init => Course
<1> SUFFICES ASSUME Init PROVE Course
  OBVIOUS
<1>1. \A d \in Doctors : OnCourse(doc[d]) /\ Owns(doc[d], prs) /\ doc[d].pc \notin Holding
  BY FreshIsOnCourse DEF Init
<1> QED
  BY <1>1 DEF Init, Course, Holds, ReleasedIsPublished, Waiting

LEMMA StepStays ==
  ASSUME Inv, Course, NEW d \in Doctors, DoctorStep(d)
  PROVE  Course'
<1>1. CASE \/ DoctorCreate(d) \/ DoctorCreateFails(d) \/ DoctorWritePid(d) \/ DoctorReadPid(d)
           \/ DoctorJudge(d) \/ DoctorUnlink(d)
  BY <1>1, LockStays
<1>2. CASE \/ DoctorRecover(d) \/ DoctorOwn(d) \/ DoctorEnter(d) \/ DoctorAttempt(d)
           \/ DoctorRepair(d) \/ DoctorReview(d)
  BY <1>2, RecoverStays, OwnStays, EnterStays, AttemptStays, RepairStays, ReviewStays
<1>3. CASE \/ DoctorVerdict(d) \/ DoctorGate(d) \/ DoctorPublish(d) \/ DoctorCommit(d)
           \/ DoctorPush(d) \/ DoctorPr(d)
  BY <1>3, VerdictStays, GateStays, PublishStays, CommitStays, PushStays, PrStays
<1>4. CASE \/ DoctorRetry(d) \/ DoctorSettle(d) \/ DoctorMerge(d) \/ DoctorNoMerge(d)
           \/ DoctorFinish(d) \/ DoctorUnlock(d)
  BY <1>4, RetryStays, SettleStays, MergeStays, NoMergeStays, FinishStays, LeaveStays
<1> QED
  BY <1>1, <1>2, <1>3, <1>4 DEF DoctorStep

LEMMA CourseNext == Inv /\ Course /\ [Next]_vars => Course'
<1> SUFFICES ASSUME Inv, Course, [Next]_vars PROVE Course'
  OBVIOUS
<1>1. CASE \E d \in Doctors : DoctorStart(d) \/ DoctorStep(d) \/ DoctorCrash(d)
  BY <1>1, StartStays, StepStays, LeaveStays
<1>2. CASE LauncherRead \/ LauncherLook \/ LauncherRestart
  BY <1>2, LooksStay
<1>3. CASE LauncherRenew \/ LauncherClear \/ LauncherCreate
  BY <1>3, WritesStay
<1>4. CASE (\E mode \in Modes : Operate(mode)) \/ ClearLook \/ ClearRead \/ ClearTerminal
  BY <1>4, CommandStays
<1>5. CASE LeasePass
  BY <1>5, LeaseStays
<1>6. CASE UNCHANGED vars
  BY <1>6 DEF vars, Course, Holds, ReleasedIsPublished, Waiting
<1> QED
  BY <1>1, <1>2, <1>3, <1>4, <1>5, <1>6 DEF Next

LEMMA CourseAlways == Spec => []Course
BY InvAlways, CourseInit, CourseNext, PTL DEF Spec

(* A P0 or a hard P1 that a review of the repair loop found is never       *)
(* followed by an end after which the launcher starts the loop again,      *)
(* unless the repair is a command of the operator's.                       *)
THEOREM HardStopsHold == ASSUME Mode # "command" PROVE Spec => []HardStopHolds
<1>1. Course => HardStopHolds
  BY DEF Course, HardStopHolds, OnCourse, Condemned, Stopping
<1> QED
  BY <1>1, CourseAlways, PTL

(* Whatever was retried, crashed or skipped before, a patchable failure    *)
(* whose claim reads released has a pull request opened under that claim.  *)
THEOREM ReleaseIsPublished == Spec => []ReleasedIsPublished
<1>1. Course => ReleasedIsPublished
  BY DEF Course
<1> QED
  BY <1>1, CourseAlways, PTL

(* Until the operator writes and until a Doctor unlinks a lock that it did *)
(* not judge, the claim of a Doctor at work is the one in control.json and *)
(* active, if the launcher was not about to write when the Doctor took the *)
(* claim over: however many Doctors, launchers and crashes there are.      *)
THEOREM ClaimIsHeld == Spec => []ClaimHeld
<1>1. Inv /\ Course => ClaimHeld
  BY HeldClaim DEF ClaimHeld
<1> QED
  BY <1>1, InvAlways, CourseAlways, PTL

=============================================================================
