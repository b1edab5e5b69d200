------------------------------ MODULE PidLock ------------------------------
(* The lock files of the harness: doctor.lock (harness_doctor.py) and      *)
(* .harness-autonomy.lock of the loop (harness_autonomy/core.py).          *)
(*                                                                         *)
(* A process creates the file exclusively, writes its pid into it in a     *)
(* second step, and unlinks the path when it is done.  A lock that names a *)
(* process that is gone, because it was killed or because it has finished  *)
(* since its pid was read, is removed by the next one in three steps: read *)
(* the pid, judge it, unlink the path, whatever file is there by then.     *)
EXTENDS Naturals, FiniteSets

CONSTANTS
  Procs,       \* processes; a restarted process is another one
  NoFile,      \* there is no lock file
  Gone,        \* a process that has released its lock and ended
  MaxDead      \* bound: processes that are killed

ASSUME PidLockAssumption ==
  /\ NoFile \notin Procs /\ Gone \notin Procs /\ NoFile # Gone
  /\ MaxDead \in Nat

VARIABLES
  checkFirst, \* which lock it is. TRUE: the loop cleans up, then creates once;
              \* FALSE: the Doctor creates, and cleans up only when that fails
  file,     \* the file at the path, by the process that created it
  written,  \* processes whose file holds their pid
  pc,       \* where each process stands
  seen,     \* the process whose pid each process has read, NoFile when none
  dead,     \* processes that were killed
  raced     \* history: a process unlinked another file than the one it read

vars == <<checkFirst, file, written, pc, seen, dead, raced>>

PCs == {"idle", "create", "check", "judge", "unlink", "again", "write", "hold", "refused"}

Init ==
  /\ checkFirst \in BOOLEAN
  /\ file = NoFile
  /\ written = {}
  /\ pc = [p \in Procs |-> "idle"]
  /\ seen = [p \in Procs |-> NoFile]
  /\ dead = {}
  /\ raced = FALSE

Goto(p, l) == pc' = [pc EXCEPT ![p] = l]
Alive(p) == p \notin dead

-----------------------------------------------------------------------------
(* A cycle of the loop, or a run of repair-latest, begins.                 *)
Start(p) ==
  /\ Alive(p) /\ pc[p] \in {"idle", "refused"}
  /\ Goto(p, IF checkFirst THEN "check" ELSE "create")
  /\ UNCHANGED <<file, written, seen, dead, raced>>

(* Mutant: the pid of this process's last lock is still in the file.       *)
CreateKeepsPid(p) ==
  /\ Alive(p) /\ pc[p] \in {"create", "again"}
  /\ file = NoFile
  /\ file' = p
  /\ Goto(p, "write")
  /\ UNCHANGED <<written, seen, dead, raced>>

(* open(O_CREAT | O_EXCL); the Doctor tries a second time after a cleanup. *)
Create(p) ==
  /\ Alive(p) /\ pc[p] \in {"create", "again"}
  /\ file = NoFile
  /\ file' = p
  /\ written' = written \ {p}
  /\ Goto(p, "write")
  /\ UNCHANGED <<seen, dead, raced>>

CreateFails(p) ==
  /\ Alive(p) /\ pc[p] \in {"create", "again"}
  /\ file # NoFile
  /\ Goto(p, IF pc[p] = "create" /\ ~checkFirst THEN "check" ELSE "refused")
  /\ UNCHANGED <<file, written, seen, dead, raced>>

(* Mutant: a file without a pid is taken for one that was left behind.     *)
ReadWithoutPid(p) ==
  /\ Alive(p) /\ pc[p] = "check"
  /\ seen' = [seen EXCEPT ![p] = file]
  /\ Goto(p, IF file \in written THEN "judge"
             ELSE IF file # NoFile THEN "unlink"
             ELSE IF checkFirst THEN "again" ELSE "refused")
  /\ UNCHANGED <<file, written, dead, raced>>

(* _read_lock_pid; read_lock_payload.  At a file without a pid the Doctor  *)
(* gives up and the loop fails to parse it.  The loop goes on when there   *)
(* is no file.                                                             *)
ReadPid(p) ==
  /\ Alive(p) /\ pc[p] = "check"
  /\ seen' = [seen EXCEPT ![p] = IF file \in written THEN file ELSE NoFile]
  /\ Goto(p, IF file \in written THEN "judge"
             ELSE IF checkFirst /\ file = NoFile THEN "again" ELSE "refused")
  /\ UNCHANGED <<file, written, dead, raced>>

(* Mutant: the process that wrote the pid is always taken to be alive.     *)
StaleNever(p) == FALSE

(* A lock is stale when no process has the pid that was read.              *)
Stale(p) == seen[p] \in dead \cup {Gone}

(* _remove_stale_lock_if_dead and cleanup_stale_control_files judge.  The  *)
(* loop tries to create the lock in either case.                           *)
Judge(p) ==
  /\ Alive(p) /\ pc[p] = "judge"
  /\ Goto(p, IF Stale(p) THEN "unlink" ELSE IF checkFirst THEN "again" ELSE "refused")
  /\ seen' = IF Stale(p) THEN seen ELSE [seen EXCEPT ![p] = NoFile]
  /\ UNCHANGED <<file, written, dead, raced>>

(* The path is unlinked, whoever made the file that is there by now.  When *)
(* there is none the loop's unlink raises.                                 *)
Unlink(p) ==
  /\ Alive(p) /\ pc[p] = "unlink"
  /\ file' = NoFile
  /\ raced' = (raced \/ file \notin {seen[p], NoFile})
  /\ seen' = [seen EXCEPT ![p] = NoFile]
  /\ Goto(p, IF checkFirst /\ file = NoFile THEN "refused" ELSE "again")
  /\ UNCHANGED <<written, dead>>

(* The pid goes into the file this process created, wherever it is now.    *)
WritePid(p) ==
  /\ Alive(p) /\ pc[p] = "write"
  /\ written' = written \cup {p}
  /\ Goto(p, "hold")
  /\ UNCHANGED <<file, seen, dead, raced>>

(* finally: unlink; LockFile.__exit__.  The path is unlinked, whoever made *)
(* the file.                                                               *)
Release(p) ==
  /\ Alive(p) /\ pc[p] = "hold"
  /\ file' = NoFile
  /\ Goto(p, "idle")
  /\ UNCHANGED <<written, seen, dead, raced>>

(* A process ends; another one, with another pid, may take its place.      *)
Exit(p) ==
  /\ Alive(p) /\ pc[p] \in {"idle", "refused"}
  /\ seen' = [q \in Procs |-> IF seen[q] = p THEN Gone ELSE seen[q]]
  /\ UNCHANGED <<file, written, pc, dead, raced>>

(* A process is killed: its lock stays.                                    *)
Kill(p) ==
  /\ Alive(p) /\ pc[p] \notin {"idle", "refused"}
  /\ Cardinality(dead) < MaxDead
  /\ dead' = dead \cup {p}
  /\ UNCHANGED <<file, written, pc, seen, raced>>

Step(p) ==
  /\ \/ Start(p) \/ Create(p) \/ CreateFails(p) \/ ReadPid(p) \/ Judge(p) \/ Unlink(p)
     \/ WritePid(p) \/ Release(p)
  /\ UNCHANGED checkFirst

Next == \E p \in Procs : Step(p) \/ ((Exit(p) \/ Kill(p)) /\ UNCHANGED checkFirst)

Spec == Init /\ [][Next]_vars

(* The launcher starts the loop and the Doctor again and again.            *)
FairSpec == Spec /\ \A p \in Procs : WF_vars(Step(p))

-----------------------------------------------------------------------------
(* The type invariant: a process has written its pid only after it made    *)
(* its file, and keeps the pid it has read until it has judged it.         *)
TypeOK ==
  /\ file \in Procs \cup {NoFile}
  /\ written \subseteq Procs
  /\ pc \in [Procs -> PCs]
  /\ seen \in [Procs -> Procs \cup {NoFile, Gone}]
  /\ dead \subseteq Procs
  /\ raced \in BOOLEAN
  /\ \A p \in Procs : pc[p] = "write" => p \notin written
  /\ \A p \in Procs : seen[p] # NoFile => pc[p] \in {"judge", "unlink"}

Holds(p) == Alive(p) /\ pc[p] \in {"write", "hold"}

(* AUTONOMY.md: the lock file prevents a second run at the same time.      *)
MutualExclusion == \A p, q \in Procs : Holds(p) /\ Holds(q) => p = q

(* Runs exclude each other, and the path leads to the file of the one that *)
(* holds the lock, unless a cleanup has met the one thing it cannot see:   *)
(* the stale file it read was replaced before it unlinked the path.  So no *)
(* order of kills, exits, empty files and cleanups harms otherwise         *)
(* (acquire_lock, cleanup_stale_control_files, LockFile).                  *)
ExclusionUnlessRaced ==
  ~raced => /\ MutualExclusion
            /\ \A p \in Procs : Holds(p) <=> Alive(p) /\ file = p

(* A lock that names a killed process is removed in the end, by the next   *)
(* run of the same kind (_remove_stale_lock_if_dead,                       *)
(* cleanup_stale_control_files).                                           *)
LeftBehind == file \in written /\ file \in dead

StaleIsRemoved == LeftBehind ~> ~LeftBehind

(* AUTONOMY.md: a stale lock is cleaned up first: no process is refused by *)
(* the lock of one that is gone.                                           *)
RefusedByTheLiving ==
  [][\A p \in Procs : pc[p] \in {"check", "judge"} /\ pc'[p] = "refused"
                        => file \notin dead]_vars
=============================================================================
