--------------------------- MODULE PidLockProofs ---------------------------
(* Theorems about PidLock.                                                 *)
EXTENDS PidLock, TLAPS

(* The strengthening: who is about to unlink the path has read the pid of  *)
(* a process that is gone for good; and until another file than the one    *)
(* that was read is unlinked, the path is taken exactly by the holder.     *)
JudgedGone == \A p \in Procs : pc[p] = "unlink" => seen[p] \in dead \cup {Gone}

PathIsHolders ==
  ~raced => \A p \in Procs : Alive(p) => (pc[p] \in {"write", "hold"} <=> file = p)

IInv == JudgedGone /\ PathIsHolders

-----------------------------------------------------------------------------
(* A process is where its code can be, has a pid in its file only after it *)
(* wrote it, and remembers a pid only until it has judged it.              *)
THEOREM TypeCorrect == Spec => []TypeOK
<1> USE PidLockAssumption DEF TypeOK, PCs
<1>1. Init => TypeOK
  BY DEF Init
<1>2. TypeOK /\ [Next]_vars => TypeOK'
  <2> SUFFICES ASSUME TypeOK, [Next]_vars PROVE TypeOK'
    OBVIOUS
  <2>1. CASE UNCHANGED vars
    BY <2>1 DEF vars
  <2>2. ASSUME NEW p \in Procs, Start(p) PROVE TypeOK'
    BY <2>2 DEF Start, Goto
  <2>3. ASSUME NEW p \in Procs, Create(p) PROVE TypeOK'
    BY <2>3 DEF Create, Goto
  <2>4. ASSUME NEW p \in Procs, CreateFails(p) PROVE TypeOK'
    BY <2>4 DEF CreateFails, Goto
  <2>5. ASSUME NEW p \in Procs, ReadPid(p) PROVE TypeOK'
    BY <2>5 DEF ReadPid, Goto
  <2>6. ASSUME NEW p \in Procs, Judge(p) PROVE TypeOK'
    <3>1. CASE Stale(p)
      BY <2>6, <3>1 DEF Judge, Goto
    <3>2. CASE ~Stale(p)
      BY <2>6, <3>2 DEF Judge, Goto
    <3> QED
      BY <3>1, <3>2
  <2>7. ASSUME NEW p \in Procs, Unlink(p) PROVE TypeOK'
    BY <2>7 DEF Unlink, Goto
  <2>8. ASSUME NEW p \in Procs, WritePid(p) PROVE TypeOK'
    BY <2>8 DEF WritePid, Goto
  <2>9. ASSUME NEW p \in Procs, Release(p) PROVE TypeOK'
    BY <2>9 DEF Release, Goto
  <2>10. ASSUME NEW p \in Procs, Exit(p) PROVE TypeOK'
    BY <2>10 DEF Exit
  <2>11. ASSUME NEW p \in Procs, Kill(p) PROVE TypeOK'
    BY <2>11 DEF Kill
  <2> QED
    BY <2>1, <2>2, <2>3, <2>4, <2>5, <2>6, <2>7, <2>8, <2>9, <2>10, <2>11 DEF Next, Step
<1> QED
  BY <1>1, <1>2, PTL DEF Spec

-----------------------------------------------------------------------------
(* For any number of processes, of which any may be killed, and for both   *)
(* orders of cleanup and creation: until a process unlinks another file    *)
(* than the one it judged, two runs never hold the lock together, and the  *)
(* holder's file stays at the path.                                        *)
THEOREM NoRaceNoOverlap == Spec => []ExclusionUnlessRaced
<1> USE PidLockAssumption DEF Alive
<1>1. Init => IInv
  BY DEF Init, IInv, JudgedGone, PathIsHolders
<1>2. TypeOK /\ IInv /\ [Next]_vars => IInv'
  <2> SUFFICES ASSUME TypeOK, IInv, [Next]_vars PROVE IInv'
    OBVIOUS
  <2> USE DEF TypeOK, IInv, JudgedGone, PathIsHolders
  <2>1. CASE UNCHANGED vars
    BY <2>1 DEF vars
  <2>2. ASSUME NEW q \in Procs, Start(q) PROVE IInv'
    BY <2>2 DEF Start, Goto
  <2>3. ASSUME NEW q \in Procs, Create(q) PROVE IInv'
    BY <2>3 DEF Create, Goto
  <2>4. ASSUME NEW q \in Procs, CreateFails(q) PROVE IInv'
    BY <2>4 DEF CreateFails, Goto
  <2>5. ASSUME NEW q \in Procs, ReadPid(q) PROVE IInv'
    BY <2>5 DEF ReadPid, Goto
  <2>6. ASSUME NEW q \in Procs, Judge(q) PROVE IInv'
    <3>1. CASE Stale(q)
      BY <2>6, <3>1 DEF Judge, Goto, Stale
    <3>2. CASE ~Stale(q)
      BY <2>6, <3>2 DEF Judge, Goto
    <3> QED
      BY <3>1, <3>2
  <2>7. ASSUME NEW q \in Procs, Unlink(q) PROVE IInv'
    <3>1. JudgedGone'
      BY <2>7 DEF Unlink, Goto
    <3>2. ASSUME ~raced', NEW p \in Procs, Alive(p) PROVE file # p
      BY <2>7, <3>2 DEF Unlink
    <3>3. PathIsHolders'
      BY <2>7, <3>2 DEF Unlink, Goto
    <3> QED
      BY <3>1, <3>3
  <2>8. ASSUME NEW q \in Procs, WritePid(q) PROVE IInv'
    BY <2>8 DEF WritePid, Goto
  <2>9. ASSUME NEW q \in Procs, Release(q) PROVE IInv'
    BY <2>9 DEF Release, Goto
  <2>10. ASSUME NEW q \in Procs, Exit(q) PROVE IInv'
    BY <2>10 DEF Exit
  <2>11. ASSUME NEW q \in Procs, Kill(q) PROVE IInv'
    BY <2>11 DEF Kill
  <2> QED
    BY <2>1, <2>2, <2>3, <2>4, <2>5, <2>6, <2>7, <2>8, <2>9, <2>10, <2>11 DEF Next, Step
<1>3. TypeOK /\ IInv => ExclusionUnlessRaced
  BY DEF TypeOK, IInv, PathIsHolders, ExclusionUnlessRaced, MutualExclusion, Holds
<1> QED
  BY <1>1, <1>2, <1>3, TypeCorrect, PTL DEF Spec
=============================================================================
