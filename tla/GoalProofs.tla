----------------------------- MODULE GoalProofs -----------------------------
(***************************************************************************)
(* What holds of the goal store for every set of goals and every roadmap:  *)
(* types, that a completed goal is delivered, and that the watch alone     *)
(* completes a goal only at a moment when it has earned it.                *)
(***************************************************************************)
EXTENDS Goal, Integers, TLAPS, FiniteSetTheorems, SequenceTheorems, WellFoundedInduction

-----------------------------------------------------------------------------
(* Sequences, and the last of some positions.                              *)

LEMMA SequenceOf ==
  ASSUME NEW S, NEW n \in Nat, NEW s \in [1..n -> S]
  PROVE  s \in Seq(S) /\ Len(s) = n /\ DOMAIN s = 1..n
<1>1. s \in Seq(S)
  BY SeqDef
<1>2. Len(s) \in Nat /\ DOMAIN s = 1..Len(s)
  BY <1>1, LenProperties
<1>3. Len(s) = n
  <2>1. 1..Len(s) = 1..n
    BY <1>2
  <2> QED
    BY <1>2, <2>1
<1> QED
  BY <1>1, <1>3

LEMMA SequenceRange ==
  ASSUME NEW S, NEW s \in Seq(S)
  PROVE  /\ Len(s) \in Nat /\ DOMAIN s = 1..Len(s)
         /\ s \in [1..Len(s) -> S] /\ \A i \in DOMAIN s : s[i] \in S
BY LenProperties

LEMMA LastOf ==
  ASSUME NEW n \in Nat, NEW S \in SUBSET (1..n), S # {}
  PROVE  \E i \in S : \A j \in S : j <= i
<1> DEFINE R == {ss \in Nat \X Nat : ss[1] < ss[2]}
           T == {n - i : i \in S}
<1>1. IsWellFoundedOn(R, Nat)
  BY NatLessThanWellFounded DEF OpToRel
<1>2. T \subseteq Nat /\ T # {}
  <2>1. \A i \in S : n - i \in Nat
    OBVIOUS
  <2>2. PICK i \in S : TRUE
    OBVIOUS
  <2>3. n - i \in T
    BY <2>2
  <2> QED
    BY <2>1, <2>3
<1> HIDE DEF T
<1>3. PICK x \in T : \A y \in T : ~(<<y, x>> \in R)
  BY <1>1, <1>2, WFMin
<1>4. \A y \in T : x <= y
  <2> SUFFICES ASSUME NEW y \in T PROVE x <= y
    OBVIOUS
  <2>1. x \in Nat /\ y \in Nat
    BY <1>2
  <2>2. <<y, x>> \notin R
    BY <1>3
  <2>3. ~(y < x)
    BY <2>1, <2>2
  <2> QED
    BY <2>1, <2>3
<1> USE DEF T
<1>5. PICK i \in S : x = n - i
  BY <1>3
<1>6. \A j \in S : n - i <= n - j
  BY <1>4, <1>5
<1> QED
  BY <1>6

-----------------------------------------------------------------------------
(* Types.                                                                  *)

Entries == [key : Keys, status : {"draft", "queued", "completed", "blocked"}]
Commands == [pc : Places, goal : Goals \cup {NoGoal}, tasks : Seq(Task), payload : Payload]
Owners == [pc : {"idle", "archive", "clear", "create", "point"}, new : Goals \cup {NoGoal},
           old : Goals \cup {NoGoal}, from : {"text", "spec"}]
Acts == act \in [Actors -> Commands]

(* The type invariant by parts, and what the types do not say: whoever     *)
(* works has a goal, the product has a commit, and no packet is beyond the *)
(* bound.                                                                  *)
Filed == backlog \in [Goals -> Seq(Entries)] /\ \A g \in Goals : Len(backlog[g]) <= MaxPackets
Stored == pointer \in Goals \cup {NoGoal} /\ goals \in [Goals -> Payload] /\ progress \in [Goals -> Seq(Task)]
Delivering == published \subseteq Goals \X (1..MaxPackets) /\ proofs \subseteq published
Gated ==
  /\ product \in [head : Nat, sound : BOOLEAN] /\ product.head # 0
  /\ evidence \in [Goals -> 0..product.head]
  /\ report \in [Goals -> [head : 0..product.head, outcome : {"none", "passed", "blocked", "external"}]]
Acting == Acts /\ \A a \in Actors : act[a].pc # "idle" => act[a].goal \in Goals
Owned ==
  /\ owner \in Owners
  /\ owner.pc # "idle" => owner.new \in Goals
  /\ owner.pc \in {"archive", "clear"} => owner.old \in Goals
Bounded == faults \in Nat /\ reads \in Nat /\ setbacks \in Nat /\ faults + reads + setbacks <= MaxTrouble

Basic == Filed /\ Stored /\ Delivering /\ Gated /\ Acting /\ Owned /\ Bounded

(* What the tasks that are carried or written down say is so: they have a  *)
(* packet, and a completed one has a completed item.                       *)
Knows(g, tasks) ==
  \A i \in DOMAIN tasks :
    /\ tasks[i].packet \in DOMAIN backlog[g]
    /\ tasks[i].status = "completed" => tasks[i].linked /\ tasks[i].packet \in Completed(g)
Told ==
  /\ \A g \in Goals : Knows(g, progress[g])
  /\ \A a \in Actors : act[a].pc # "idle" => Knows(act[a].goal, act[a].tasks)
  /\ At("verified") => 1 \in DOMAIN Here.tasks

LEMMA RoadmapKeys ==
  /\ Len(Roadmap) \in Nat /\ DOMAIN Roadmap = 1..Len(Roadmap) /\ 1 <= Len(Roadmap)
  /\ \A i \in 1..Len(Roadmap) : Roadmap[i] \in Keys
  /\ {Verify, Repair, Fallback} \subseteq Keys
<1>1. Roadmap \in Seq(STRING) /\ Roadmap # <<>>
  BY GoalAssumption DEF GoalAssumption
<1>2. Len(Roadmap) \in Nat /\ DOMAIN Roadmap = 1..Len(Roadmap) /\ Len(Roadmap) \in Nat \ {0}
  BY <1>1, LenProperties, EmptySeq
<1> QED
  BY <1>2 DEF Keys

LEMMA Types ==
  ASSUME Basic
  PROVE  TypeOK
BY DEF Basic, TypeOK, Filed, Stored, Delivering, Gated, Acting, Owned, Bounded, Acts, Entries,
   Commands, Owners

LEMMA IdleType == Idle \in Commands /\ NoPayload \in Payload
<1>1. <<>> \in Seq(Task)
  BY EmptySeq
<1> QED
  BY <1>1 DEF Idle, Commands, NoPayload, Payload, Places

LEMMA WatchActs == "watch" \in Actors /\ "status" \in Actors /\ "watch" # "status" /\ Actors = {"watch", "status"}
BY DEF Actors

(* What a step of command a leaves of the commands.                        *)
Becomes(a, c) == act'[a] = c /\ \A b \in Actors \ {a} : act'[b] = act[b]

LEMMA Assigned ==
  ASSUME Acts, NEW a \in Actors, NEW c \in Commands, act' = [act EXCEPT ![a] = c]
  PROVE  Acts' /\ Becomes(a, c)
BY DEF Acts, Becomes

LEMMA Left ==
  ASSUME Acts, NEW a \in Actors, Leave(a)
  PROVE  Acts' /\ Becomes(a, Idle)
BY IdleType, Assigned DEF Leave

LEMMA Moved ==
  ASSUME Acts, NEW a \in Actors, NEW pc \in Places, Move(a, pc)
  PROVE  /\ Acts'
         /\ act'[a].pc = pc /\ act'[a].goal = act[a].goal /\ act'[a].tasks = act[a].tasks
         /\ act'[a].payload = act[a].payload
         /\ \A b \in Actors \ {a} : act'[b] = act[b]
<1> DEFINE c == [act[a] EXCEPT !.pc = pc]
<1>1. c \in Commands /\ act' = [act EXCEPT ![a] = c]
  BY DEF Acts, Commands, Move
<1>2. /\ c.pc = pc /\ c.goal = act[a].goal /\ c.tasks = act[a].tasks /\ c.payload = act[a].payload
  BY DEF Acts, Commands
<1> HIDE DEF c
<1>3. Acts' /\ Becomes(a, c)
  BY <1>1, Assigned
<1> QED
  BY <1>2, <1>3 DEF Becomes

(* Room for n packets more is room for them in the goal they are of.       *)
LEMMA RoomFor ==
  ASSUME Basic, NEW n \in Nat, Room(n), NEW g \in Goals
  PROVE  Len(backlog[g]) \in Nat /\ Len(backlog[g]) + n <= MaxPackets
<1>1. \A h \in Goals : Len(backlog[h]) \in Nat /\ DOMAIN backlog[h] = 1..Len(backlog[h])
                       /\ Len(backlog[h]) <= MaxPackets
  BY SequenceRange DEF Basic, Filed
<1>2. IsFiniteSet(Goals) /\ MaxPackets \in Nat
  BY GoalAssumption DEF GoalAssumption
<1>3. IsFiniteSet(1..MaxPackets)
  BY <1>2, FS_Interval
<1>4. IsFiniteSet(Goals \X (1..MaxPackets))
  BY <1>2, <1>3, FS_Product
<1>5. Packets \subseteq Goals \X (1..MaxPackets)
  BY <1>1, <1>2 DEF Packets
<1>6. IsFiniteSet(Packets)
  BY <1>4, <1>5, FS_Subset
<1>7. {g} \X (1..Len(backlog[g])) \subseteq Packets
  BY <1>1 DEF Packets
<1>8. Cardinality({g} \X (1..Len(backlog[g]))) = Len(backlog[g])
  <2>1. IsFiniteSet(1..Len(backlog[g])) /\ Cardinality(1..Len(backlog[g])) = Len(backlog[g])
    BY <1>1, FS_Interval
  <2>2. IsFiniteSet({g}) /\ Cardinality({g}) = 1
    BY FS_Singleton
  <2> DEFINE A == {g}
             B == 1..Len(backlog[g])
  <2> HIDE DEF A, B
  <2>3. IsFiniteSet(A) /\ IsFiniteSet(B) => Cardinality(A \X B) = Cardinality(A) * Cardinality(B)
    BY FS_Product
  <2>4. Cardinality({g} \X (1..Len(backlog[g]))) = 1 * Len(backlog[g])
    BY <2>1, <2>2, <2>3 DEF A, B
  <2> QED
    BY <1>1, <2>4
<1>9. Len(backlog[g]) <= Cardinality(Packets) /\ Cardinality(Packets) \in Nat
  BY <1>6, <1>7, <1>8, FS_Subset, FS_CardinalityType
<1> QED
  BY <1>1, <1>2, <1>9 DEF Room

-----------------------------------------------------------------------------
(* What a step may do to the parts of the type invariant.                  *)

LEMMA Counting ==
  ASSUME Bounded
  PROVE  /\ \A bad : Setback(bad) => Bounded' /\ reads' = reads
         /\ Calm /\ reads' = reads + 1 /\ UNCHANGED <<faults, setbacks>> => Bounded'
         /\ Calm /\ faults' = faults + 1 /\ UNCHANGED <<reads, setbacks>> => Bounded'
         /\ UNCHANGED bounds => Bounded' /\ reads' = reads
<1>1. MaxTrouble \in Nat
  BY GoalAssumption DEF GoalAssumption
<1> QED
  BY <1>1 DEF Bounded, Setback, Calm, bounds

(* A command that goes on with the goal it has, or a new one.              *)
LEMMA ActingKept ==
  ASSUME Acting, Acts', NEW a \in Actors, \A b \in Actors \ {a} : act'[b] = act[b],
         act'[a].pc # "idle" => act'[a].goal \in Goals
  PROVE  Acting'
BY DEF Acting

(* What every step leaves of the backlog.                                  *)
Grown ==
  \A g \in Goals : DOMAIN backlog[g] \subseteq DOMAIN backlog'[g] /\ Completed(g) \subseteq Completed(g)'

LEMMA Appended ==
  ASSUME Basic, NEW g \in Goals, NEW n \in Nat, Room(n), NEW s \in [1..n -> Entries],
         backlog' = [backlog EXCEPT ![g] = @ \o s]
  PROVE  /\ Filed' /\ Grown
         /\ \A i \in 1..n : Len(backlog[g]) + i \in DOMAIN backlog'[g] /\ Len(backlog[g]) + i \in 1..MaxPackets
<1>1. s \in Seq(Entries) /\ Len(s) = n
  BY SequenceOf
<1>2. /\ backlog \in [Goals -> Seq(Entries)]
      /\ \A h \in Goals : Len(backlog[h]) <= MaxPackets /\ Len(backlog[h]) \in Nat
                           /\ DOMAIN backlog[h] = 1..Len(backlog[h])
  BY SequenceRange DEF Basic, Filed
<1>3. backlog'[g] = backlog[g] \o s /\ \A h \in Goals \ {g} : backlog'[h] = backlog[h]
  BY <1>2
<1>4. /\ backlog'[g] \in Seq(Entries) /\ Len(backlog'[g]) = Len(backlog[g]) + n
      /\ \A m \in 1..Len(backlog[g]) : backlog'[g][m] = backlog[g][m]
  <2>1. backlog[g] \in Seq(Entries) /\ Len(backlog[g]) \in Nat
    BY <1>2
  <2>2. /\ backlog[g] \o s \in Seq(Entries) /\ Len(backlog[g] \o s) = Len(backlog[g]) + n
        /\ \A m \in 1..(Len(backlog[g]) + n) :
             (backlog[g] \o s)[m] = IF m <= Len(backlog[g]) THEN backlog[g][m] ELSE s[m - Len(backlog[g])]
    BY <1>1, <2>1, ConcatProperties
  <2>3. \A m \in 1..Len(backlog[g]) : m \in 1..(Len(backlog[g]) + n) /\ m <= Len(backlog[g])
    BY <2>1
  <2>4. \A m \in 1..Len(backlog[g]) : (backlog[g] \o s)[m] = backlog[g][m]
    BY <2>2, <2>3
  <2> QED
    BY <1>3, <2>2, <2>4
<1>5. DOMAIN backlog'[g] = 1..(Len(backlog[g]) + n)
  BY <1>4, LenProperties
<1>6. Len(backlog[g]) + n <= MaxPackets /\ MaxPackets \in Nat
  BY RoomFor, GoalAssumption DEF GoalAssumption
<1>7. backlog' \in [Goals -> Seq(Entries)]
  BY <1>2, <1>4
<1>8. Filed'
  BY <1>2, <1>3, <1>4, <1>6, <1>7 DEF Filed
<1>9. Grown
  BY <1>2, <1>3, <1>4, <1>5 DEF Grown, Completed
<1> QED
  BY <1>2, <1>5, <1>6, <1>8, <1>9

(* Items of goal g change their status, but a completed one does not.      *)
LEMMA Restated ==
  ASSUME Filed, NEW g \in Goals, NEW s \in [DOMAIN backlog[g] -> Entries],
         backlog' = [backlog EXCEPT ![g] = s],
         \A m \in Completed(g) : s[m].status = "completed"
  PROVE  Filed' /\ Grown /\ \A h \in Goals : DOMAIN backlog'[h] = DOMAIN backlog[h]
<1>1. /\ backlog \in [Goals -> Seq(Entries)]
      /\ \A h \in Goals : Len(backlog[h]) <= MaxPackets /\ Len(backlog[h]) \in Nat
                           /\ DOMAIN backlog[h] = 1..Len(backlog[h])
  BY SequenceRange DEF Filed
<1>2. backlog'[g] = s /\ \A h \in Goals \ {g} : backlog'[h] = backlog[h]
  BY <1>1
<1>3. s \in Seq(Entries) /\ Len(s) = Len(backlog[g]) /\ DOMAIN s = DOMAIN backlog[g]
  BY <1>1, SequenceOf
<1> QED
  BY <1>1, <1>2, <1>3 DEF Filed, Grown, Completed

-----------------------------------------------------------------------------
(* Every step keeps the types.                                             *)

LEMMA RefreshedTasks ==
  ASSUME Basic, Told, NEW g \in Goals
  PROVE  Refreshed(g) \in Seq(Task) /\ Knows(g, Refreshed(g))
<1>1. progress[g] \in Seq(Task) /\ backlog[g] \in Seq(Entries) /\ Knows(g, progress[g])
  BY DEF Basic, Stored, Filed, Told
<1>2. /\ Len(progress[g]) \in Nat /\ DOMAIN progress[g] = 1..Len(progress[g])
      /\ \A i \in DOMAIN progress[g] : progress[g][i] \in Task
  BY <1>1, SequenceRange
<1>3. \A m \in DOMAIN backlog[g] : backlog[g][m] \in Entries
  BY <1>1, SequenceRange
<1> DEFINE new(i) == IF progress[g][i].linked
                     THEN [progress[g][i] EXCEPT !.status = backlog[g][progress[g][i].packet].status]
                     ELSE progress[g][i]
<1>4. ASSUME NEW i \in DOMAIN progress[g]
      PROVE  /\ new(i) \in Task /\ new(i).packet \in DOMAIN backlog[g]
             /\ new(i).status = "completed" => new(i).linked /\ new(i).packet \in Completed(g)
  <2>1. progress[g][i] \in Task /\ progress[g][i].packet \in DOMAIN backlog[g]
    BY <1>1, <1>2 DEF Knows
  <2>2. backlog[g][progress[g][i].packet] \in Entries
    BY <1>3, <2>1
  <2>3. CASE progress[g][i].linked
    BY <2>1, <2>2, <2>3 DEF Task, Entries, Completed
  <2>4. CASE ~progress[g][i].linked
    BY <1>1, <2>1, <2>4 DEF Knows
  <2> QED
    BY <2>3, <2>4
<1>5. Refreshed(g) = [i \in DOMAIN progress[g] |-> new(i)]
  BY DEF Refreshed
<1> HIDE DEF new
<1>6. Refreshed(g) \in [1..Len(progress[g]) -> Task]
  BY <1>2, <1>4, <1>5
<1>7. Refreshed(g) \in Seq(Task) /\ DOMAIN Refreshed(g) = DOMAIN progress[g]
  BY <1>2, <1>6, SequenceOf
<1> QED
  BY <1>4, <1>5, <1>7 DEF Knows

LEMMA LoadProgressBasic ==
  ASSUME Basic, Told, NEW a \in Actors, LoadProgress(a)
  PROVE  /\ Basic' /\ Told'
         /\ act'[a].payload = NoPayload /\ act'[a].pc = "progress" /\ \A b \in Actors \ {a} : act'[b] = act[b]
<1>1. pointer \in Goals
  BY DEF Basic, LoadProgress, HasGoal, Stored
<1>2. Refreshed(pointer) \in Seq(Task) /\ Knows(pointer, Refreshed(pointer))
  BY <1>1, RefreshedTasks
<1> DEFINE c == [Idle EXCEPT !.pc = "progress", !.goal = pointer, !.tasks = Refreshed(pointer)]
<1>3. /\ c \in Commands /\ c.pc = "progress" /\ c.goal = pointer /\ c.tasks = Refreshed(pointer)
      /\ c.payload = NoPayload
  BY <1>1, <1>2, IdleType DEF Idle, Commands, Places
<1>4. act' = [act EXCEPT ![a] = c]
  BY DEF LoadProgress
<1> HIDE DEF c
<1>5. Acts' /\ Becomes(a, c)
  BY <1>3, <1>4, Assigned DEF Basic, Acting
<1>6. Acting'
  BY <1>1, <1>3, <1>5, ActingKept DEF Basic, Becomes
<1>7. Filed' /\ Stored' /\ Delivering' /\ Gated' /\ Owned'
  BY DEF Basic, LoadProgress, Filed, Stored, Delivering, Gated, Owned, store, work, gates
<1>8. Bounded'
  BY Counting DEF Basic, LoadProgress, bounds
<1>9. UNCHANGED <<backlog, progress>>
  BY DEF LoadProgress, store, work
<1>10. Told'
  <2>1. \A g, tasks : Knows(g, tasks) => Knows(g, tasks)'
    BY <1>9 DEF Knows, Completed
  <2>2. At("verified")' => 1 \in DOMAIN Here.tasks'
    BY <1>3, <1>5, <1>9, WatchActs DEF Told, Becomes, At, Here
  <2> QED
    BY <1>2, <1>3, <1>5, <1>9, <2>1, <2>2 DEF Told, Becomes
<1> QED
  BY <1>3, <1>5, <1>6, <1>7, <1>8, <1>10 DEF Basic, Becomes

LEMMA SaveProgressBasic ==
  ASSUME Basic, NEW a \in Actors, SaveProgress(a)
  PROVE  Basic'
<1>1. act[a].goal \in Goals /\ act[a].tasks \in Seq(Task) /\ "judge" \in Places
  BY DEF Basic, SaveProgress, Acting, Acts, Commands, Places
<1>2. Acting'
  BY <1>1, Moved, ActingKept DEF Basic, SaveProgress, Acting
<1>3. Stored'
  BY <1>1 DEF Basic, SaveProgress, Stored
<1>4. Filed' /\ Delivering' /\ Gated' /\ Owned' /\ Bounded'
  BY Counting DEF Basic, SaveProgress, Filed, Delivering, Gated, Owned, work, gates
<1> QED
  BY <1>2, <1>3, <1>4 DEF Basic

LEMMA JudgeBasic ==
  ASSUME Basic, NEW a \in Actors, Judge(a)
  PROVE  /\ Basic' /\ Becomes(a, [act[a] EXCEPT !.pc = "save", !.payload = Judged(act[a].goal, act[a].tasks)])
<1> DEFINE g == act[a].goal
           p == Judged(g, act[a].tasks)
           c == [act[a] EXCEPT !.pc = "save", !.payload = p]
<1>1. g \in Goals /\ act[a] \in Commands
  BY DEF Basic, Judge, Acting, Acts
<1>2. p \in Payload
  <2>1. goals[g].status \in {"none", "active", "completed", "archived"}
    BY <1>1 DEF Basic, Stored, Payload
  <2>2. (Undelivered(g, act[a].tasks) # {}) \in BOOLEAN /\ GatesPending(g) \in BOOLEAN
    BY DEF GatesPending
  <2> QED
    BY <2>1, <2>2 DEF Judged, Payload
<1> HIDE DEF p
<1>3. c \in Commands /\ c.pc = "save" /\ c.goal = g
  BY <1>1, <1>2 DEF Commands, Places
<1>4. act' = [act EXCEPT ![a] = c]
  BY <1>1 DEF Basic, Judge, p, Acting, Acts, Commands
<1> HIDE DEF c
<1>5. Acts' /\ Becomes(a, c)
  BY <1>3, <1>4, Assigned DEF Basic, Acting
<1>6. Acting'
  BY <1>1, <1>3, <1>5, ActingKept DEF Basic, Becomes
<1>7. Stored'
  BY <1>1 DEF Basic, Judge, Stored
<1>8. Filed' /\ Delivering' /\ Gated' /\ Owned' /\ Bounded'
  BY Counting DEF Basic, Judge, Filed, Delivering, Gated, Owned, work, gates
<1> QED
  BY <1>5, <1>6, <1>7, <1>8 DEF Basic, c, p

LEMMA SaveGoalBasic ==
  ASSUME Basic, NEW a \in Actors, SaveGoal(a)
  PROVE  Basic'
<1>1. act[a].goal \in Goals /\ act[a].payload \in Payload /\ {"select", "refill"} \subseteq Places
  BY DEF Basic, SaveGoal, Acting, Acts, Commands, Places
<1>2. Acting'
  <2>1. Leave(a) \/ Move(a, "select") \/ Move(a, "refill")
    BY DEF SaveGoal
  <2> QED
    BY <1>1, <2>1, Moved, Left, ActingKept DEF Basic, Acting, Becomes, Idle
<1>3. Stored'
  BY <1>1 DEF Basic, SaveGoal, Stored
<1>4. Filed' /\ Delivering' /\ Gated' /\ Owned' /\ Bounded'
  BY Counting DEF Basic, SaveGoal, Filed, Delivering, Gated, Owned, work, gates
<1> QED
  BY <1>2, <1>3, <1>4 DEF Basic

LEMMA RefillEndsBasic ==
  ASSUME Basic, RefillEnds
  PROVE  Basic' /\ Becomes("watch", Idle)
<1>1. Acting' /\ Becomes("watch", Idle)
  BY WatchActs, Left, ActingKept DEF RefillEnds, Basic, Acting, Becomes, Idle
<1> QED
  BY <1>1, Counting DEF RefillEnds, Basic, Filed, Stored, Delivering, Gated, Owned, store, work, gates

LEMMA RefillRoadmapBasic ==
  ASSUME Basic, RefillRoadmap
  PROVE  /\ Basic' /\ Grown
         /\ act'["watch"].pc = "fill" /\ act'["watch"].goal = Here.goal /\ act'["watch"].payload = Here.payload
         /\ Knows(Here.goal, Here.tasks)' /\ \A b \in Actors \ {"watch"} : act'[b] = act[b]
<1> DEFINE g == Here.goal
           first == Len(backlog[g])
<1>1. g \in Goals /\ act \in [Actors -> Commands]
  BY WatchActs DEF Basic, Acting, Acts, RefillRoadmap, At, Here
<1>2. PICK n \in 1..Len(Roadmap), s \in Review :
        /\ Room(n) /\ Setback(n > 1 \/ s = "draft")
        /\ backlog' = [backlog EXCEPT ![g] = @ \o [i \in 1..n |-> Packet(Roadmap[i], IF i = n THEN s ELSE "draft")]]
        /\ act' = [act EXCEPT
             !["watch"].pc = "fill",
             !["watch"].tasks = [i \in 1..n |-> [New(g, Roadmap[i], IF i = n THEN s ELSE "draft")
                                                 EXCEPT !.packet = first + i]]]
  BY DEF RefillRoadmap
<1> DEFINE es == [i \in 1..n |-> Packet(Roadmap[i], IF i = n THEN s ELSE "draft")]
           ts == [i \in 1..n |-> [New(g, Roadmap[i], IF i = n THEN s ELSE "draft") EXCEPT !.packet = first + i]]
           c == [Here EXCEPT !.pc = "fill", !.tasks = ts]
<1>3. n \in Nat /\ \A i \in 1..n : Roadmap[i] \in Keys
  BY RoadmapKeys
<1>4. es \in [1..n -> Entries]
  BY <1>3 DEF Packet, Entries, Review
<1>5. backlog' = [backlog EXCEPT ![g] = @ \o es]
  BY <1>2
<1>6. /\ Filed' /\ Grown
      /\ \A i \in 1..n : first + i \in DOMAIN backlog'[g] /\ first + i \in 1..MaxPackets
  <2> HIDE DEF es
  <2> QED
    BY <1>1, <1>2, <1>3, <1>4, <1>5, Appended
<1>7. ASSUME NEW i \in 1..n PROVE ts[i] \in Task /\ ts[i].packet = first + i /\ ts[i].status = ""
  BY <1>3, <1>6, <1>7 DEF New, Task
<1>8. ts \in Seq(Task) /\ DOMAIN ts = 1..n
  <2>1. ts \in [1..n -> Task]
    BY <1>7
  <2> HIDE DEF ts
  <2> QED
    BY <1>3, <2>1, SequenceOf
<1>9. act' = [act EXCEPT !["watch"] = c]
  BY <1>1, <1>2, WatchActs DEF Here, Commands
<1> HIDE DEF ts, es
<1>10. c \in Commands /\ c.pc = "fill" /\ c.goal = g /\ c.tasks = ts /\ c.payload = Here.payload
  BY <1>1, <1>8, WatchActs DEF Commands, Places, Here
<1> HIDE DEF c
<1>11. Acts' /\ Becomes("watch", c)
  BY <1>1, <1>9, <1>10, WatchActs, Assigned DEF Acts
<1>12. Acting'
  BY <1>1, <1>10, <1>11, WatchActs, ActingKept DEF Basic, Becomes
<1>13. Stored' /\ Delivering' /\ Gated' /\ Owned' /\ Bounded'
  BY <1>2, Counting DEF RefillRoadmap, Planning, Basic, Stored, Delivering, Gated, Owned, gates
<1>14. act'["watch"].pc = "fill" /\ act'["watch"].goal = g /\ act'["watch"].tasks = ts
       /\ act'["watch"].payload = Here.payload
  BY <1>10, <1>11 DEF Becomes
<1>15. Knows(Here.goal, Here.tasks)'
  BY <1>6, <1>7, <1>8, <1>14 DEF Knows, Here
<1> QED
  BY <1>6, <1>11, <1>12, <1>13, <1>14, <1>15 DEF Basic, Becomes

LEMMA SaveRoadmapBasic ==
  ASSUME Basic, SaveRoadmap
  PROVE  Basic' /\ Becomes("watch", Idle)
<1>1. Here.goal \in Goals /\ Here.tasks \in Seq(Task)
  BY WatchActs DEF Basic, Acting, Acts, Commands, SaveRoadmap, At, Here
<1>2. Acting' /\ Becomes("watch", Idle)
  BY WatchActs, Left, ActingKept DEF SaveRoadmap, Basic, Acting, Becomes, Idle
<1>3. Stored'
  BY <1>1 DEF SaveRoadmap, Planning, Basic, Stored
<1> QED
  BY <1>2, <1>3, Counting DEF SaveRoadmap, Planning, Basic, Filed, Delivering, Gated, Owned, gates

LEMMA SaveRetriedBasic ==
  ASSUME Basic, SaveRetried
  PROVE  Basic'
<1>1. Here.goal \in Goals /\ Here.tasks \in Seq(Task) /\ "retried" \in Places
  BY WatchActs DEF Basic, Acting, Acts, Commands, SaveRetried, At, Here, Places
<1>2. Acting'
  BY <1>1, WatchActs, Moved, ActingKept DEF SaveRetried, Basic, Acting, Here
<1>3. Stored'
  BY <1>1 DEF SaveRetried, Planning, Basic, Stored
<1> QED
  BY <1>2, <1>3, Counting DEF SaveRetried, Planning, Basic, Filed, Delivering, Gated, Owned, gates

LEMMA SaveRetriedGoalBasic ==
  ASSUME Basic, SaveRetriedGoal
  PROVE  Basic' /\ Becomes("watch", Idle)
<1>1. Here.goal \in Goals /\ Here.payload \in Payload
  BY WatchActs DEF Basic, Acting, Acts, Commands, SaveRetriedGoal, At, Here
<1>2. Acting' /\ Becomes("watch", Idle)
  BY WatchActs, Left, ActingKept DEF SaveRetriedGoal, Basic, Acting, Becomes, Idle
<1>3. Stored'
  BY <1>1 DEF SaveRetriedGoal, Planning, Basic, Stored
<1> QED
  BY <1>2, <1>3, Counting DEF SaveRetriedGoal, Planning, Basic, Filed, Delivering, Gated, Owned, gates

LEMMA OneTask ==
  ASSUME NEW S, NEW t \in S
  PROVE  <<t>> \in Seq(S) /\ DOMAIN <<t>> = {1} /\ <<t>>[1] = t
<1>1. <<t>> \in Seq(S)
  OBVIOUS
<1>2. Len(<<t>>) = 1
  OBVIOUS
<1>3. DOMAIN <<t>> = 1..1
  BY <1>1, <1>2, LenProperties
<1>4. <<t>>[1] = t
  OBVIOUS
<1>5. 1..1 = {1}
  OBVIOUS
<1> QED
  BY <1>1, <1>3, <1>4, <1>5

(* Tasks that say no more than known ones are known.                       *)
LEMMA KnownRestated ==
  ASSUME NEW g \in Goals, NEW ts, NEW old, Knows(g, old), Grown, DOMAIN ts = DOMAIN old,
         \A i \in DOMAIN old : /\ ts[i].packet = old[i].packet
                               /\ ts[i].status = "completed" => old[i].status = "completed"
                               /\ old[i].linked => ts[i].linked
  PROVE  Knows(g, ts)'
<1> SUFFICES ASSUME NEW i \in DOMAIN ts
             PROVE  /\ ts[i].packet \in DOMAIN backlog'[g]
                    /\ ts[i].status = "completed" => ts[i].linked /\ ts[i].packet \in Completed(g)'
  BY DEF Knows
<1>1. old[i].packet \in DOMAIN backlog[g] /\ DOMAIN backlog[g] \subseteq DOMAIN backlog'[g]
      /\ Completed(g) \subseteq Completed(g)'
  BY DEF Knows, Grown
<1>2. old[i].status = "completed" => old[i].linked /\ old[i].packet \in Completed(g)
  BY DEF Knows
<1> QED
  BY <1>1, <1>2

LEMMA KnownMoved ==
  ASSUME NEW a \in Actors, NEW g \in Goals, NEW ts, Knows(g, ts)', act'[a].goal = g, act'[a].tasks = ts
  PROVE  Knows(act[a].goal, act[a].tasks)'
<1>1. Knows(g, ts)' = Knows(act[a].goal, act[a].tasks)'
  BY DEF Knows, Completed
<1> QED
  BY <1>1

LEMMA Beyond ==
  ASSUME NEW m \in Nat, NEW n \in Nat, NEW i \in 1..(m + n), ~(i <= m)
  PROVE  i - m \in 1..n
OBVIOUS

LEMMA KnownOn ==
  ASSUME NEW g \in Goals, NEW ts, Knows(g, ts), Grown
  PROVE  Knows(g, ts)'
BY KnownRestated

LEMMA RetryDraftsBasic ==
  ASSUME Basic, Told, RetryDrafts
  PROVE  /\ Basic' /\ Grown /\ UNCHANGED progress
         /\ \/ Becomes("watch", Idle)
            \/ /\ act'["watch"].pc \in {"plan", "retry"} /\ act'["watch"].goal = Here.goal
               /\ act'["watch"].payload = goals[Here.goal]
               /\ Knows(Here.goal, Here.tasks)' /\ \A b \in Actors \ {"watch"} : act'[b] = act[b]
<1> DEFINE g == Here.goal
           packet(i) == Here.tasks[i].packet
<1>1. /\ g \in Goals /\ act \in [Actors -> Commands] /\ Here.tasks \in Seq(Task)
      /\ Knows(g, Here.tasks)
  BY WatchActs DEF Basic, Acting, Acts, RetryDrafts, At, Here, Commands, Told
<1>2. /\ Len(Here.tasks) \in Nat /\ DOMAIN Here.tasks = 1..Len(Here.tasks)
      /\ \A i \in DOMAIN Here.tasks : Here.tasks[i] \in Task
  BY <1>1, SequenceRange
<1>3. PICK fit \in SUBSET Drafts(Here.tasks) :
        LET twice == {i \in fit : backlog[g][packet(i)].status # "draft"}
            queue == {i \in fit : \A j \in twice : i < j}
        IN  /\ backlog' = [backlog EXCEPT ![g] =
                    [n \in DOMAIN @ |-> IF \E i \in queue : packet(i) = n
                                        THEN [@[n] EXCEPT !.status = "queued"] ELSE @[n]]]
            /\ act' = [act EXCEPT !["watch"] =
                    IF twice # {} THEN Idle
                    ELSE [@ EXCEPT
                      !.pc = IF fit = {} THEN "plan" ELSE "retry",
                      !.tasks = [i \in DOMAIN Here.tasks |->
                        IF i \in fit THEN [Here.tasks[i] EXCEPT !.linked = TRUE] ELSE Here.tasks[i]],
                      !.payload = goals[g]]]
  BY DEF RetryDrafts
<1> DEFINE twice == {i \in fit : backlog[g][packet(i)].status # "draft"}
           queue == {i \in fit : \A j \in twice : i < j}
           es == [n \in DOMAIN backlog[g] |-> IF \E i \in queue : packet(i) = n
                                        THEN [backlog[g][n] EXCEPT !.status = "queued"] ELSE backlog[g][n]]
           ts == [i \in DOMAIN Here.tasks |-> IF i \in fit THEN [Here.tasks[i] EXCEPT !.linked = TRUE] ELSE Here.tasks[i]]
           c == [Here EXCEPT !.pc = IF fit = {} THEN "plan" ELSE "retry", !.tasks = ts, !.payload = goals[g]]
<1>4. backlog \in [Goals -> Seq(Entries)] /\ \A n \in DOMAIN backlog[g] : backlog[g][n] \in Entries
  BY <1>1, SequenceRange DEF Basic, Filed
<1>5. backlog' = [backlog EXCEPT ![g] = es]
  BY <1>1, <1>3, <1>4
<1>6. es \in [DOMAIN backlog[g] -> Entries]
  BY <1>4 DEF Entries
<1>7. ASSUME NEW m \in Completed(g) PROVE es[m].status = "completed"
  <2>1. m \in DOMAIN backlog[g] /\ backlog[g][m].status = "completed"
    BY DEF Completed
  <2>2. ASSUME NEW i \in queue, packet(i) = m PROVE FALSE
    <3>1. i \in twice
      BY <2>1, <2>2
    <3>2. i < i
      BY <3>1
    <3>3. i \in Nat
      BY <1>2 DEF Drafts
    <3> QED
      BY <3>2, <3>3
  <2> QED
    BY <2>1, <2>2
<1>8. Filed' /\ Grown /\ \A h \in Goals : DOMAIN backlog'[h] = DOMAIN backlog[h]
  <2> HIDE DEF es
  <2> QED
    BY <1>1, <1>5, <1>6, <1>7, Restated DEF Basic
<1>9. \A i \in DOMAIN Here.tasks : /\ ts[i] \in Task /\ ts[i].packet = Here.tasks[i].packet
                                   /\ ts[i].status = Here.tasks[i].status
                                   /\ Here.tasks[i].linked => ts[i].linked
  BY <1>2 DEF Task
<1>10. ts \in Seq(Task) /\ DOMAIN ts = DOMAIN Here.tasks
  <2>1. ts \in [1..Len(Here.tasks) -> Task]
    BY <1>2, <1>9
  <2> HIDE DEF ts
  <2> QED
    BY <1>2, <2>1, SequenceOf
<1>11. goals[g] \in Payload /\ Here \in Commands
  BY <1>1, WatchActs DEF Basic, Stored, Here
<1>12. act' = [act EXCEPT !["watch"] = IF twice # {} THEN Idle ELSE c]
  BY <1>3 DEF Here
<1> HIDE DEF ts, es, twice, queue
<1>13. c \in Commands /\ c.pc \in {"plan", "retry"} /\ c.goal = g /\ c.tasks = ts /\ c.payload = goals[g]
  BY <1>10, <1>11 DEF Commands, Places
<1> HIDE DEF c
<1>14. Acts' /\ (Becomes("watch", Idle) \/ Becomes("watch", c))
  BY <1>1, <1>12, <1>13, WatchActs, IdleType, Assigned DEF Acts
<1>15. Acting'
  BY <1>1, <1>13, <1>14, WatchActs, ActingKept DEF Basic, Becomes, Idle
<1>16. Stored' /\ Delivering' /\ Gated' /\ Owned' /\ Bounded' /\ UNCHANGED progress
  BY Counting DEF RetryDrafts, Planning, Basic, Stored, Delivering, Gated, Owned, gates
<1>17. PICK carried : carried = ts
  OBVIOUS
<1>18. PICK h \in Goals : h = g
  BY <1>1
<1>19. Knows(h, carried)'
  <2>1. \A i \in DOMAIN Here.tasks : /\ carried[i].packet = Here.tasks[i].packet
                                     /\ carried[i].status = "completed" => Here.tasks[i].status = "completed"
                                     /\ Here.tasks[i].linked => carried[i].linked
    BY <1>9, <1>17
  <2>2. DOMAIN carried = DOMAIN Here.tasks /\ Knows(h, Here.tasks) /\ Grown
    BY <1>1, <1>8, <1>10, <1>17, <1>18
  <2> QED
    BY <2>1, <2>2, KnownRestated
<1>20. ASSUME Becomes("watch", c) PROVE Knows(Here.goal, Here.tasks)'
  BY <1>13, <1>17, <1>18, <1>19, <1>20, WatchActs, KnownMoved DEF Becomes, Here
<1> QED
  BY <1>8, <1>13, <1>14, <1>15, <1>16, <1>20 DEF Basic, Becomes

LEMMA PlanTaskBasic ==
  ASSUME Basic, PlanTask
  PROVE  /\ Basic' /\ Grown /\ UNCHANGED progress
         /\ act'["watch"].pc = "append" /\ act'["watch"].goal = Here.goal /\ act'["watch"].payload = Here.payload
         /\ Knows(Here.goal, Here.tasks)' /\ \A b \in Actors \ {"watch"} : act'[b] = act[b]
<1> DEFINE g == Here.goal
<1>1. g \in Goals /\ act \in [Actors -> Commands]
  BY WatchActs DEF Basic, Acting, Acts, PlanTask, At, Here
<1>2. PICK fresh \in BOOLEAN, s \in Review : \E key \in Wanted(fresh) :
        /\ Setback(s = "draft")
        /\ backlog' = [backlog EXCEPT ![g] = Append(@, Packet(key, s))]
        /\ act' = [act EXCEPT !["watch"].pc = "append", !["watch"].tasks = <<New(g, key, s)>>]
  BY DEF PlanTask
<1>3. PICK key \in Wanted(fresh) :
        /\ Setback(s = "draft")
        /\ backlog' = [backlog EXCEPT ![g] = Append(@, Packet(key, s))]
        /\ act' = [act EXCEPT !["watch"].pc = "append", !["watch"].tasks = <<New(g, key, s)>>]
  BY <1>2
<1>4. key \in Keys
  BY RoadmapKeys DEF Wanted
<1> DEFINE es == [i \in 1..1 |-> Packet(key, s)]
           ts == <<New(g, key, s)>>
           c == [Here EXCEPT !.pc = "append", !.tasks = ts]
<1>5. backlog[g] \in Seq(Entries) /\ es \in [1..1 -> Entries] /\ Packet(key, s) \in Entries
  BY <1>1, <1>4 DEF Basic, Filed, Packet, Entries, Review
<1>6. backlog' = [backlog EXCEPT ![g] = @ \o es]
  <2>1. es = <<Packet(key, s)>>
    OBVIOUS
  <2> HIDE DEF es
  <2>2. Append(backlog[g], Packet(key, s)) = backlog[g] \o <<Packet(key, s)>>
    BY <1>5, AppendIsConcat
  <2> QED
    BY <1>3, <2>1, <2>2
<1>7. /\ Filed' /\ Grown
      /\ \A i \in 1..1 : Len(backlog[g]) + i \in DOMAIN backlog'[g] /\ Len(backlog[g]) + i \in 1..MaxPackets
  <2>1. Room(1)
    BY DEF PlanTask
  <2> HIDE DEF es
  <2> QED
    BY <1>1, <1>5, <1>6, <2>1, Appended
<1>8. New(g, key, s) \in Task /\ New(g, key, s).packet \in DOMAIN backlog'[g] /\ New(g, key, s).status = ""
  BY <1>4, <1>7 DEF New, Task
<1>9. ts \in Seq(Task) /\ DOMAIN ts = {1} /\ ts[1] = New(g, key, s)
  BY <1>8, OneTask
<1>10. act' = [act EXCEPT !["watch"] = c]
  BY <1>1, <1>3, WatchActs DEF Here, Commands
<1> HIDE DEF ts, es
<1>11. c \in Commands /\ c.pc = "append" /\ c.goal = g /\ c.tasks = ts /\ c.payload = Here.payload
  <2>1. Here \in Commands /\ "append" \in Places
    BY <1>1, WatchActs DEF Here, Places
  <2> QED
    BY <1>9, <2>1 DEF Commands
<1> HIDE DEF c
<1>12. Acts' /\ Becomes("watch", c)
  BY <1>1, <1>10, <1>11, WatchActs, Assigned DEF Acts
<1>13. Acting'
  BY <1>1, <1>11, <1>12, WatchActs, ActingKept DEF Basic, Becomes
<1>14. Stored' /\ Delivering' /\ Gated' /\ Owned' /\ Bounded' /\ UNCHANGED progress
  BY <1>3, Counting DEF PlanTask, Planning, Basic, Stored, Delivering, Gated, Owned, gates
<1>15. Knows(Here.goal, Here.tasks)'
  BY <1>8, <1>9, <1>11, <1>12 DEF Becomes, Knows, Here
<1> QED
  BY <1>7, <1>11, <1>12, <1>13, <1>14, <1>15 DEF Basic, Becomes

LEMMA SaveTaskBasic ==
  ASSUME Basic, Told, SaveTask
  PROVE  /\ Basic' /\ Becomes("watch", Idle) /\ UNCHANGED backlog
         /\ \A g \in Goals : Knows(g, progress[g])'
<1> DEFINE g == Here.goal
<1>1. /\ g \in Goals /\ Here.tasks \in Seq(Task) /\ progress[g] \in Seq(Task)
      /\ Knows(g, progress[g]) /\ Knows(g, Here.tasks)
  BY WatchActs DEF Basic, Acting, Acts, Commands, Stored, Told, SaveTask, At, Here
<1>2. progress' = [progress EXCEPT ![g] = @ \o Here.tasks] /\ progress'[g] = progress[g] \o Here.tasks
  BY <1>1 DEF SaveTask, Basic, Stored
<1>3. Acting' /\ Becomes("watch", Idle)
  BY WatchActs, Left, ActingKept DEF SaveTask, Basic, Acting, Becomes, Idle
<1>4. progress[g] \o Here.tasks \in Seq(Task)
  BY <1>1, ConcatProperties
<1>5. Stored'
  BY <1>2, <1>4 DEF SaveTask, Planning, Basic, Stored
<1>6. Knows(g, progress[g] \o Here.tasks)
  <2>1. /\ Len(progress[g] \o Here.tasks) = Len(progress[g]) + Len(Here.tasks)
        /\ \A i \in 1..Len(progress[g]) + Len(Here.tasks) :
             (progress[g] \o Here.tasks)[i] = IF i <= Len(progress[g]) THEN progress[g][i]
                                              ELSE Here.tasks[i - Len(progress[g])]
    BY <1>1, ConcatProperties
  <2>2. /\ Len(progress[g]) \in Nat /\ DOMAIN progress[g] = 1..Len(progress[g])
        /\ Len(Here.tasks) \in Nat /\ DOMAIN Here.tasks = 1..Len(Here.tasks)
    BY <1>1, SequenceRange
  <2>3. DOMAIN (progress[g] \o Here.tasks) = 1..(Len(progress[g]) + Len(Here.tasks))
    BY <1>4, <2>1, LenProperties
  <2>4. ASSUME NEW i \in DOMAIN (progress[g] \o Here.tasks)
        PROVE  \/ \E j \in DOMAIN progress[g] : (progress[g] \o Here.tasks)[i] = progress[g][j]
               \/ \E j \in DOMAIN Here.tasks : (progress[g] \o Here.tasks)[i] = Here.tasks[j]
    <3>1. CASE i <= Len(progress[g])
      BY <2>1, <2>2, <2>3, <3>1
    <3>2. CASE ~(i <= Len(progress[g]))
      <4>1. i \in 1..(Len(progress[g]) + Len(Here.tasks))
        BY <2>3
      <4>2. i - Len(progress[g]) \in 1..Len(Here.tasks)
        BY <2>2, <3>2, <4>1, Beyond
      <4>3. i - Len(progress[g]) \in DOMAIN Here.tasks
        BY <2>2, <4>2
      <4> QED
        BY <2>1, <3>2, <4>1, <4>3
    <3> QED
      BY <3>1, <3>2
  <2> QED
    BY <1>1, <2>4 DEF Knows
<1>7. UNCHANGED backlog
  BY DEF SaveTask
<1>8. \A h \in Goals : Knows(h, progress[h])'
  <2> SUFFICES ASSUME NEW h \in Goals PROVE Knows(h, progress[h])'
    OBVIOUS
  <2>1. PICK ts : ts = progress'[h]
    OBVIOUS
  <2>2. Knows(h, ts)
    BY <1>1, <1>2, <1>6, <2>1 DEF Told, Basic, Stored
  <2>3. Knows(h, ts)'
    BY <1>7, <2>2 DEF Knows, Completed
  <2> QED
    BY <2>1, <2>3 DEF Knows
<1> QED
  BY <1>3, <1>5, <1>7, <1>8, Counting DEF SaveTask, Planning, Basic, Filed, Delivering, Gated, Owned, gates

LEMMA QuarantineBasic ==
  ASSUME Basic, Told, Quarantine
  PROVE  /\ Basic' /\ Grown /\ UNCHANGED progress
         /\ act'["watch"].pc = "retry" /\ act'["watch"].goal = Here.goal
         /\ act'["watch"].payload = goals[Here.goal]
         /\ Knows(Here.goal, Here.tasks)' /\ \A b \in Actors \ {"watch"} : act'[b] = act[b]
<1> DEFINE g == Here.goal
           hit == {i \in Open(Here.tasks, Repair) :
                     Here.tasks[i].linked /\ backlog[g][Here.tasks[i].packet].status = "queued"}
           es == [n \in DOMAIN backlog[g] |-> IF \E i \in hit : Here.tasks[i].packet = n
                                              THEN Packet(backlog[g][n].key, "blocked") ELSE backlog[g][n]]
           ts == [i \in DOMAIN Here.tasks |-> IF i \in hit THEN [Here.tasks[i] EXCEPT !.status = "blocked"]
                                              ELSE Here.tasks[i]]
           c == [Here EXCEPT !.pc = "retry", !.payload = goals[g], !.tasks = ts]
<1>1. /\ g \in Goals /\ act \in [Actors -> Commands] /\ Here.tasks \in Seq(Task)
      /\ Knows(g, Here.tasks)
  BY WatchActs DEF Basic, Acting, Acts, Quarantine, At, Here, Commands, Told
<1>2. /\ Len(Here.tasks) \in Nat /\ DOMAIN Here.tasks = 1..Len(Here.tasks)
      /\ \A i \in DOMAIN Here.tasks : Here.tasks[i] \in Task
  BY <1>1, SequenceRange
<1>3. backlog \in [Goals -> Seq(Entries)] /\ \A n \in DOMAIN backlog[g] : backlog[g][n] \in Entries
  BY <1>1, SequenceRange DEF Basic, Filed
<1>4. backlog' = [backlog EXCEPT ![g] = es]
  BY <1>1, <1>3 DEF Quarantine
<1>5. es \in [DOMAIN backlog[g] -> Entries]
  BY <1>3 DEF Entries, Packet
<1>6. ASSUME NEW m \in Completed(g) PROVE es[m].status = "completed"
  BY DEF Completed
<1>7. Filed' /\ Grown /\ \A h \in Goals : DOMAIN backlog'[h] = DOMAIN backlog[h]
  <2> HIDE DEF es
  <2> QED
    BY <1>1, <1>4, <1>5, <1>6, Restated DEF Basic
<1>8. \A i \in DOMAIN Here.tasks : /\ ts[i] \in Task /\ ts[i].packet = Here.tasks[i].packet
                                   /\ Here.tasks[i].linked => ts[i].linked
                                   /\ ts[i].status = "completed" => Here.tasks[i].status = "completed"
  BY <1>2 DEF Task
<1>9. ts \in Seq(Task) /\ DOMAIN ts = DOMAIN Here.tasks
  <2>1. ts \in [1..Len(Here.tasks) -> Task]
    BY <1>2, <1>8
  <2> HIDE DEF ts
  <2> QED
    BY <1>2, <2>1, SequenceOf
<1>10. goals[g] \in Payload /\ Here \in Commands
  BY <1>1, WatchActs DEF Basic, Stored, Here
<1>11. act' = [act EXCEPT !["watch"] = c]
  BY WatchActs, <1>1 DEF Here, Quarantine
<1> HIDE DEF ts, es, hit
<1>12. c \in Commands /\ c.pc = "retry" /\ c.goal = g /\ c.tasks = ts /\ c.payload = goals[g]
  BY <1>9, <1>10 DEF Commands, Places
<1> HIDE DEF c
<1>13. Acts' /\ Becomes("watch", c)
  BY <1>1, <1>11, <1>12, WatchActs, Assigned DEF Acts
<1>14. Acting'
  BY <1>1, <1>12, <1>13, WatchActs, ActingKept DEF Basic, Becomes
<1>15. Stored' /\ Delivering' /\ Gated' /\ Owned' /\ Bounded' /\ UNCHANGED progress
  BY Counting DEF Quarantine, Planning, Basic, Stored, Delivering, Gated, Owned, gates
<1>16. PICK carried : carried = ts
  OBVIOUS
<1>17. PICK h \in Goals : h = g
  BY <1>1
<1>18. Knows(h, carried)'
  BY <1>1, <1>7, <1>8, <1>9, <1>16, <1>17, KnownRestated
<1>19. Knows(Here.goal, Here.tasks)'
  BY <1>12, <1>13, <1>16, <1>17, <1>18, WatchActs, KnownMoved DEF Becomes, Here
<1> QED
  BY <1>7, <1>12, <1>13, <1>14, <1>15, <1>19 DEF Basic, Becomes

(* One item changes its status.                                            *)
LEMMA Settled ==
  ASSUME Filed, NEW g \in Goals, NEW n \in DOMAIN backlog[g], NEW s \in {"draft", "queued", "completed", "blocked"},
         Settle(g, n, s), n \in Completed(g) => s = "completed"
  PROVE  Filed' /\ Grown /\ \A h \in Goals : DOMAIN backlog'[h] = DOMAIN backlog[h]
<1> DEFINE es == [backlog[g] EXCEPT ![n].status = s]
<1>1. backlog \in [Goals -> Seq(Entries)] /\ \A m \in DOMAIN backlog[g] : backlog[g][m] \in Entries
  BY SequenceRange DEF Filed
<1>2. backlog[g] \in [DOMAIN backlog[g] -> Entries]
  BY <1>1, SequenceRange
<1>3. es \in [DOMAIN backlog[g] -> Entries]
  BY <1>2 DEF Entries
<1>4. ASSUME NEW m \in Completed(g) PROVE es[m].status = "completed"
  BY <1>1, <1>2 DEF Completed, Entries
<1>5. backlog' = [backlog EXCEPT ![g] = es]
  BY DEF Settle
<1> HIDE DEF es
<1> QED
  BY <1>3, <1>4, <1>5, Restated

LEMMA ImplementBasic ==
  ASSUME Basic, NEW g \in Goals, NEW n \in DOMAIN backlog[g], Implement(g, n)
  PROVE  Basic' /\ Grown /\ Becomes("watch", Idle)
<1>1. n \notin Completed(g)
  BY DEF Implement, Ready, Completed
<1>2. Filed' /\ Grown
  BY <1>1, Settled DEF Implement, Basic
<1>3. Acting' /\ Becomes("watch", Idle)
  BY WatchActs, Left, ActingKept DEF Implement, Basic, Acting, Becomes, Idle
<1>4. Gated'
  <2>1. product' = product \/ \E sound \in BOOLEAN : product' = [head |-> product.head + 1, sound |-> sound]
    BY DEF Implement
  <2>2. product' \in [head : Nat, sound : BOOLEAN] /\ product'.head # 0 /\ product.head <= product'.head
        /\ product.head \in Nat
    BY <2>1 DEF Basic, Gated
  <2>3. UNCHANGED <<evidence, report>> /\ evidence \in [Goals -> 0..product.head]
        /\ report \in [Goals -> [head : 0..product.head, outcome : {"none", "passed", "blocked", "external"}]]
    BY DEF Implement, gates, Basic, Gated
  <2>4. 0..product.head \subseteq 0..product'.head
    BY <2>2
  <2>5. evidence \in [Goals -> 0..product'.head]
    BY <2>3, <2>4
  <2>6. report \in [Goals -> [head : 0..product'.head, outcome : {"none", "passed", "blocked", "external"}]]
    BY <2>3, <2>4
  <2> QED
    BY <2>2, <2>3, <2>5, <2>6 DEF Gated
<1>5. Bounded'
  BY Counting DEF Implement, Basic
<1> QED
  BY <1>2, <1>3, <1>4, <1>5 DEF Implement, Basic, Stored, Delivering, Owned, store

LEMMA VerifyGatesBasic ==
  ASSUME Basic, NEW g \in Goals, NEW n \in DOMAIN backlog[g], VerifyGates(g, n)
  PROVE  /\ Basic' /\ UNCHANGED <<backlog, progress>>
         /\ act'["watch"].pc = "verified" /\ act'["watch"].goal = g /\ DOMAIN act'["watch"].tasks = {1}
         /\ Knows(Here.goal, Here.tasks)' /\ \A b \in Actors \ {"watch"} : act'[b] = act[b]
         /\ \A h \in Goals : evidence'[h] = evidence[h] \/ evidence'[h] # 0
<1> DEFINE ts == <<[New(g, Verify, "queued") EXCEPT !.packet = n]>>
           c == [Idle EXCEPT !.pc = "verified", !.goal = g, !.tasks = ts]
<1>1. PICK outcome \in {"passed", "blocked", "external"} :
       /\ report' = [report EXCEPT ![g] = [head |-> product.head, outcome |-> outcome]]
       /\ evidence' = [evidence EXCEPT ![g] = IF outcome = "passed" THEN product.head ELSE @]
  BY DEF VerifyGates
<1>2. product.head \in 0..product.head /\ product.head # 0 /\ product' = product
  BY DEF Basic, Gated, VerifyGates, work
<1>3. Gated' /\ \A h \in Goals : evidence'[h] = evidence[h] \/ evidence'[h] # 0
  <2>1. evidence \in [Goals -> 0..product.head]
        /\ report \in [Goals -> [head : 0..product.head, outcome : {"none", "passed", "blocked", "external"}]]
    BY DEF Basic, Gated
  <2>2. evidence' \in [Goals -> 0..product.head] /\ \A h \in Goals : evidence'[h] = evidence[h] \/ evidence'[h] # 0
    BY <1>1, <1>2, <2>1
  <2>3. report' \in [Goals -> [head : 0..product.head, outcome : {"none", "passed", "blocked", "external"}]]
    BY <1>1, <1>2, <2>1
  <2> QED
    BY <1>2, <2>2, <2>3 DEF Basic, Gated
<1>4. Len(backlog[g]) \in Nat /\ DOMAIN backlog[g] = 1..Len(backlog[g]) /\ Len(backlog[g]) <= MaxPackets
      /\ MaxPackets \in Nat
  BY SequenceRange, GoalAssumption DEF Basic, Filed, GoalAssumption
<1>5. n \in 1..MaxPackets
  BY <1>4
<1>6. /\ [New(g, Verify, "queued") EXCEPT !.packet = n] \in Task
      /\ [New(g, Verify, "queued") EXCEPT !.packet = n].packet = n
      /\ [New(g, Verify, "queued") EXCEPT !.packet = n].status = ""
  BY <1>5, RoadmapKeys DEF New, Task
<1>7. ts \in Seq(Task) /\ DOMAIN ts = {1} /\ ts[1].packet = n /\ ts[1].status = ""
  <2> DEFINE t == [New(g, Verify, "queued") EXCEPT !.packet = n]
  <2>1. t \in Task /\ t.packet = n /\ t.status = ""
    BY <1>6
  <2>2. ts = <<t>>
    OBVIOUS
  <2> HIDE DEF t, ts
  <2> QED
    BY <2>1, <2>2, OneTask
<1>8. act' = [act EXCEPT !["watch"] = c]
  BY DEF VerifyGates
<1> HIDE DEF ts
<1>9. c \in Commands /\ c.pc = "verified" /\ c.goal = g /\ c.tasks = ts
  BY <1>7, IdleType DEF Commands, Places, Idle
<1> HIDE DEF c
<1>10. Acts' /\ Becomes("watch", c)
  BY <1>8, <1>9, WatchActs, Assigned DEF Basic, Acting
<1>11. Acting'
  BY <1>9, <1>10, WatchActs, ActingKept DEF Basic, Becomes
<1>12. Filed' /\ Stored' /\ Delivering' /\ Owned' /\ Bounded' /\ UNCHANGED <<backlog, progress>>
  BY Counting DEF VerifyGates, Basic, Filed, Stored, Delivering, Owned, store, work
<1>13. Knows(Here.goal, Here.tasks)'
  BY <1>7, <1>9, <1>10, <1>12 DEF Becomes, Knows, Here
<1> QED
  BY <1>3, <1>7, <1>9, <1>10, <1>11, <1>12, <1>13 DEF Basic, Becomes

LEMMA CompleteVerifiedBasic ==
  ASSUME Basic, Told, CompleteVerified
  PROVE  Basic' /\ Grown /\ Becomes("watch", Idle)
<1>1. Here.goal \in Goals /\ 1 \in DOMAIN Here.tasks /\ Knows(Here.goal, Here.tasks)
  BY WatchActs DEF Basic, Acting, Told, CompleteVerified, At, Here
<1>2. Here.tasks[1].packet \in DOMAIN backlog[Here.goal]
  BY <1>1 DEF Knows
<1>3. Filed' /\ Grown
  BY <1>1, <1>2, Settled DEF CompleteVerified, Basic
<1>4. Acting' /\ Becomes("watch", Idle)
  BY WatchActs, Left, ActingKept DEF CompleteVerified, Basic, Acting, Becomes, Idle
<1> QED
  BY <1>3, <1>4, Counting DEF CompleteVerified, Basic, Stored, Delivering, Gated, Owned, store, gates

LEMMA PlanNothingBasic ==
  ASSUME Basic, PlanNothing
  PROVE  Basic' /\ Becomes("watch", Idle)
<1>1. Acting' /\ Becomes("watch", Idle)
  BY WatchActs, Left, ActingKept DEF PlanNothing, Basic, Acting, Becomes, Idle
<1>2. report' = report \/ report' = [report EXCEPT ![Here.goal] = [head |-> product.head, outcome |-> "external"]]
  BY DEF PlanNothing
<1>3. Gated'
  <2>1. product.head \in 0..product.head
    BY DEF Basic, Gated
  <2>2. UNCHANGED <<product, evidence>>
    BY DEF PlanNothing, work
  <2>3. report' \in [Goals -> [head : 0..product.head, outcome : {"none", "passed", "blocked", "external"}]]
    BY <1>2, <2>1 DEF Basic, Gated
  <2> QED
    BY <2>2, <2>3 DEF Basic, Gated
<1> QED
  BY <1>1, <1>3, Counting DEF PlanNothing, Basic, Filed, Stored, Delivering, Owned, store, work

LEMMA PublicationBasic ==
  ASSUME Basic, NEW g \in Goals, NEW n \in DOMAIN backlog[g], Publish(g, n) \/ Prove(g, n)
  PROVE  Basic'
<1>1. Len(backlog[g]) \in Nat /\ DOMAIN backlog[g] = 1..Len(backlog[g]) /\ Len(backlog[g]) <= MaxPackets
      /\ MaxPackets \in Nat
  BY SequenceRange, GoalAssumption DEF Basic, Filed, GoalAssumption
<1>2. <<g, n>> \in Goals \X (1..MaxPackets)
  BY <1>1
<1>3. Delivering'
  BY <1>2 DEF Basic, Delivering, Publish, Prove
<1> QED
  BY <1>3, Counting DEF Publish, Prove, Basic, Filed, Stored, Gated, Acting, Acts, Owned, store, gates

LEMMA RegisterBasic ==
  ASSUME Basic, NEW g \in Goals, NEW from \in {"text", "spec"}, Register(g, from)
  PROVE  Basic'
<1> DEFINE active == IF HasGoal THEN pointer ELSE NoGoal
<1>1. active \in Goals \cup {NoGoal} /\ (active # NoGoal => active \in Goals)
  BY DEF Basic, Stored, HasGoal
<1>2. owner' = [pc |-> IF active # NoGoal /\ from = "text" THEN "archive" ELSE "create",
                new |-> g, old |-> active, from |-> from]
  BY DEF Register
<1> HIDE DEF active
<1>3. Owned'
  BY <1>1, <1>2 DEF Owned, Owners
<1> QED
  BY <1>3, Counting DEF Register, Basic, Filed, Stored, Delivering, Gated, Acting, Acts, store, work, gates

LEMMA OwnerBasic ==
  ASSUME Basic, Owner
  PROVE  Basic' /\ UNCHANGED <<backlog, published, proofs, evidence, act, progress, bounds>>
<1>1. UNCHANGED <<progress, work, gates, act, bounds>>
  BY DEF Owner, Archive, Clear, Create, Point
<1>2. Filed' /\ Delivering' /\ Gated' /\ Acting' /\ Bounded' /\ progress' \in [Goals -> Seq(Task)]
  BY <1>1, Counting DEF Basic, Filed, Delivering, Gated, Acting, Acts, Stored, work, gates
<1>3. CASE Archive
  <2>1. owner.old \in Goals
    BY <1>3 DEF Archive, Basic, Owned
  <2>2. goals' \in [Goals -> Payload]
    BY <1>3, <2>1 DEF Archive, Basic, Stored, Payload
  <2>3. Owned'
    BY <1>3 DEF Archive, Basic, Owned, Owners
  <2> QED
    BY <1>1, <1>2, <1>3, <2>2, <2>3 DEF Archive, Basic, Stored, work, gates
<1>4. CASE Clear
  <2>1. Owned'
    BY <1>4 DEF Clear, Basic, Owned, Owners
  <2> QED
    BY <1>1, <1>2, <1>4, <2>1 DEF Clear, Basic, Stored, work, gates
<1>5. CASE Create
  <2>1. owner.new \in Goals
    BY <1>5 DEF Create, Basic, Owned
  <2>2. goals' \in [Goals -> Payload]
    BY <1>5, <2>1 DEF Create, Basic, Stored, Payload
  <2>3. Owned'
    BY <1>5 DEF Create, Basic, Owned, Owners
  <2> QED
    BY <1>1, <1>2, <1>5, <2>2, <2>3 DEF Create, Basic, Stored, work, gates
<1>6. CASE Point
  <2>1. Owned'
    BY <1>6 DEF Point, Basic, Owned, Owners, NoOwner
  <2>2. owner.new \in Goals
    BY <1>6 DEF Point, Basic, Owned
  <2> QED
    BY <1>1, <1>2, <1>6, <2>1, <2>2 DEF Point, Basic, Stored, work, gates
<1> QED
  BY <1>3, <1>4, <1>5, <1>6 DEF Owner

LEMMA KillBasic ==
  ASSUME Basic, Kill
  PROVE  /\ Basic' /\ UNCHANGED <<store, work, gates>>
         /\ UNCHANGED act \/ Becomes("watch", Idle)
<1>1. Leave("watch") \/ UNCHANGED act
  BY DEF Kill
<1>2. Acting' /\ (UNCHANGED act \/ Becomes("watch", Idle))
  BY <1>1, WatchActs, Left, ActingKept DEF Basic, Acting, Acts, Becomes, Idle
<1>3. Owned'
  BY DEF Kill, Basic, Owned, Owners, NoOwner
<1>4. UNCHANGED <<store, work, gates>> /\ Bounded'
  BY Counting DEF Kill, Basic
<1> QED
  BY <1>2, <1>3, <1>4 DEF Basic, Filed, Stored, Delivering, Gated, store, work, gates

-----------------------------------------------------------------------------
(* Every step keeps what the tasks say.                                    *)

LEMMA SameItems ==
  ASSUME UNCHANGED backlog
  PROVE  Grown
BY DEF Grown, Completed

LEMMA FilesKnown ==
  ASSUME Told, Grown, UNCHANGED progress
  PROVE  \A g \in Goals : Knows(g, progress[g])'
<1> SUFFICES ASSUME NEW g \in Goals PROVE Knows(g, progress[g])'
  OBVIOUS
<1>1. PICK ts : ts = progress[g]
  OBVIOUS
<1>2. Knows(g, ts)'
  BY <1>1, KnownOn DEF Told
<1> QED
  BY <1>1, <1>2 DEF Knows

LEMMA Written ==
  ASSUME Basic, Told, Grown, NEW h \in Goals,
         NEW a \in Actors, act[a].pc # "idle", act[a].goal = h, progress' = [progress EXCEPT ![h] = act[a].tasks]
  PROVE  \A g \in Goals : Knows(g, progress[g])'
<1> SUFFICES ASSUME NEW g \in Goals PROVE Knows(g, progress[g])'
  OBVIOUS
<1>1. PICK ts : ts = IF g = h THEN act[a].tasks ELSE progress[g]
  OBVIOUS
<1>2. progress'[g] = ts
  BY <1>1 DEF Basic, Stored
<1>3. Knows(g, ts)
  BY <1>1 DEF Told
<1>4. Knows(g, ts)'
  BY <1>3, KnownOn
<1> QED
  BY <1>2, <1>4 DEF Knows

LEMMA Carried ==
  ASSUME Told, Acting, Grown, NEW a \in Actors, act[a].pc # "idle",
         act'[a].goal = act[a].goal, act'[a].tasks = act[a].tasks
  PROVE  Knows(act[a].goal, act[a].tasks)'
<1>1. PICK g \in Goals : g = act[a].goal
  BY DEF Acting
<1>2. PICK ts : ts = act[a].tasks
  OBVIOUS
<1>3. Knows(g, ts)'
  BY <1>1, <1>2, KnownOn DEF Told
<1> QED
  BY <1>1, <1>2, <1>3, KnownMoved

LEMMA ToldKept ==
  ASSUME Told, Acting, Grown, NEW a \in Actors, \A b \in Actors \ {a} : act'[b] = act[b],
         \A g \in Goals : Knows(g, progress[g])',
         act'[a].pc # "idle" => Knows(act[a].goal, act[a].tasks)',
         act'[a].pc = "verified" => 1 \in DOMAIN act'[a].tasks
  PROVE  Told'
<1>1. ASSUME NEW b \in Actors, act'[b].pc # "idle" PROVE Knows(act[b].goal, act[b].tasks)'
  <2>1. CASE b = a
    BY <1>1, <2>1
  <2>2. CASE b # a
    BY <1>1, <2>2, Carried
  <2> QED
    BY <2>1, <2>2
<1>2. At("verified")' => 1 \in DOMAIN Here.tasks'
  BY WatchActs DEF Told, At, Here
<1> QED
  BY <1>1, <1>2 DEF Told

LEMMA ToldLeft ==
  ASSUME Told, Acting, Grown, NEW a \in Actors, Becomes(a, Idle), \A g \in Goals : Knows(g, progress[g])'
  PROVE  Told'
BY ToldKept DEF Becomes, Idle

LEMMA ToldUntouched ==
  ASSUME Told, Acting, UNCHANGED <<act, backlog, progress>>
  PROVE  Told'
BY SameItems, FilesKnown, Carried, ToldKept, WatchActs DEF Told, At, Here

LEMMA RefreshTold ==
  ASSUME Basic, Told, Refresh
  PROVE  Basic' /\ Told' /\ Grown
<1>1. Grown
  BY SameItems DEF Refresh, LoadProgress, SaveProgress, Judge, SaveGoal, work
<1> SUFFICES ASSUME NEW a \in Actors, LoadProgress(a) \/ SaveProgress(a) \/ Judge(a) \/ SaveGoal(a)
             PROVE  Basic' /\ Told'
  BY <1>1 DEF Refresh
<1>2. CASE LoadProgress(a)
  BY <1>2, LoadProgressBasic
<1>3. CASE SaveProgress(a)
  <2>1. act[a].goal \in Goals /\ act[a].pc # "idle" /\ Acting /\ Acts
    BY <1>3 DEF SaveProgress, Basic, Acting
  <2>2. \A g \in Goals : Knows(g, progress[g])'
    BY <1>1, <1>3, <2>1, Written DEF SaveProgress
  <2>3. Move(a, "judge") /\ "judge" \in Places
    BY <1>3 DEF SaveProgress, Places
  <2>4. Told'
    BY <1>1, <2>1, <2>2, <2>3, Moved, Carried, ToldKept
  <2> QED
    BY <1>3, <2>4, SaveProgressBasic
<1>4. CASE Judge(a)
  <2>1. Basic' /\ Becomes(a, [act[a] EXCEPT !.pc = "save", !.payload = Judged(act[a].goal, act[a].tasks)])
    BY <1>4, JudgeBasic
  <2>2. act[a].pc # "idle" /\ Acting /\ act[a] \in Commands
    BY <1>4 DEF Judge, Basic, Acting, Acts
  <2>3. act'[a].goal = act[a].goal /\ act'[a].tasks = act[a].tasks /\ act'[a].pc = "save"
    BY <2>1, <2>2 DEF Becomes, Commands
  <2>4. \A g \in Goals : Knows(g, progress[g])'
    BY <1>1, <1>4, FilesKnown DEF Judge
  <2> QED
    BY <1>1, <2>1, <2>2, <2>3, <2>4, Carried, ToldKept DEF Becomes
<1>5. CASE SaveGoal(a)
  <2>1. act[a].pc # "idle" /\ Acting /\ Acts
    BY <1>5 DEF SaveGoal, Basic, Acting
  <2>2. \A g \in Goals : Knows(g, progress[g])'
    BY <1>1, <1>5, FilesKnown DEF SaveGoal
  <2>3. Leave(a) \/ \E pc \in Places : pc # "verified" /\ Move(a, pc)
    BY <1>5 DEF SaveGoal, Places
  <2>4. Told'
    BY <1>1, <2>1, <2>2, <2>3, Left, Moved, Carried, ToldLeft, ToldKept
  <2> QED
    BY <1>5, <2>4, SaveGoalBasic
<1> QED
  BY <1>2, <1>3, <1>4, <1>5

LEMMA RefillTold ==
  ASSUME Basic, Told, Refill
  PROVE  Basic' /\ Told' /\ Grown
<1>1. Acting /\ Acts /\ ~At("idle") /\ Here.pc # "idle" /\ Here.goal \in Goals
  BY WatchActs DEF Refill, RefillEnds, RefillRoadmap, SaveRoadmap, RetryDrafts, SaveRetried, SaveRetriedGoal,
     PlanTask, SaveTask, PlanNothing, At, Here, Basic, Acting
<1>2. CASE RefillEnds \/ SaveRetriedGoal \/ PlanNothing
  <2>1. Basic' /\ Becomes("watch", Idle)
    BY <1>2, RefillEndsBasic, SaveRetriedGoalBasic, PlanNothingBasic
  <2>2. UNCHANGED <<backlog, progress>>
    BY <1>2 DEF RefillEnds, SaveRetriedGoal, PlanNothing, store, work
  <2> QED
    BY <1>1, <2>1, <2>2, SameItems, FilesKnown, ToldLeft, WatchActs
<1>3. CASE RefillRoadmap
  <2>1. UNCHANGED progress
    BY <1>3 DEF RefillRoadmap
  <2>2. Knows(act["watch"].goal, act["watch"].tasks)'
    BY <1>3, RefillRoadmapBasic DEF Here
  <2> QED
    BY <1>1, <1>3, <2>1, <2>2, RefillRoadmapBasic, FilesKnown, ToldKept, WatchActs
<1>4. CASE SaveRoadmap
  <2>1. UNCHANGED backlog /\ progress' = [progress EXCEPT ![Here.goal] = Here.tasks]
    BY <1>4 DEF SaveRoadmap
  <2> QED
    BY <1>1, <1>4, <2>1, SaveRoadmapBasic, SameItems, Written, ToldLeft, WatchActs DEF Here
<1>5. CASE RetryDrafts
  <2>1. /\ Basic' /\ Grown /\ UNCHANGED progress
    BY <1>5, RetryDraftsBasic
  <2>2. \A g \in Goals : Knows(g, progress[g])'
    BY <2>1, FilesKnown
  <2>3. CASE Becomes("watch", Idle)
    BY <1>1, <2>1, <2>2, <2>3, ToldLeft, WatchActs
  <2>4. CASE ~Becomes("watch", Idle)
    <3>1. act'["watch"].pc \in {"plan", "retry"} /\ Knows(act["watch"].goal, act["watch"].tasks)'
          /\ \A b \in Actors \ {"watch"} : act'[b] = act[b]
      BY <1>5, <2>4, RetryDraftsBasic DEF Here
    <3> QED
      BY <1>1, <2>1, <2>2, <3>1, ToldKept, WatchActs
  <2> QED
    BY <2>3, <2>4
<1>6. CASE SaveRetried
  <2>1. UNCHANGED backlog /\ progress' = [progress EXCEPT ![Here.goal] = Here.tasks] /\ Move("watch", "retried")
        /\ "retried" \in Places
    BY <1>6 DEF SaveRetried, Places
  <2>2. Grown /\ \A g \in Goals : Knows(g, progress[g])'
    BY <1>1, <2>1, SameItems, Written, WatchActs DEF Here
  <2>3. Knows(act["watch"].goal, act["watch"].tasks)'
    BY <1>1, <2>1, <2>2, Moved, Carried, WatchActs DEF Here
  <2> QED
    BY <1>1, <1>6, <2>1, <2>2, <2>3, Moved, SaveRetriedBasic, ToldKept, WatchActs
<1>7. CASE PlanTask
  <2>1. Knows(act["watch"].goal, act["watch"].tasks)'
    BY <1>7, PlanTaskBasic DEF Here
  <2> QED
    BY <1>1, <1>7, <2>1, PlanTaskBasic, FilesKnown, ToldKept, WatchActs
<1>8. CASE SaveTask
  BY <1>1, <1>8, SaveTaskBasic, SameItems, ToldLeft, WatchActs
<1> QED
  BY <1>2, <1>3, <1>4, <1>5, <1>6, <1>7, <1>8 DEF Refill

LEMMA WorkTold ==
  ASSUME Basic, Told, Work
  PROVE  Basic' /\ Told' /\ Grown
<1>1. Acting
  BY DEF Basic
<1>2. CASE Quarantine
  <2>1. Knows(act["watch"].goal, act["watch"].tasks)'
    BY <1>2, QuarantineBasic DEF Here
  <2> QED
    BY <1>1, <1>2, <2>1, QuarantineBasic, FilesKnown, ToldKept, WatchActs
<1>3. CASE CompleteVerified
  <2>1. UNCHANGED progress
    BY <1>3 DEF CompleteVerified, store
  <2> QED
    BY <1>1, <1>3, <2>1, CompleteVerifiedBasic, FilesKnown, ToldLeft, WatchActs
<1>4. ASSUME NEW g \in Goals, NEW n \in DOMAIN backlog[g], Implement(g, n)
      PROVE  Basic' /\ Told' /\ Grown
  <2>1. UNCHANGED progress
    BY <1>4 DEF Implement, store
  <2> QED
    BY <1>1, <1>4, <2>1, ImplementBasic, FilesKnown, ToldLeft, WatchActs
<1>5. ASSUME NEW g \in Goals, NEW n \in DOMAIN backlog[g], VerifyGates(g, n)
      PROVE  Basic' /\ Told' /\ Grown
  <2>1. Knows(act["watch"].goal, act["watch"].tasks)' /\ 1 \in DOMAIN act'["watch"].tasks
    BY <1>5, VerifyGatesBasic DEF Here
  <2> QED
    BY <1>1, <1>5, <2>1, VerifyGatesBasic, SameItems, FilesKnown, ToldKept, WatchActs
<1> QED
  BY <1>2, <1>3, <1>4, <1>5 DEF Work

LEMMA BasicInit ==
  ASSUME Init
  PROVE  Basic /\ Told
<1>1. <<>> \in Seq(Entries) /\ <<>> \in Seq(Task) /\ Len(<<>>) = 0 /\ DOMAIN <<>> = {}
  BY EmptySeq
<1>2. MaxPackets \in Nat /\ MaxTrouble \in Nat
  BY GoalAssumption DEF GoalAssumption
<1>3. Filed
  BY <1>1, <1>2 DEF Init, Filed
<1>4. Stored
  BY <1>1, IdleType DEF Init, Stored
<1>5. Delivering
  BY DEF Init, Delivering
<1>6. Gated
  BY DEF Init, Gated, NoReport
<1>7. Acting
  BY IdleType DEF Init, Acting, Acts, Idle
<1>8. Owned
  BY DEF Init, Owned, Owners, NoOwner
<1>9. Bounded
  BY <1>2 DEF Init, Bounded
<1>10. Told
  BY <1>1, WatchActs DEF Init, Told, Knows, At, Here, Idle
<1> QED
  BY <1>3, <1>4, <1>5, <1>6, <1>7, <1>8, <1>9, <1>10 DEF Basic

LEMMA BasicNext ==
  ASSUME Basic, Told, [Next]_vars
  PROVE  Basic' /\ Told' /\ Grown
<1>1. Acting
  BY DEF Basic
<1>2. CASE UNCHANGED vars
  <2>1. UNCHANGED <<act, backlog, progress>>
    BY <1>2 DEF vars, store, work
  <2>2. Basic'
    BY <1>2 DEF vars, store, work, gates, bounds, Basic, Filed, Stored, Delivering, Gated, Acting, Acts, Owned,
       Bounded
  <2> QED
    BY <1>1, <2>1, <2>2, SameItems, ToldUntouched
<1>3. CASE Refresh
  BY <1>3, RefreshTold
<1>4. CASE Refill
  BY <1>4, RefillTold
<1>5. CASE Work
  BY <1>5, WorkTold
<1>6. CASE Publication(Publish) \/ Publication(Prove)
  <2> PICK g \in Goals : \E n \in DOMAIN backlog[g] : Publish(g, n) \/ Prove(g, n)
    BY <1>6 DEF Publication
  <2>1. PICK n \in DOMAIN backlog[g] : Publish(g, n) \/ Prove(g, n)
    OBVIOUS
  <2>2. UNCHANGED <<act, backlog, progress>>
    BY <2>1 DEF Publish, Prove, store
  <2> QED
    BY <1>1, <2>1, <2>2, PublicationBasic, SameItems, ToldUntouched
<1>7. CASE Registers
  <2>1. UNCHANGED <<act, backlog, progress>>
    BY <1>7 DEF Registers, Register, store, work
  <2> QED
    BY <1>1, <1>7, <2>1, RegisterBasic, SameItems, ToldUntouched DEF Registers
<1>8. CASE Owner
  BY <1>1, <1>8, OwnerBasic, SameItems, ToldUntouched
<1>9. CASE Kill
  <2>1. Basic' /\ UNCHANGED <<backlog, progress>> /\ (UNCHANGED act \/ Becomes("watch", Idle))
    BY <1>9, KillBasic DEF store, work
  <2> QED
    BY <1>1, <2>1, SameItems, FilesKnown, ToldUntouched, ToldLeft, WatchActs
<1> QED
  BY <1>2, <1>3, <1>4, <1>5, <1>6, <1>7, <1>8, <1>9 DEF Next

(* Types: the files of the store and what the watch, the status command    *)
(* and `harness goal` carry stay what they are.                            *)
THEOREM TypeCorrect == Spec => []TypeOK
<1>1. Init => Basic /\ Told
  BY BasicInit
<1>2. Basic /\ Told /\ [Next]_vars => (Basic /\ Told)'
  BY BasicNext
<1>3. Basic => TypeOK
  BY Types
<1> QED
  BY <1>1, <1>2, <1>3, PTL DEF Spec

-----------------------------------------------------------------------------
(* A completed goal is delivered.                                          *)

Delivered(g) ==
  /\ \E n \in Completed(g) : <<g, n>> \in proofs
  /\ g \in Production => evidence[g] # 0

(* What is written in a goal's file, or about to be.                       *)
Sound(g, payload) == payload.status = "completed" => Delivered(g) /\ ~payload.pending

(* Whatever a command read, and however long ago, the payload it carries   *)
(* completes a goal only if the goal was delivered then: what delivers a   *)
(* goal is never taken back.                                               *)
Payloads ==
  /\ \A g \in Goals : Sound(g, goals[g])
  /\ \A a \in Actors : act[a].pc # "idle" => Sound(act[a].goal, act[a].payload)

Grows ==
  /\ Grown /\ proofs \subseteq proofs'
  /\ \A g \in Goals : evidence[g] # 0 => evidence'[g] # 0

LEMMA GrowsNext ==
  ASSUME Basic, Told, [Next]_vars
  PROVE  Grows
<1>1. Grown
  BY BasicNext
<1>2. CASE \E g \in Goals : \E n \in DOMAIN backlog[g] : VerifyGates(g, n)
  <2> PICK g \in Goals : \E n \in DOMAIN backlog[g] : VerifyGates(g, n)
    BY <1>2
  <2> PICK n \in DOMAIN backlog[g] : VerifyGates(g, n)
    OBVIOUS
  <2>1. UNCHANGED proofs
    BY DEF VerifyGates, work
  <2> QED
    BY <1>1, <2>1, VerifyGatesBasic DEF Grows
<1>3. CASE Publication(Prove)
  <2> PICK g \in Goals : \E n \in DOMAIN backlog[g] : Prove(g, n)
    BY <1>3 DEF Publication
  <2> PICK n \in DOMAIN backlog[g] : Prove(g, n)
    OBVIOUS
  <2>1. UNCHANGED evidence /\ proofs \subseteq proofs'
    BY DEF Prove, gates
  <2> QED
    BY <1>1, <2>1 DEF Grows
<1>4. CASE UNCHANGED <<proofs, evidence>>
  BY <1>1, <1>4 DEF Grows
<1>5. CASE UNCHANGED vars
  BY <1>4, <1>5 DEF vars, work, gates
<1>6. CASE Refresh \/ Refill
  <2>1. UNCHANGED <<proofs, evidence>>
    BY <1>6 DEF Refresh, LoadProgress, SaveProgress, Judge, SaveGoal, Refill, RefillEnds, RefillRoadmap,
       SaveRoadmap, RetryDrafts, SaveRetried, SaveRetriedGoal, PlanTask, SaveTask, PlanNothing, Planning, work, gates
  <2> QED
    BY <1>4, <2>1
<1>7. CASE Work
  <2>1. \/ \E g \in Goals : \E n \in DOMAIN backlog[g] : VerifyGates(g, n)
        \/ UNCHANGED <<proofs, evidence>>
    BY <1>7 DEF Work, Quarantine, CompleteVerified, Implement, Planning, gates
  <2> QED
    BY <1>2, <1>4, <2>1
<1>8. CASE Publication(Publish) \/ Registers \/ Owner \/ Kill
  <2>1. UNCHANGED <<proofs, evidence>>
    BY <1>8 DEF Publication, Publish, Registers, Register, Owner, Archive, Clear, Create, Point, Kill, work, gates
  <2> QED
    BY <1>4, <2>1
<1> QED
  BY <1>3, <1>5, <1>6, <1>7, <1>8 DEF Next

(* What a completed judgement was made of.                                 *)
LEMMA JudgedCompleted ==
  ASSUME NEW g, NEW tasks, Judged(g, tasks).status = "completed"
  PROVE  /\ Required(tasks) # {} /\ Unresolved(tasks) = {} /\ Undelivered(g, tasks) = {}
         /\ ~GatesPending(g) /\ ~RequestsPending(g, tasks) /\ Judged(g, tasks).pending = FALSE
<1> DEFINE unpublished == Undelivered(g, tasks) # {}
           reached == /\ Required(tasks) # {} /\ Unresolved(tasks) = {}
                      /\ ~unpublished /\ ~GatesPending(g) /\ ~RequestsPending(g, tasks)
           before == goals[g].status
<1>1. /\ Judged(g, tasks).status = IF reached THEN "completed" ELSE IF before = "completed" THEN "active" ELSE before
      /\ Judged(g, tasks).pending = GatesPending(g)
  BY DEF Judged
<1> HIDE DEF before
<1>2. reached
  BY <1>1
<1> QED
  BY <1>1, <1>2

LEMMA JudgedProved ==
  ASSUME NEW g, NEW tasks \in Seq(Task), Knows(g, tasks), Judged(g, tasks).status = "completed"
  PROVE  \E i \in DOMAIN tasks : tasks[i].packet \in Completed(g) /\ <<g, tasks[i].packet>> \in proofs
<1> DEFINE proven(i) == <<g, tasks[i].packet>> \in published \cap proofs
           linked == {i \in Done(tasks) : Checked(tasks[i].key)}
           last == {i \in Done(tasks) : \A j \in Done(tasks) : j <= i}
<1>1. ~(\/ \E i \in linked : ~proven(i)
        \/ linked = {} /\ Unresolved(tasks) = {} /\ \E i \in last : ~proven(i))
  BY JudgedCompleted DEF RequestsPending
<1>2. Required(tasks) # {} /\ Unresolved(tasks) = {}
  BY JudgedCompleted
<1>3. Done(tasks) # {} /\ Done(tasks) \subseteq DOMAIN tasks
  BY <1>2 DEF Unresolved, Done
<1>4. Len(tasks) \in Nat /\ DOMAIN tasks = 1..Len(tasks)
  BY SequenceRange
<1>5. \A i \in Done(tasks) : i \in DOMAIN tasks /\ tasks[i].packet \in Completed(g)
  BY DEF Done, Knows
<1>6. CASE linked # {}
  BY <1>1, <1>5, <1>6
<1>7. CASE linked = {}
  <2>1. \E i \in Done(tasks) : \A j \in Done(tasks) : j <= i
    BY <1>3, <1>4, LastOf
  <2>2. PICK i \in last : TRUE
    BY <2>1
  <2>3. proven(i) /\ i \in Done(tasks)
    BY <1>1, <1>2, <1>7, <2>2
  <2> QED
    BY <1>5, <2>3
<1> QED
  BY <1>6, <1>7

LEMMA JudgedDelivered ==
  ASSUME Basic, NEW g \in Goals, NEW tasks \in Seq(Task), Knows(g, tasks)
  PROVE  Sound(g, Judged(g, tasks))
<1> SUFFICES ASSUME Judged(g, tasks).status = "completed"
             PROVE  Delivered(g) /\ ~Judged(g, tasks).pending
  BY DEF Sound
<1>1. \E n \in Completed(g) : <<g, n>> \in proofs
  BY JudgedProved
<1>2. ~GatesPending(g) /\ Judged(g, tasks).pending = FALSE
  BY JudgedCompleted
<1>3. g \in Production => evidence[g] # 0
  BY <1>2 DEF GatesPending, Basic, Gated
<1> QED
  BY <1>1, <1>2, <1>3 DEF Delivered

LEMMA SoundKept ==
  ASSUME Grows, NEW g \in Goals, NEW payload, Sound(g, payload)
  PROVE  Sound(g, payload)'
<1>1. Delivered(g) => Delivered(g)'
  BY DEF Grows, Grown, Delivered
<1> QED
  BY <1>1 DEF Sound

LEMMA PayloadsKept ==
  ASSUME Payloads, Acting, Grows,
         \A g \in Goals : \/ goals'[g].status # "completed"
                          \/ Sound(g, goals'[g]),
         \A a \in Actors : \/ act'[a].pc = "idle"
                           \/ act'[a].payload.status # "completed"
                           \/ act'[a].goal \in Goals /\ Sound(act'[a].goal, act'[a].payload)
  PROVE  Payloads'
<1>1. ASSUME NEW g \in Goals PROVE Sound(g, goals[g])'
  <2>1. PICK p : p = goals'[g]
    OBVIOUS
  <2>2. CASE p.status # "completed"
    BY <2>1, <2>2 DEF Sound
  <2>3. CASE Sound(g, p)
    <3>1. Sound(g, p)'
      BY <2>3, SoundKept
    <3> QED
      BY <2>1, <3>1 DEF Sound
  <2> QED
    BY <2>1, <2>2, <2>3
<1>2. ASSUME NEW a \in Actors, act'[a].pc # "idle" PROVE Sound(act[a].goal, act[a].payload)'
  <2>1. PICK p : p = act'[a].payload
    OBVIOUS
  <2>2. CASE p.status # "completed"
    BY <2>1, <2>2 DEF Sound
  <2>3. CASE act'[a].goal \in Goals /\ Sound(act'[a].goal, p)
    <3>1. PICK g \in Goals : g = act'[a].goal /\ Sound(g, p)
      BY <2>3
    <3>2. Sound(g, p)'
      BY <3>1, SoundKept
    <3>3. Sound(g, p)' = Sound(act[a].goal, act[a].payload)'
      BY <2>1, <3>1 DEF Sound, Delivered, Completed
    <3> QED
      BY <3>2, <3>3
  <2> QED
    BY <1>2, <2>1, <2>2, <2>3
<1> QED
  BY <1>1, <1>2 DEF Payloads

(* A step that touches neither a goal's file nor what the commands carry,  *)
(* or after which command a is gone or carries what it did.                *)
LEMMA PayloadsSame ==
  ASSUME Payloads, Acting, Grows, UNCHANGED goals, NEW a \in Actors, \A b \in Actors \ {a} : act'[b] = act[b],
         \/ act'[a].pc = "idle"
         \/ act[a].pc # "idle" /\ act'[a].goal = act[a].goal /\ act'[a].payload = act[a].payload
         \/ act'[a].payload.status # "completed"
         \/ act'[a].goal \in Goals /\ act'[a].payload = goals[act'[a].goal]
  PROVE  Payloads'
<1>1. \A g \in Goals : Sound(g, goals'[g])
  BY DEF Payloads
<1>2. \A b \in Actors : act[b].pc # "idle" => act[b].goal \in Goals /\ Sound(act[b].goal, act[b].payload)
  BY DEF Payloads, Acting
<1>3. \A g \in Goals : Sound(g, goals[g])
  BY DEF Payloads
<1>4. ASSUME NEW b \in Actors
      PROVE  \/ act'[b].pc = "idle"
             \/ act'[b].payload.status # "completed"
             \/ act'[b].goal \in Goals /\ Sound(act'[b].goal, act'[b].payload)
  <2>1. CASE b # a
    BY <1>2, <2>1
  <2>2. CASE b = a
    BY <1>2, <1>3, <2>2
  <2> QED
    BY <2>1, <2>2
<1> QED
  BY <1>1, <1>4, PayloadsKept

LEMMA PayloadsNext ==
  ASSUME Basic, Told, Payloads, [Next]_vars
  PROVE  Payloads'
<1>1. Grows /\ Acting /\ Acts
  BY GrowsNext DEF Basic, Acting
<1>2. CASE UNCHANGED <<act, goals>>
  <2>1. act["watch"].pc = "idle" \/ act["watch"].pc # "idle"
    OBVIOUS
  <2> QED
    BY <1>1, <1>2, <2>1, PayloadsSame, WatchActs
<1>3. CASE Becomes("watch", Idle) /\ UNCHANGED goals
  BY <1>1, <1>3, PayloadsSame, WatchActs DEF Becomes, Idle
<1>4. CASE UNCHANGED vars
  BY <1>2, <1>4 DEF vars, store
<1>5. CASE Refresh
  <2> PICK a \in Actors : LoadProgress(a) \/ SaveProgress(a) \/ Judge(a) \/ SaveGoal(a)
    BY <1>5 DEF Refresh
  <2>1. CASE LoadProgress(a)
    <3>1. UNCHANGED goals
      BY <2>1 DEF LoadProgress, store
    <3>2. act'[a].payload.status # "completed" /\ \A b \in Actors \ {a} : act'[b] = act[b]
      BY <2>1, LoadProgressBasic DEF NoPayload
    <3> QED
      BY <1>1, <3>1, <3>2, PayloadsSame
  <2>2. CASE SaveProgress(a)
    <3>1. UNCHANGED goals /\ Move(a, "judge") /\ "judge" \in Places /\ act[a].pc # "idle"
      BY <2>2 DEF SaveProgress, Places
    <3>2. act'[a].goal = act[a].goal /\ act'[a].payload = act[a].payload /\ \A b \in Actors \ {a} : act'[b] = act[b]
      BY <1>1, <3>1, Moved
    <3> QED
      BY <1>1, <3>1, <3>2, PayloadsSame
  <2>3. CASE Judge(a)
    <3>1. Becomes(a, [act[a] EXCEPT !.pc = "save", !.payload = Judged(act[a].goal, act[a].tasks)])
      BY <2>3, JudgeBasic
    <3>2. /\ act[a] \in Commands /\ act[a].goal \in Goals /\ act[a].tasks \in Seq(Task) /\ act[a].pc # "idle"
          /\ Knows(act[a].goal, act[a].tasks) /\ UNCHANGED goals
      BY <1>1, <2>3 DEF Judge, Acting, Acts, Commands, Told
    <3>3. Sound(act[a].goal, Judged(act[a].goal, act[a].tasks))
      BY <3>2, JudgedDelivered
    <3>4. act'[a].goal = act[a].goal /\ act'[a].payload = Judged(act[a].goal, act[a].tasks)
          /\ \A b \in Actors \ {a} : act'[b] = act[b]
      BY <3>1, <3>2 DEF Becomes, Commands
    <3>5. \A b \in Actors : \/ act'[b].pc = "idle"
                            \/ act'[b].goal \in Goals /\ Sound(act'[b].goal, act'[b].payload)
      BY <1>1, <3>2, <3>3, <3>4 DEF Payloads, Acting
    <3>6. \A g \in Goals : Sound(g, goals'[g])
      BY <3>2 DEF Payloads
    <3> QED
      BY <1>1, <3>5, <3>6, PayloadsKept
  <2>4. CASE SaveGoal(a)
    <3>1. Leave(a) \/ \E pc \in Places : Move(a, pc)
      BY <2>4 DEF SaveGoal, Places
    <3>2. /\ \A b \in Actors \ {a} : act'[b] = act[b]
          /\ act'[a].pc = "idle" \/ (act'[a].goal = act[a].goal /\ act'[a].payload = act[a].payload)
      BY <1>1, <3>1, Left, Moved DEF Becomes, Idle
    <3>3. \A g \in Goals : goals'[g] = goals[g] \/ (g = act[a].goal /\ goals'[g] = act[a].payload)
      BY <2>4 DEF SaveGoal, Basic, Stored
    <3>4. act[a].pc # "idle" /\ act[a].goal \in Goals /\ Sound(act[a].goal, act[a].payload)
      BY <1>1, <2>4 DEF SaveGoal, Acting, Payloads
    <3>5. \A b \in Actors : \/ act'[b].pc = "idle"
                            \/ act'[b].goal \in Goals /\ Sound(act'[b].goal, act'[b].payload)
      BY <1>1, <3>2, <3>4 DEF Payloads, Acting
    <3>6. \A g \in Goals : Sound(g, goals'[g])
      BY <3>3, <3>4 DEF Payloads
    <3> QED
      BY <1>1, <3>5, <3>6, PayloadsKept
  <2> QED
    BY <2>1, <2>2, <2>3, <2>4
<1>6. CASE Refill
  <2>1. CASE RefillEnds \/ PlanNothing \/ SaveRoadmap \/ SaveTask
    <3>1. Becomes("watch", Idle)
      BY <2>1, RefillEndsBasic, PlanNothingBasic, SaveRoadmapBasic, SaveTaskBasic
    <3>2. UNCHANGED goals
      BY <2>1 DEF RefillEnds, PlanNothing, SaveRoadmap, SaveTask, store
    <3> QED
      BY <1>3, <3>1, <3>2
  <2>2. CASE RefillRoadmap
    <3>1. UNCHANGED goals /\ act["watch"].pc # "idle"
      BY <2>2 DEF RefillRoadmap, At, Here
    <3>2. act'["watch"].goal = act["watch"].goal /\ act'["watch"].payload = act["watch"].payload
          /\ \A b \in Actors \ {"watch"} : act'[b] = act[b]
      BY <2>2, RefillRoadmapBasic DEF Here
    <3> QED
      BY <1>1, <3>1, <3>2, PayloadsSame, WatchActs
  <2>3. CASE RetryDrafts
    <3>1. UNCHANGED goals /\ act["watch"].pc # "idle" /\ Here.goal \in Goals
      BY <1>1, <2>3, WatchActs DEF RetryDrafts, At, Here, Acting
    <3>2. \/ Becomes("watch", Idle)
          \/ /\ act'["watch"].goal = Here.goal /\ act'["watch"].payload = goals[Here.goal]
             /\ \A b \in Actors \ {"watch"} : act'[b] = act[b]
      BY <2>3, RetryDraftsBasic
    <3> QED
      BY <1>1, <1>3, <3>1, <3>2, PayloadsSame, WatchActs
  <2>4. CASE SaveRetried
    <3>1. UNCHANGED goals /\ Move("watch", "retried") /\ "retried" \in Places /\ act["watch"].pc # "idle"
      BY <2>4 DEF SaveRetried, Places, At, Here
    <3>2. act'["watch"].goal = act["watch"].goal /\ act'["watch"].payload = act["watch"].payload
          /\ \A b \in Actors \ {"watch"} : act'[b] = act[b]
      BY <1>1, <3>1, Moved, WatchActs
    <3> QED
      BY <1>1, <3>1, <3>2, PayloadsSame, WatchActs
  <2>5. CASE SaveRetriedGoal
    <3>1. Becomes("watch", Idle) /\ act["watch"].pc # "idle"
      BY <2>5, SaveRetriedGoalBasic DEF SaveRetriedGoal, At, Here
    <3>2. \A g \in Goals : goals'[g] = goals[g] \/ (g = act["watch"].goal /\ goals'[g] = act["watch"].payload)
      BY <2>5 DEF SaveRetriedGoal, Basic, Stored, Here
    <3>3. Sound(act["watch"].goal, act["watch"].payload)
      BY <3>1, WatchActs DEF Payloads
    <3>4. \A g \in Goals : Sound(g, goals'[g])
      BY <3>2, <3>3 DEF Payloads
    <3>5. \A b \in Actors : \/ act'[b].pc = "idle"
                            \/ act'[b].goal \in Goals /\ Sound(act'[b].goal, act'[b].payload)
      BY <1>1, <3>1 DEF Payloads, Acting, Becomes, Idle
    <3> QED
      BY <1>1, <3>4, <3>5, PayloadsKept
  <2>6. CASE PlanTask
    <3>1. UNCHANGED goals /\ act["watch"].pc # "idle" /\ Acting
      BY <1>1, <2>6 DEF PlanTask, At, Here
    <3>2. /\ act'["watch"].goal = act["watch"].goal /\ act'["watch"].payload = act["watch"].payload
          /\ \A b \in Actors \ {"watch"} : act'[b] = act[b]
      BY <2>6, PlanTaskBasic DEF Here
    <3> QED
      BY <1>1, <3>1, <3>2, PayloadsSame, WatchActs
  <2> QED
    BY <1>6, <2>1, <2>2, <2>3, <2>4, <2>5, <2>6 DEF Refill
<1>7. CASE Work
  <2>1. CASE Quarantine
    <3>1. UNCHANGED goals /\ Here.goal \in Goals
      BY <1>1, <2>1, WatchActs DEF Quarantine, At, Here, Acting
    <3>2. act'["watch"].goal = Here.goal /\ act'["watch"].payload = goals[Here.goal]
          /\ \A b \in Actors \ {"watch"} : act'[b] = act[b]
      BY <2>1, QuarantineBasic
    <3> QED
      BY <1>1, <3>1, <3>2, PayloadsSame, WatchActs
  <2>2. CASE CompleteVerified
    BY <1>3, <2>2, CompleteVerifiedBasic DEF CompleteVerified, store
  <2>3. ASSUME NEW g \in Goals, NEW n \in DOMAIN backlog[g], Implement(g, n) PROVE Payloads'
    BY <1>3, <2>3, ImplementBasic DEF Implement, store
  <2>4. ASSUME NEW g \in Goals, NEW n \in DOMAIN backlog[g], VerifyGates(g, n) PROVE Payloads'
    <3>1. UNCHANGED goals /\ act' = [act EXCEPT !["watch"] = [Idle EXCEPT !.pc = "verified", !.goal = g,
                                       !.tasks = <<[New(g, Verify, "queued") EXCEPT !.packet = n]>>]]
      BY <2>4 DEF VerifyGates, store
    <3>2. act'["watch"].payload = NoPayload /\ \A b \in Actors \ {"watch"} : act'[b] = act[b]
      BY <1>1, <3>1, WatchActs DEF Acts, Idle
    <3>3. act'["watch"].payload.status # "completed"
      BY <3>2 DEF NoPayload
    <3> QED
      BY <1>1, <3>1, <3>2, <3>3, PayloadsSame, WatchActs
  <2> QED
    BY <1>7, <2>1, <2>2, <2>3, <2>4 DEF Work
<1>8. CASE Publication(Publish) \/ Publication(Prove) \/ Registers
  BY <1>2, <1>8 DEF Publication, Publish, Prove, Registers, Register, store
<1>9. CASE Owner
  <2>1. UNCHANGED act
    BY <1>9, OwnerBasic
  <2>2. \A g \in Goals : goals'[g] = goals[g] \/ goals'[g].status # "completed"
    BY <1>9 DEF Owner, Archive, Clear, Create, Point, Basic, Stored, Payload
  <2>3. \A b \in Actors : \/ act'[b].pc = "idle"
                          \/ act'[b].goal \in Goals /\ Sound(act'[b].goal, act'[b].payload)
    BY <1>1, <2>1 DEF Payloads, Acting
  <2>4. \A g \in Goals : goals'[g].status # "completed" \/ Sound(g, goals'[g])
    BY <2>2 DEF Payloads
  <2> QED
    BY <1>1, <2>3, <2>4, PayloadsKept
<1>10. CASE Kill
  <2>1. UNCHANGED goals /\ (UNCHANGED act \/ Becomes("watch", Idle))
    BY <1>10, KillBasic DEF store
  <2> QED
    BY <1>2, <1>3, <2>1
<1> QED
  BY <1>4, <1>5, <1>6, <1>7, <1>8, <1>9, <1>10 DEF Next

(* A goal whose file says completed has an item that was published and     *)
(* proved, and gates that passed if it is a production goal, whoever wrote *)
(* the file and from whatever reading.                                     *)
THEOREM CompletedDelivered == Spec => []CompletedGoalDelivered
<1>1. Init => Basic /\ Told /\ Payloads
  <2> SUFFICES ASSUME Init PROVE Payloads
    BY BasicInit
  <2>1. \A g \in Goals : goals[g] = NoPayload
    BY DEF Init
  <2>2. \A a \in Actors : act[a].pc = "idle"
    BY DEF Init, Idle
  <2> QED
    BY <2>1, <2>2 DEF Payloads, Sound, NoPayload
<1>2. Basic /\ Told /\ Payloads /\ [Next]_vars => (Basic /\ Told /\ Payloads)'
  BY BasicNext, PayloadsNext
<1>3. Payloads => CompletedGoalDelivered
  BY DEF Payloads, Sound, Delivered, CompletedGoalDelivered
<1> QED
  BY <1>1, <1>2, <1>3, PTL DEF Spec

-----------------------------------------------------------------------------
(* The watch alone completes a goal only when it has earned it.            *)

(* What the watch is about to write completes no goal after a retry, and   *)
(* as long as nobody else refreshed the goal, the tasks it judges are the  *)
(* ones on file and a completed verdict still holds.                       *)
Undisturbed ==
  /\ At("retry") \/ At("retried") => Here.payload.status # "completed"
  /\ reads = 0 =>
       /\ act["status"].pc = "idle"
       /\ At("judge") => progress[Here.goal] = Here.tasks
       /\ At("save") /\ Here.payload.status = "completed" => Earned(Here.goal)

LEMMA EarnedKept ==
  ASSUME NEW g \in Goals, Earned(g), Grown, published \subseteq published', proofs \subseteq proofs',
         UNCHANGED <<progress, product, evidence>>
  PROVE  Earned(g)'
<1>1. Completed(g) \subseteq Completed(g)'
  BY DEF Grown
<1>2. Required(progress[g])' = Required(progress[g])
  BY DEF Required, In
<1>3. ASSUME NEW i \in Required(progress[g])
      PROVE  progress'[g][i].packet \in Completed(g)'
             /\ (progress'[g][i].key = Verify \/ <<g, progress'[g][i].packet>> \in published')
  BY <1>1 DEF Earned
<1>4. \E i \in DOMAIN progress'[g] : <<g, progress'[g][i].packet>> \in proofs'
  BY DEF Earned
<1>5. g \in Production => product'.sound /\ evidence'[g] = product'.head
  BY DEF Earned
<1> QED
  BY <1>2, <1>3, <1>4, <1>5 DEF Earned

LEMMA JudgedEarned ==
  ASSUME NEW g \in Goals, progress[g] \in Seq(Task), Knows(g, progress[g]),
         Judged(g, progress[g]).status = "completed"
  PROVE  Earned(g)
<1> DEFINE tasks == progress[g]
<1>1. Unresolved(tasks) = {} /\ Undelivered(g, tasks) = {} /\ ~GatesPending(g)
  BY JudgedCompleted
<1>2. \E i \in DOMAIN tasks : <<g, tasks[i].packet>> \in proofs
  BY JudgedProved
<1>3. ASSUME NEW i \in Required(tasks)
      PROVE  tasks[i].packet \in Completed(g) /\ (tasks[i].key = Verify \/ <<g, tasks[i].packet>> \in published)
  <2>1. i \in Done(tasks) /\ i \in DOMAIN tasks
    BY <1>1 DEF Unresolved, Done
  <2>2. tasks[i].packet \in Completed(g)
    BY <2>1 DEF Done, Knows
  <2>3. tasks[i].key = Verify \/ <<g, tasks[i].packet>> \in published
    BY <1>1, <2>1 DEF Undelivered, In
  <2> QED
    BY <2>2, <2>3
<1>4. g \in Production => product.sound /\ evidence[g] = product.head
  BY <1>1 DEF GatesPending
<1> QED
  BY <1>2, <1>3, <1>4 DEF Earned

LEMMA Away ==
  ASSUME Undisturbed, act'["watch"].pc \notin {"judge", "save", "retry", "retried"}, reads' = reads,
         act'["status"] = act["status"]
  PROVE  Undisturbed'
BY DEF Undisturbed, At, Here

LEMMA Aside ==
  ASSUME Undisturbed, act'["watch"] = act["watch"], reads' # 0
  PROVE  Undisturbed'
BY DEF Undisturbed, At, Here

LEMMA Beside ==
  ASSUME Undisturbed, Acting, UNCHANGED <<act, reads, progress, product, evidence>>, Grown,
         published \subseteq published', proofs \subseteq proofs'
  PROVE  Undisturbed'
<1>1. At("save") => Here.goal \in Goals
  BY WatchActs DEF Acting, At, Here
<1>2. ASSUME At("save"), Earned(Here.goal) PROVE Earned(Here.goal)'
  <2>1. PICK g \in Goals : g = Here.goal
    BY <1>1, <1>2
  <2>2. Earned(g)'
    BY <1>2, <2>1, EarnedKept
  <2>3. Earned(g)' = Earned(Here.goal)'
    BY <2>1 DEF Earned, Required, In, Completed, Here
  <2> QED
    BY <2>2, <2>3
<1> QED
  BY <1>2 DEF Undisturbed, At, Here

LEMMA UndisturbedRefresh ==
  ASSUME Basic, Told, Undisturbed, NEW a \in Actors,
         LoadProgress(a) \/ SaveProgress(a) \/ Judge(a) \/ SaveGoal(a)
  PROVE  Undisturbed'
<1>1. Acting /\ Acts /\ reads \in Nat
  BY DEF Basic, Acting, Bounded
<1>2. \A b \in Actors \ {a} : act'[b] = act[b]
  <2>1. CASE LoadProgress(a)
    BY <2>1, LoadProgressBasic
  <2>2. CASE SaveProgress(a)
    BY <1>1, <2>2, Moved DEF SaveProgress, Places
  <2>3. CASE Judge(a)
    BY <2>3, JudgeBasic DEF Becomes
  <2>4. CASE SaveGoal(a)
    <3>1. Leave(a) \/ \E pc \in Places : Move(a, pc)
      BY <2>4 DEF SaveGoal, Places
    <3> QED
      BY <1>1, <3>1, Left, Moved DEF Becomes
  <2> QED
    BY <2>1, <2>2, <2>3, <2>4
<1>3. CASE a = "status"
  <2>1. reads' # 0
    <3>1. CASE LoadProgress("status")
      BY <1>1, <3>1 DEF LoadProgress
    <3>2. CASE ~LoadProgress("status")
      <4>1. act["status"].pc # "idle" /\ UNCHANGED reads
        BY <1>3, <3>2 DEF SaveProgress, Judge, SaveGoal, bounds
      <4> QED
        BY <4>1 DEF Undisturbed
    <3> QED
      BY <3>1, <3>2
  <2> QED
    BY <1>2, <1>3, <2>1, Aside, WatchActs
<1>4. CASE a = "watch"
  <2>1. act'["status"] = act["status"]
    BY <1>2, <1>4, WatchActs
  <2>2. reads' = reads
    BY <1>4 DEF LoadProgress, SaveProgress, Judge, SaveGoal, bounds
  <2>3. CASE LoadProgress("watch")
    BY <2>1, <2>2, <2>3, LoadProgressBasic, Away, WatchActs
  <2>4. CASE SaveGoal("watch")
    <3>1. Leave("watch") \/ Move("watch", "select") \/ Move("watch", "refill")
      BY <2>4 DEF SaveGoal
    <3>2. act'["watch"].pc \in {"idle", "select", "refill"}
      BY <1>1, <3>1, Left, Moved, WatchActs DEF Becomes, Idle, Places
    <3> QED
      BY <2>1, <2>2, <3>2, Away
  <2>5. CASE SaveProgress("watch")
    <3>1. act["watch"].goal \in Goals
      BY <1>1, <2>5, WatchActs DEF SaveProgress, Acting
    <3>2. progress'[act["watch"].goal] = act["watch"].tasks
      BY <2>5, <3>1 DEF SaveProgress, Basic, Stored
    <3>3. act'["watch"].pc = "judge" /\ act'["watch"].goal = act["watch"].goal
          /\ act'["watch"].tasks = act["watch"].tasks
      BY <1>1, <2>5, Moved, WatchActs DEF SaveProgress, Places
    <3> QED
      BY <2>1, <2>2, <3>2, <3>3 DEF Undisturbed, At, Here
  <2>6. CASE Judge("watch")
    <3>1. Becomes("watch", [act["watch"] EXCEPT !.pc = "save",
                            !.payload = Judged(act["watch"].goal, act["watch"].tasks)])
      BY <2>6, JudgeBasic, WatchActs
    <3>2. act["watch"] \in Commands /\ act["watch"].goal \in Goals /\ act["watch"].tasks \in Seq(Task)
          /\ act["watch"].pc = "judge" /\ Knows(act["watch"].goal, act["watch"].tasks)
      BY <1>1, <2>6, WatchActs DEF Judge, Acting, Acts, Commands, Told
    <3>3. act'["watch"].pc = "save" /\ act'["watch"].goal = act["watch"].goal
          /\ act'["watch"].payload = Judged(act["watch"].goal, act["watch"].tasks)
      BY <3>1, <3>2 DEF Becomes, Commands
    <3>4. PICK g \in Goals : g = act["watch"].goal
      BY <3>2
    <3>5. ASSUME reads = 0, Judged(g, act["watch"].tasks).status = "completed" PROVE Earned(g)
      <4>1. progress[g] = act["watch"].tasks
        BY <3>2, <3>4, <3>5 DEF Undisturbed, At, Here
      <4> QED
        BY <3>2, <3>4, <3>5, <4>1, JudgedEarned
    <3>6. UNCHANGED <<backlog, published, proofs, progress, product, evidence>>
      BY <2>6 DEF Judge, work, gates
    <3>7. ASSUME Earned(g) PROVE Earned(Here.goal)'
      <4>1. Earned(g)'
        BY <3>6, <3>7, SameItems, EarnedKept
      <4>2. Earned(g)' = Earned(Here.goal)'
        BY <3>3, <3>4 DEF Earned, Required, In, Completed, Here
      <4> QED
        BY <4>1, <4>2
    <3> QED
      BY <2>1, <2>2, <3>3, <3>4, <3>5, <3>7 DEF Undisturbed, At, Here
  <2> QED
    BY <1>4, <2>3, <2>4, <2>5, <2>6
<1> QED
  BY <1>3, <1>4, WatchActs

LEMMA UndisturbedRefill ==
  ASSUME Basic, Undisturbed, Told, Refill
  PROVE  Undisturbed'
<1>1. Acting /\ Acts
  BY DEF Basic, Acting
<1>2. reads' = reads
  BY DEF Refill, RefillEnds, RefillRoadmap, SaveRoadmap, RetryDrafts, SaveRetried, SaveRetriedGoal, PlanTask,
     SaveTask, PlanNothing, Setback, bounds
<1>3. CASE Becomes("watch", Idle)
  BY <1>2, <1>3, Away, WatchActs DEF Becomes, Idle
<1>4. CASE RefillEnds \/ PlanNothing \/ SaveRoadmap \/ SaveTask \/ SaveRetriedGoal
  BY <1>3, <1>4, RefillEndsBasic, PlanNothingBasic, SaveRoadmapBasic, SaveTaskBasic, SaveRetriedGoalBasic
<1>5. CASE RefillRoadmap
  BY <1>2, <1>5, RefillRoadmapBasic, Away, WatchActs
<1>6. CASE PlanTask
  BY <1>2, <1>6, PlanTaskBasic, Away, WatchActs
<1>7. CASE RetryDrafts
  <2>1. CASE ~Becomes("watch", Idle)
    <3>1. /\ act'["watch"].pc \in {"plan", "retry"} /\ act'["watch"].payload = goals[Here.goal]
          /\ act'["status"] = act["status"] /\ goals[Here.goal].status = "active"
      BY <1>7, <2>1, RetryDraftsBasic, WatchActs DEF RetryDrafts
    <3> QED
      BY <1>2, <3>1 DEF Undisturbed, At, Here
  <2> QED
    BY <1>3, <2>1
<1>8. CASE SaveRetried
  <2>1. act'["watch"].pc = "retried" /\ act'["watch"].payload = act["watch"].payload
        /\ act'["status"] = act["status"] /\ At("retry")
    BY <1>1, <1>8, Moved, WatchActs DEF SaveRetried, Places
  <2> QED
    BY <1>2, <2>1 DEF Undisturbed, At, Here
<1> QED
  BY <1>4, <1>5, <1>6, <1>7, <1>8 DEF Refill

LEMMA UndisturbedWork ==
  ASSUME Basic, Undisturbed, Told, Payloads, Work
  PROVE  Undisturbed'
<1>1. Acting /\ Acts
  BY DEF Basic, Acting
<1>2. reads' = reads
  BY DEF Work, Quarantine, CompleteVerified, Implement, VerifyGates, Setback, bounds
<1>3. CASE Becomes("watch", Idle)
  BY <1>2, <1>3, Away, WatchActs DEF Becomes, Idle
<1>4. CASE CompleteVerified
  BY <1>3, <1>4, CompleteVerifiedBasic
<1>5. CASE Quarantine
  <2>1. Here.goal \in Goals /\ goals[Here.goal].pending
    BY <1>1, <1>5, WatchActs DEF Quarantine, At, Here, Acting
  <2>2. goals[Here.goal].status # "completed"
    BY <2>1 DEF Payloads, Sound
  <2>3. act'["watch"].pc = "retry" /\ act'["watch"].payload = goals[Here.goal] /\ act'["status"] = act["status"]
    BY <1>5, QuarantineBasic, WatchActs
  <2> QED
    BY <1>2, <2>2, <2>3 DEF Undisturbed, At, Here
<1>6. ASSUME NEW g \in Goals, NEW n \in DOMAIN backlog[g], Implement(g, n) PROVE Undisturbed'
  BY <1>3, <1>6, ImplementBasic
<1>7. ASSUME NEW g \in Goals, NEW n \in DOMAIN backlog[g], VerifyGates(g, n) PROVE Undisturbed'
  BY <1>2, <1>7, VerifyGatesBasic, Away, WatchActs
<1> QED
  BY <1>4, <1>5, <1>6, <1>7 DEF Work

LEMMA UndisturbedNext ==
  ASSUME Basic, Told, Payloads, Undisturbed, [Next]_vars
  PROVE  Undisturbed'
<1>1. Acting /\ Acts /\ Grown
  BY BasicNext DEF Basic, Acting
<1>2. CASE UNCHANGED vars
  BY <1>1, <1>2, Beside DEF vars, store, work, gates, bounds
<1>3. CASE Refresh
  BY <1>3, UndisturbedRefresh DEF Refresh
<1>4. CASE Refill
  BY <1>4, UndisturbedRefill
<1>5. CASE Work
  BY <1>5, UndisturbedWork
<1>6. CASE Publication(Publish) \/ Publication(Prove)
  <2>1. /\ UNCHANGED <<act, reads, progress, product, evidence>>
        /\ published \subseteq published' /\ proofs \subseteq proofs'
    BY <1>6 DEF Publication, Publish, Prove, store, gates, bounds
  <2> QED
    BY <1>1, <2>1, Beside
<1>7. CASE Registers
  <2>1. UNCHANGED <<act, reads, progress, product, evidence, published, proofs>>
    BY <1>7 DEF Registers, Register, Setback, store, work, gates
  <2> QED
    BY <1>1, <2>1, Beside
<1>8. CASE Owner
  <2>1. UNCHANGED <<act, reads, progress, product, evidence, published, proofs>>
    BY <1>8 DEF Owner, Archive, Clear, Create, Point, work, gates, bounds
  <2> QED
    BY <1>1, <2>1, Beside
<1>9. CASE Kill
  <2>1. UNCHANGED <<reads, progress, product, evidence, published, proofs>>
    BY <1>9 DEF Kill, store, work, gates
  <2>2. CASE UNCHANGED act
    BY <1>1, <2>1, <2>2, Beside
  <2>3. CASE Becomes("watch", Idle)
    BY <2>1, <2>3, Away, WatchActs DEF Becomes, Idle
  <2> QED
    BY <1>9, <2>2, <2>3, KillBasic
<1> QED
  BY <1>2, <1>3, <1>4, <1>5, <1>6, <1>7, <1>8, <1>9 DEF Next

(* Who completes a goal.                                                   *)
LEMMA WhoCompletes ==
  ASSUME Basic, Told, Undisturbed, [Next]_vars, NEW g \in Goals,
         reads = 0, goals[g].status # "completed", goals'[g].status = "completed"
  PROVE  Earned(g)
<1>1. goals' # goals
  OBVIOUS
<1>2. CASE \E a \in Actors : SaveGoal(a)
  <2> PICK a \in Actors : SaveGoal(a)
    BY <1>2
  <2>1. act[a].pc = "save" /\ goals' = [goals EXCEPT ![act[a].goal] = act[a].payload]
    BY DEF SaveGoal
  <2>2. g = act[a].goal /\ act[a].payload.status = "completed"
    BY <2>1 DEF Basic, Stored
  <2>3. a = "watch"
    BY <2>1, WatchActs DEF Undisturbed
  <2> QED
    BY <2>1, <2>2, <2>3 DEF Undisturbed, At, Here
<1>3. CASE SaveRetriedGoal
  <2>1. At("retried") /\ goals' = [goals EXCEPT ![Here.goal] = Here.payload]
    BY <1>3 DEF SaveRetriedGoal
  <2>2. Here.payload.status = "completed"
    BY <2>1 DEF Basic, Stored
  <2> QED
    BY <2>1, <2>2 DEF Undisturbed
<1>4. CASE Owner
  <2>1. goals'[g] = goals[g] \/ goals'[g].status # "completed"
    BY <1>4 DEF Owner, Archive, Clear, Create, Point, Basic, Stored, Payload
  <2> QED
    BY <2>1
<1>5. CASE UNCHANGED goals
  BY <1>1, <1>5
<1>6. UNCHANGED goals \/ (\E a \in Actors : SaveGoal(a)) \/ SaveRetriedGoal \/ Owner
  <2>1. CASE UNCHANGED vars
    BY <2>1 DEF vars, store
  <2>2. CASE Refresh
    BY <2>2 DEF Refresh, LoadProgress, SaveProgress, Judge, store
  <2>3. CASE Refill
    BY <2>3 DEF Refill, RefillEnds, RefillRoadmap, SaveRoadmap, RetryDrafts, SaveRetried, PlanTask, SaveTask,
       PlanNothing, store
  <2>4. CASE Work
    BY <2>4 DEF Work, Quarantine, CompleteVerified, Implement, VerifyGates, store
  <2>5. CASE Publication(Publish) \/ Publication(Prove) \/ Registers \/ Kill
    BY <2>5 DEF Publication, Publish, Prove, Registers, Register, Kill, store
  <2> QED
    BY <2>1, <2>2, <2>3, <2>4, <2>5 DEF Next
<1> QED
  BY <1>2, <1>3, <1>4, <1>5, <1>6

(* Without status commands the watch completes a goal only at a moment     *)
(* when every task it knows, but fallbacks, is completed and (but for the  *)
(* verification) published, one of them is proved, and, for a production   *)
(* goal, the commit that is checked out is the one its gates passed on.    *)
THEOREM CompletionEarned == Spec => CompletionIsEarned
<1> DEFINE Inv == Basic /\ Told /\ Payloads /\ Undisturbed
           Step == \A g \in Goals :
             (reads = 0 /\ goals[g].status # "completed" /\ goals'[g].status = "completed") => Earned(g)
<1>1. Init => Inv
  <2> SUFFICES ASSUME Init PROVE Payloads /\ Undisturbed
    BY BasicInit
  <2>1. \A g \in Goals : goals[g] = NoPayload
    BY DEF Init
  <2>2. \A a \in Actors : act[a].pc = "idle"
    BY DEF Init, Idle
  <2> QED
    BY <2>1, <2>2, WatchActs DEF Payloads, Sound, NoPayload, Undisturbed, At, Here
<1>2. Inv /\ [Next]_vars => Inv'
  BY BasicNext, PayloadsNext, UndisturbedNext
<1>3. Inv /\ [Next]_vars => [Step]_vars
  BY WhoCompletes
<1> HIDE DEF Inv
<1> QED
  BY <1>1, <1>2, <1>3, PTL DEF Spec, CompletionIsEarned
=============================================================================
