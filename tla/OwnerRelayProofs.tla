-------------------------- MODULE OwnerRelayProofs --------------------------
(***************************************************************************)
(* Theorems about OwnerRelay, for every set of deliveries and drainers,    *)
(* every bound and every budget of faults and crashes.                     *)
(***************************************************************************)
EXTENDS OwnerRelay, SequenceTheorems, TLAPS

-----------------------------------------------------------------------------
(* The list operations keep the type of a list and lose no other element.  *)

LEMMA TakeType ==
  ASSUME NEW S, NEW s \in Seq(S), NEW n \in Nat
  PROVE  Take(s, n) \in Seq(S)
<1> DEFINE m == IF Len(s) < n THEN Len(s) ELSE n
<1>1. Len(s) \in Nat /\ m \in Nat /\ m <= Len(s)
  BY LenProperties
<1>2. \A i \in 1 .. m : s[i] \in S
  BY <1>1, ElementOfSeq
<1>3. SubSeq(s, 1, m) \in Seq(S)
  BY <1>1, <1>2, SubSeqProperties
<1> QED
  BY <1>3 DEF Take

LEMMA AppendTrimType ==
  ASSUME NEW S, NEW s \in Seq(S), NEW e \in S, NEW max \in Nat
  PROVE  AppendTrim(s, e, max) \in Seq(S)
<1>1. <<e>> \o s \in Seq(S)
  BY ConcatProperties
<1> QED
  BY <1>1, TakeType DEF AppendTrim

LEMMA ElementsOfSeq ==
  ASSUME NEW S, NEW s \in Seq(S)
  PROVE  Elements(s) \subseteq S
BY LenProperties DEF Elements

(* LREM takes one occurrence out of a list that has one.                   *)
LEMMA LremAt ==
  ASSUME NEW S, NEW s \in Seq(S), NEW e \in Elements(s)
  PROVE  /\ Lrem(s, e) \in Seq(S)
         /\ Len(Lrem(s, e)) = Len(s) - 1
         /\ \E i \in 1 .. Len(s) :
              /\ s[i] = e
              /\ \A j \in 1 .. Len(s) - 1 :
                   Lrem(s, e)[j] = IF j < i THEN s[j] ELSE s[j + 1]
<1> DEFINE i == CHOOSE j \in 1 .. Len(s) : s[j] = e
           a == SubSeq(s, 1, i - 1)
           b == SubSeq(s, i + 1, Len(s))
<1>1. Len(s) \in Nat /\ i \in 1 .. Len(s) /\ s[i] = e
  BY LenProperties DEF Elements
<1> HIDE DEF i
<1>2. /\ a \in Seq(S) /\ Len(a) = i - 1
      /\ \A j \in 1 .. i - 1 : a[j] = s[j]
  <2>1. \A j \in 1 .. i - 1 : s[j] \in S
    BY <1>1, ElementOfSeq
  <2>2. i - 1 \in Int /\ 1 \in Int
    BY <1>1
  <2>3. /\ a \in Seq(S)
        /\ Len(a) = IF 1 <= i - 1 THEN i - 1 - 1 + 1 ELSE 0
        /\ \A j \in 1 .. i - 1 - 1 + 1 : a[j] = s[1 + j - 1]
    BY <2>1, <2>2, SubSeqProperties
  <2> QED
    BY <2>3, <1>1
<1>3. /\ b \in Seq(S) /\ Len(b) = Len(s) - i
      /\ \A j \in 1 .. Len(s) - i : b[j] = s[i + j]
  <2>1. \A j \in i + 1 .. Len(s) : s[j] \in S
    BY <1>1, ElementOfSeq
  <2>2. i + 1 \in Int /\ Len(s) \in Int
    BY <1>1
  <2>3. /\ b \in Seq(S)
        /\ Len(b) = IF i + 1 <= Len(s) THEN Len(s) - (i + 1) + 1 ELSE 0
        /\ \A j \in 1 .. Len(s) - (i + 1) + 1 : b[j] = s[(i + 1) + j - 1]
    BY <2>1, <2>2, SubSeqProperties
  <2> QED
    BY <2>3, <1>1
<1> HIDE DEF a, b
<1>4. /\ a \o b \in Seq(S)
      /\ Len(a \o b) = Len(a) + Len(b)
      /\ \A j \in 1 .. Len(a) + Len(b) :
           (a \o b)[j] = IF j <= Len(a) THEN a[j] ELSE b[j - Len(a)]
  BY <1>2, <1>3, ConcatProperties
<1>5. Lrem(s, e) = a \o b
  BY DEF Lrem, a, b, i
<1>6. ASSUME NEW j \in 1 .. Len(s) - 1
      PROVE  (a \o b)[j] = IF j < i THEN s[j] ELSE s[j + 1]
  <2>1. j \in 1 .. Len(a) + Len(b) /\ Len(a) = i - 1
    BY <1>1, <1>2, <1>3
  <2>2. CASE j < i
    BY <1>1, <1>2, <1>4, <2>1, <2>2
  <2>3. CASE ~(j < i)
    <3>1. ~(j <= Len(a)) /\ j - Len(a) \in 1 .. Len(s) - i /\ i + (j - Len(a)) = j + 1
      BY <1>1, <2>1, <2>3
    <3> QED
      BY <1>3, <1>4, <2>1, <2>3, <3>1
  <2> QED
    BY <2>2, <2>3
<1>7. Len(a \o b) = Len(s) - 1
  BY <1>1, <1>2, <1>3, <1>4
<1> QED
  BY <1>1, <1>4, <1>5, <1>6, <1>7

(* LREM returns a list of the same type that keeps every other element.    *)
LEMMA LremProperties ==
  ASSUME NEW S, NEW s \in Seq(S), NEW e
  PROVE  /\ Lrem(s, e) \in Seq(S)
         /\ Elements(s) \ {e} \subseteq Elements(Lrem(s, e))
<1>1. CASE e \notin Elements(s)
  BY <1>1 DEF Lrem
<1>2. CASE e \in Elements(s)
  <2> DEFINE t == Lrem(s, e)
  <2>1. t \in Seq(S) /\ Len(t) = Len(s) - 1 /\ Len(s) \in Nat
    BY <1>2, LremAt, LenProperties
  <2>2. PICK i \in 1 .. Len(s) :
          /\ s[i] = e
          /\ \A j \in 1 .. Len(s) - 1 : t[j] = IF j < i THEN s[j] ELSE s[j + 1]
    BY <1>2, LremAt
  <2> HIDE DEF t
  <2>3. ASSUME NEW j \in 1 .. Len(s), s[j] # e
        PROVE  s[j] \in Elements(t)
    <3>1. CASE j < i
      <4>1. j \in 1 .. Len(t) /\ t[j] = s[j]
        BY <2>1, <2>2, <3>1
      <4> QED
        BY <4>1 DEF Elements
    <3>2. CASE j > i
      <4>1. j - 1 \in 1 .. Len(t) /\ ~(j - 1 < i) /\ (j - 1) + 1 = j
        BY <2>1, <2>2, <3>2
      <4>2. t[j - 1] = s[j]
        BY <2>1, <2>2, <4>1
      <4> QED
        BY <4>1, <4>2 DEF Elements
    <3>3. j # i
      BY <2>2, <2>3
    <3> QED
      BY <2>1, <3>1, <3>2, <3>3
  <2>4. Elements(s) \ {e} \subseteq Elements(t)
    BY <2>3 DEF Elements
  <2> QED
    BY <2>1, <2>4 DEF t
<1> QED
  BY <1>1, <1>2

(* Pushing at the head, taking the last element off, appending: what they  *)
(* do to the elements of a list.                                           *)
LEMMA ConsElements ==
  ASSUME NEW S, NEW s \in Seq(S), NEW e \in S
  PROVE  /\ <<e>> \o s \in Seq(S)
         /\ Elements(<<e>> \o s) = {e} \cup Elements(s)
<1> DEFINE t == <<e>> \o s
<1>1. Len(s) \in Nat /\ <<e>> \in Seq(S) /\ Len(<<e>>) = 1 /\ <<e>>[1] = e
  BY LenProperties
<1>2. /\ t \in Seq(S)
      /\ Len(t) = 1 + Len(s)
      /\ \A i \in 1 .. 1 + Len(s) : t[i] = IF i <= 1 THEN <<e>>[i] ELSE s[i - 1]
  BY <1>1, ConcatProperties
<1> HIDE DEF t
<1>3. t[1] = e /\ \A i \in 1 .. Len(s) : t[i + 1] = s[i]
  BY <1>1, <1>2
<1>4. Elements(t) \subseteq {e} \cup Elements(s)
  <2> SUFFICES ASSUME NEW i \in 1 .. Len(t)
               PROVE  t[i] \in {e} \cup Elements(s)
    BY DEF Elements
  <2>1. CASE i = 1
    BY <2>1, <1>3
  <2>2. CASE i # 1
    <3>1. i - 1 \in 1 .. Len(s) /\ t[i] = s[i - 1]
      BY <2>2, <1>1, <1>2
    <3> QED
      BY <3>1 DEF Elements
  <2> QED
    BY <2>1, <2>2
<1>5. {e} \cup Elements(s) \subseteq Elements(t)
  <2>1. 1 \in 1 .. Len(t) /\ \A i \in 1 .. Len(s) : i + 1 \in 1 .. Len(t)
    BY <1>1, <1>2
  <2> QED
    BY <2>1, <1>3 DEF Elements
<1> QED
  BY <1>2, <1>4, <1>5 DEF t

LEMMA FrontElements ==
  ASSUME NEW S, NEW s \in Seq(S), s # <<>>
  PROVE  /\ s[Len(s)] \in S
         /\ SubSeq(s, 1, Len(s) - 1) \in Seq(S)
         /\ Elements(s) \subseteq Elements(SubSeq(s, 1, Len(s) - 1)) \cup {s[Len(s)]}
<1> DEFINE n == Len(s)
           t == SubSeq(s, 1, n - 1)
<1>1. n \in Nat \ {0} /\ \A i \in 1 .. n : s[i] \in S
  BY EmptySeq, ElementOfSeq
<1>2. n - 1 \in Int /\ 1 \in Int /\ \A i \in 1 .. n - 1 : s[i] \in S
  BY <1>1
<1>3. /\ t \in Seq(S)
      /\ Len(t) = IF 1 <= n - 1 THEN (n - 1) - 1 + 1 ELSE 0
      /\ \A i \in 1 .. (n - 1) - 1 + 1 : t[i] = s[1 + i - 1]
  BY <1>2, SubSeqProperties
<1> HIDE DEF n, t
<1>4. Len(t) = n - 1 /\ \A i \in 1 .. n - 1 : t[i] = s[i]
  BY <1>1, <1>3
<1>5. \A i \in 1 .. n : i = n \/ i \in 1 .. n - 1
  BY <1>1
<1>6. Elements(s) \subseteq Elements(t) \cup {s[n]}
  <2>1. Elements(s) = {s[i] : i \in 1 .. n}
    BY DEF Elements, n
  <2>2. Elements(t) = {t[i] : i \in 1 .. n - 1}
    BY <1>4 DEF Elements
  <2> QED
    BY <2>1, <2>2, <1>4, <1>5
<1> QED
  BY <1>1, <1>3, <1>6 DEF n, t

LEMMA AppendElements ==
  ASSUME NEW S, NEW s \in Seq(S), NEW e \in S
  PROVE  Elements(s) \cup {e} \subseteq Elements(Append(s, e))
<1>1. Len(s) \in Nat
  BY LenProperties
<1>2. /\ Len(Append(s, e)) = Len(s) + 1
      /\ \A i \in 1 .. Len(s) : Append(s, e)[i] = s[i]
      /\ Append(s, e)[Len(s) + 1] = e
  BY AppendProperties
<1>3. /\ Len(s) + 1 \in 1 .. Len(s) + 1
      /\ \A i \in 1 .. Len(s) : i \in 1 .. Len(s) + 1
  BY <1>1
<1> QED
  BY <1>2, <1>3 DEF Elements

(* LPUSH then LTRIM keeps the new element, whatever the bound.             *)
LEMMA AppendTrimKeeps ==
  ASSUME NEW S, NEW s \in Seq(S), NEW e \in S, NEW max \in Nat \ {0}
  PROVE  e \in Elements(AppendTrim(s, e, max))
<1> DEFINE t == <<e>> \o s
           m == IF Len(t) < max THEN Len(t) ELSE max
<1>1. /\ t \in Seq(S) /\ Len(t) = 1 + Len(s) /\ Len(s) \in Nat
      /\ t[1] = e
  <2>1. Len(s) \in Nat /\ <<e>> \in Seq(S) /\ Len(<<e>>) = 1 /\ <<e>>[1] = e
    BY LenProperties
  <2>2. /\ t \in Seq(S) /\ Len(t) = 1 + Len(s)
        /\ \A i \in 1 .. 1 + Len(s) : t[i] = IF i <= 1 THEN <<e>>[i] ELSE s[i - 1]
    BY <2>1, ConcatProperties
  <2>3. 1 \in 1 .. 1 + Len(s)
    BY <2>1
  <2> QED
    BY <2>1, <2>2, <2>3
<1> HIDE DEF t
<1>2. m \in Nat /\ m >= 1 /\ m <= Len(t) /\ m \in Int /\ 1 \in Int
  BY <1>1
<1>3. \A i \in 1 .. m : t[i] \in S
  BY <1>1, <1>2, ElementOfSeq
<1> HIDE DEF m
<1>4. /\ Len(SubSeq(t, 1, m)) = IF 1 <= m THEN m - 1 + 1 ELSE 0
      /\ \A i \in 1 .. m - 1 + 1 : SubSeq(t, 1, m)[i] = t[1 + i - 1]
  BY <1>2, <1>3, SubSeqProperties
<1>5. 1 \in 1 .. Len(SubSeq(t, 1, m)) /\ SubSeq(t, 1, m)[1] = e
  BY <1>1, <1>2, <1>4
<1>6. AppendTrim(s, e, max) = SubSeq(t, 1, m)
  BY DEF AppendTrim, Take, t, m
<1> QED
  BY <1>5, <1>6 DEF Elements

-----------------------------------------------------------------------------
(* Type correctness.                                                       *)

LEMMA BotTypes ==
  ASSUME TypeOK, NEW d \in Deliveries, BotStep(d)
  PROVE  TypeOK'
<1> USE RelayAssumption DEF TypeOK, BotOnly, NoFault, Fault, history, storeVars
<1>1. ASSUME Push(d) PROVE /\ queue' \in Seq(Deliveries)
                           /\ sent' \in Seq(Deliveries)
                           /\ trimmed' \subseteq Deliveries
  BY <1>1, AppendTrimType, AppendProperties, ElementsOfSeq DEF Push
<1>2. CASE BotMark(d)
  BY <1>2 DEF BotMark
<1>3. CASE BotDuplicate(d)
  BY <1>3 DEF BotDuplicate
<1>4. CASE BotMarkFault(d)
  BY <1>4 DEF BotMarkFault
<1>5. CASE BotAppend(d)
  BY <1>1, <1>5 DEF BotAppend
<1>6. CASE BotAppendFault(d)
  BY <1>1, <1>6 DEF BotAppendFault
<1>7. CASE BotUndo(d)
  BY <1>7 DEF BotUndo
<1>8. CASE BotUndoFault(d)
  BY <1>8 DEF BotUndoFault
<1>9. CASE BotCrash(d)
  BY <1>9 DEF BotCrash
<1> QED
  BY <1>2, <1>3, <1>4, <1>5, <1>6, <1>7, <1>8, <1>9 DEF BotStep

(* A drainer that handles a payload has one: its batch is not empty.       *)
Busy == \A p \in Drainers :
  pc[p] \in {"write", "mark", "ack", "bury", "ackdead"} => batch[p] # <<>>

LEMMA MoveTailTypes ==
  ASSUME TypeOK, MoveTail
  PROVE  /\ queue' \in Seq(Deliveries)
         /\ processing' \in Seq(Deliveries)
         /\ queue[Len(queue)] \in Deliveries
         /\ Elements(queue) \cup Elements(processing)
              \subseteq Elements(queue') \cup Elements(processing')
<1> DEFINE e == queue[Len(queue)]
<1>1. /\ e \in Deliveries
      /\ queue' \in Seq(Deliveries)
      /\ Elements(queue) \subseteq Elements(queue') \cup {e}
  BY FrontElements DEF TypeOK, MoveTail
<1>2. processing' \in Seq(Deliveries) /\ Elements(processing') = {e} \cup Elements(processing)
  BY <1>1, ConsElements DEF TypeOK, MoveTail
<1> QED
  BY <1>1, <1>2

LEMMA DrainTypes ==
  ASSUME TypeOK, Busy, NEW p \in Drainers, DrainStep(p)
  PROVE  TypeOK' /\ Busy'
<1> USE RelayAssumption
    DEF TypeOK, Busy, DrainOnly, NoFault, Fault, history, Goto, SetBatch, Current
<1>1. ASSUME batch[p] # <<>>
      PROVE  Head(batch[p]) \in Deliveries /\ Tail(batch[p]) \in Seq(Deliveries)
  BY <1>1, HeadTailProperties
<1>2. \A e : Lrem(processing, e) \in Seq(Deliveries)
  BY LremProperties
<1>3. <<>> \in Seq(Deliveries)
  BY EmptySeq
<1>4. CASE DrainAcquire(p)
  BY <1>4 DEF DrainAcquire
<1>5. CASE DrainRead(p)
  <2>1. Take(processing, Limit) \in Seq(Deliveries)
    BY TakeType
  <2> QED
    BY <1>5, <2>1 DEF DrainRead
<1>6. CASE DrainClaim(p)
  <2>1. /\ queue' \in Seq(Deliveries) /\ processing' \in Seq(Deliveries)
        /\ Append(batch[p], queue[Len(queue)]) \in Seq(Deliveries)
    BY <1>6, MoveTailTypes, AppendProperties DEF DrainClaim
  <2> QED
    BY <1>6, <2>1 DEF DrainClaim
<1>7. CASE DrainClaimed(p)
  BY <1>7 DEF DrainClaimed
<1>8. CASE DrainRefuse(p)
  BY <1>8 DEF DrainRefuse
<1>9. CASE DrainFound(p)
  BY <1>9 DEF DrainFound
<1>10. CASE DrainFresh(p)
  BY <1>10 DEF DrainFresh
<1>11. CASE DrainWrite(p)
  <2>1. Append(ledger, Head(batch[p])) \in Seq(Deliveries)
    BY <1>1, <1>11, AppendProperties DEF DrainWrite
  <2> QED
    BY <1>11, <2>1 DEF DrainWrite
<1>12. CASE DrainMark(p)
  BY <1>1, <1>12 DEF DrainMark
<1>13. CASE DrainBury(p)
  <2>1. dead' \in Seq(Deliveries) /\ trimmed' \subseteq Deliveries
    BY <1>1, <1>13, AppendTrimType, ElementsOfSeq DEF DrainBury
  <2> QED
    BY <1>13, <2>1 DEF DrainBury
<1>14. CASE DrainAck(p)
  BY <1>1, <1>2, <1>14 DEF DrainAck
<1>15. CASE DrainRetryable(p)
  <2>1. pc[p] \in {"write", "mark", "ack"}
    BY <1>15 DEF DrainRetryable
  <2>2. done' \subseteq Keys /\ processing' \in Seq(Deliveries) /\ faults' \in Nat
    BY <1>1, <1>2, <1>15, <2>1 DEF DrainRetryable
  <2> QED
    BY <1>1, <1>15, <2>1, <2>2 DEF DrainRetryable
<1>16. CASE DrainAbort(p)
  <2>1. queue' \in Seq(Deliveries) /\ processing' \in Seq(Deliveries)
    BY <1>2, <1>16, MoveTailTypes DEF DrainAbort
  <2> QED
    BY <1>3, <1>16, <2>1 DEF DrainAbort
<1>17. CASE DrainRelease(p)
  BY <1>17 DEF DrainRelease
<1> QED
  BY <1>4, <1>5, <1>6, <1>7, <1>8, <1>9, <1>10, <1>11, <1>12, <1>13, <1>14,
     <1>15, <1>16, <1>17 DEF DrainStep

LEMMA TimeTypes ==
  ASSUME TypeOK, Busy, TimeStep
  PROVE  TypeOK' /\ Busy'
<1> USE RelayAssumption DEF TypeOK, Busy, storeVars, history
<1>1. CASE LockExpire
  BY <1>1 DEF LockExpire
<1>2. ASSUME NEW d \in Deliveries, EnvelopeExpire(d) PROVE TypeOK' /\ Busy'
  BY <1>2 DEF EnvelopeExpire
<1>3. ASSUME NEW k \in Keys, SeenExpire(k) PROVE TypeOK' /\ Busy'
  BY <1>3 DEF SeenExpire
<1>4. CASE QueueExpire
  BY <1>4, EmptySeq, ElementsOfSeq DEF QueueExpire
<1> QED
  BY <1>1, <1>2, <1>3, <1>4 DEF TimeStep

LEMMA CrashTypes ==
  ASSUME TypeOK, Busy, NEW p \in Drainers, DrainCrash(p)
  PROVE  TypeOK' /\ Busy'
BY EmptySeq DEF TypeOK, Busy, DrainCrash, storeVars, history, Goto, SetBatch

LEMMA BusyInBot ==
  ASSUME Busy, NEW d \in Deliveries, BotStep(d)
  PROVE  Busy'
BY DEF Busy, BotStep, BotOnly, BotMark, BotDuplicate, BotMarkFault, BotAppend,
       BotAppendFault, BotUndo, BotUndoFault, BotCrash

(* Every reachable state of the relay is well typed, and a drainer past    *)
(* the choice of a payload holds one.                                      *)
THEOREM TypeCorrect == Spec => [](TypeOK /\ Busy)
<1>1. Init => TypeOK /\ Busy
  BY EmptySeq, RelayAssumption DEF Init, TypeOK, Busy
<1>2. TypeOK /\ Busy /\ [Next]_vars => TypeOK' /\ Busy'
  <2> SUFFICES ASSUME TypeOK, Busy, [Next]_vars
               PROVE  TypeOK' /\ Busy'
    OBVIOUS
  <2>1. ASSUME NEW d \in Deliveries, BotStep(d) PROVE TypeOK' /\ Busy'
    BY <2>1, BotTypes, BusyInBot
  <2>2. ASSUME NEW p \in Drainers, DrainStep(p) PROVE TypeOK' /\ Busy'
    BY <2>2, DrainTypes
  <2>3. ASSUME NEW p \in Drainers, DrainCrash(p) PROVE TypeOK' /\ Busy'
    BY <2>3, CrashTypes
  <2>4. CASE TimeStep
    BY <2>4, TimeTypes
  <2>5. CASE UNCHANGED vars
    BY <2>5 DEF vars, TypeOK, Busy
  <2> QED
    BY <2>1, <2>2, <2>3, <2>4, <2>5 DEF Next
<1> QED
  BY <1>1, <1>2, PTL DEF Spec

-----------------------------------------------------------------------------
(* No accepted command vanishes.  The inductive invariant adds what a      *)
(* drainer has done for the payload it is about to acknowledge.            *)

SettledOrTrimmed(d) == Settled(d) \/ d \in trimmed

AckInv == \A p \in Drainers :
  pc[p] \in {"mark", "ack", "ackdead"} => SettledOrTrimmed(Current(p))

AccountInv == AcceptedAccounted /\ AckInv

(* Settling is for good: the inbox only grows, and what leaves the         *)
(* dead-letter list is counted as trimmed.                                 *)
LEMMA SettledStays ==
  ASSUME Elements(ledger) \subseteq Elements(ledger'),
         Elements(dead) \subseteq Elements(dead') \cup trimmed',
         trimmed \subseteq trimmed',
         NEW d, SettledOrTrimmed(d)
  PROVE  SettledOrTrimmed(d)'
<1>1. Found(d) => Found(d)'
  BY DEF Found
<1> QED
  BY <1>1 DEF SettledOrTrimmed, Settled

LEMMA AccountInBot ==
  ASSUME TypeOK, AccountInv, NEW d \in Deliveries, BotStep(d)
  PROVE  AccountInv'
<1> USE DEF BotOnly, history, storeVars
<1>1. /\ UNCHANGED <<ledger, dead, pc, batch, processing>>
      /\ trimmed \subseteq trimmed'
      /\ Elements(queue) \subseteq Elements(queue') \cup trimmed'
  BY DEF BotStep, BotMark, BotDuplicate, BotMarkFault, BotAppend, BotAppendFault,
         BotUndo, BotUndoFault, BotCrash, Push
<1>2. \A e : SettledOrTrimmed(e) => SettledOrTrimmed(e)'
  BY <1>1, SettledStays
<1>3. AckInv'
  BY <1>1, <1>2 DEF AccountInv, AckInv, Current
<1>4. ASSUME NEW e \in Deliveries, bot'[e] = "accepted"
      PROVE  \/ e \in Elements(queue') \cup Elements(processing')
             \/ SettledOrTrimmed(e)'
  <2>1. CASE bot[e] = "accepted"
    <3>1. e \in Elements(queue) \cup Elements(processing) \/ SettledOrTrimmed(e)
      BY <2>1 DEF AccountInv, AcceptedAccounted, SettledOrTrimmed
    <3>2. CASE e \in Elements(queue)
      BY <1>1, <3>2 DEF SettledOrTrimmed
    <3> QED
      BY <1>1, <1>2, <3>1, <3>2
  <2>2. CASE bot[e] # "accepted"
    <3>1. e = d /\ BotAppend(d)
      BY <1>4, <2>2 DEF TypeOK, BotStep, BotMark, BotDuplicate, BotMarkFault,
         BotAppend, BotAppendFault, BotUndo, BotUndoFault, BotCrash
    <3> QED
      BY <3>1 DEF BotAppend, Push, SettledOrTrimmed
  <2> QED
    BY <2>1, <2>2
<1> QED
  BY <1>3, <1>4 DEF AccountInv, AcceptedAccounted, SettledOrTrimmed

(* What a step of a drainer may do to the lists: it moves payloads from    *)
(* the queue to processing, and takes from processing only what it has     *)
(* settled.                                                                *)
LEMMA DrainMoves ==
  ASSUME TypeOK, Busy, AckInv, NEW p \in Drainers, DrainStep(p)
  PROVE  /\ Elements(ledger) \subseteq Elements(ledger')
         /\ Elements(dead) \subseteq Elements(dead') \cup trimmed'
         /\ trimmed \subseteq trimmed'
         /\ UNCHANGED bot
         /\ \A e \in Elements(queue) \cup Elements(processing) :
              \/ e \in Elements(queue') \cup Elements(processing')
              \/ SettledOrTrimmed(e)
<1> USE DEF DrainOnly, history, storeVars, Goto, SetBatch, Current
<1>1. CASE DrainClaim(p) \/ (DrainAbort(p) /\ MoveTail)
  BY <1>1, MoveTailTypes DEF DrainClaim, DrainAbort
<1>2. CASE DrainAck(p) \/ DrainRetryable(p) \/ (DrainAbort(p) /\ ~MoveTail)
  <2>1. /\ UNCHANGED <<queue, dead, ledger, trimmed, bot>>
        /\ \/ UNCHANGED processing
           \/ /\ pc[p] \in {"ack", "ackdead"}
              /\ processing' = Lrem(processing, Current(p))
    BY <1>2 DEF DrainAck, DrainRetryable, DrainAbort
  <2>2. CASE UNCHANGED processing
    BY <2>1, <2>2
  <2>3. CASE /\ pc[p] \in {"ack", "ackdead"}
             /\ processing' = Lrem(processing, Current(p))
    <3>1. SettledOrTrimmed(Current(p))
      BY <2>3 DEF AckInv
    <3>2. Elements(processing) \ {Current(p)} \subseteq Elements(processing')
      BY <2>3, LremProperties DEF TypeOK
    <3> QED
      BY <2>1, <3>1, <3>2
  <2> QED
    BY <2>1, <2>2, <2>3
<1>3. CASE DrainWrite(p)
  <2>1. Current(p) \in Deliveries
    BY <1>3, HeadTailProperties DEF TypeOK, Busy, DrainWrite
  <2>2. Elements(ledger) \subseteq Elements(ledger')
    BY <1>3, <2>1, AppendElements DEF TypeOK, DrainWrite
  <2> QED
    BY <1>3, <2>2 DEF DrainWrite
<1>4. CASE DrainBury(p)
  BY <1>4 DEF DrainBury
<1>5. CASE \/ DrainAcquire(p) \/ DrainRead(p) \/ DrainClaimed(p) \/ DrainRefuse(p)
           \/ DrainFound(p) \/ DrainFresh(p) \/ DrainMark(p) \/ DrainRelease(p)
  BY <1>5 DEF DrainAcquire, DrainRead, DrainClaimed, DrainRefuse, DrainFound,
              DrainFresh, DrainMark, DrainRelease
<1> QED
  BY <1>1, <1>2, <1>3, <1>4, <1>5 DEF DrainStep

(* A drainer that is about to acknowledge has settled its payload.         *)
LEMMA DrainSettles ==
  ASSUME TypeOK, Busy, AckInv, NEW p \in Drainers, DrainStep(p)
  PROVE  AckInv'
<1> USE RelayAssumption DEF DrainOnly, history, storeVars, Goto, SetBatch, Current
<1>1. \A e : SettledOrTrimmed(e) => SettledOrTrimmed(e)'
  BY DrainMoves, SettledStays
<1>2. ASSUME NEW q \in Drainers, q # p, pc'[q] \in {"mark", "ack", "ackdead"}
      PROVE  SettledOrTrimmed(Current(q))'
  <2>1. pc'[q] = pc[q] /\ batch'[q] = batch[q]
    BY <1>2 DEF TypeOK, DrainStep, DrainAcquire, DrainRead, DrainClaim, DrainClaimed,
       DrainRefuse, DrainFound, DrainFresh, DrainWrite, DrainMark, DrainBury,
       DrainAck, DrainRetryable, DrainAbort, DrainRelease
  <2>2. SettledOrTrimmed(Head(batch[q]))
    BY <1>2, <2>1 DEF AckInv
  <2> QED
    BY <1>1, <2>1, <2>2
<1>3. ASSUME pc'[p] \in {"mark", "ack", "ackdead"}
      PROVE  SettledOrTrimmed(Current(p))'
  <2>1. CASE DrainFound(p)
    <3>1. SettledOrTrimmed(Head(batch[p]))
      BY <2>1 DEF DrainFound, SettledOrTrimmed, Settled
    <3> QED
      BY <1>1, <2>1, <3>1 DEF DrainFound
  <2>2. CASE DrainWrite(p)
    <3>1. Head(batch[p]) \in Deliveries
      BY <2>2, HeadTailProperties DEF TypeOK, Busy, DrainWrite
    <3>2. Head(batch[p]) \in Elements(ledger')
      BY <2>2, <3>1, AppendElements DEF TypeOK, DrainWrite
    <3> QED
      BY <2>2, <3>2 DEF DrainWrite, SettledOrTrimmed, Settled
  <2>3. CASE DrainMark(p)
    <3>1. SettledOrTrimmed(Head(batch[p]))
      BY <2>3 DEF DrainMark, AckInv
    <3> QED
      BY <1>1, <2>3, <3>1 DEF DrainMark
  <2>4. CASE DrainBury(p)
    <3>1. Head(batch[p]) \in Deliveries
      BY <2>4, HeadTailProperties DEF TypeOK, Busy, DrainBury
    <3>2. Head(batch[p]) \in Elements(dead')
      BY <2>4, <3>1, AppendTrimKeeps DEF TypeOK, DrainBury
    <3> QED
      BY <2>4, <3>2 DEF DrainBury, SettledOrTrimmed, Settled
  <2>5. DrainFound(p) \/ DrainWrite(p) \/ DrainMark(p) \/ DrainBury(p)
    BY <1>3 DEF TypeOK, DrainStep, DrainAcquire, DrainRead, DrainClaim, DrainClaimed,
       DrainRefuse, DrainFresh, DrainAck, DrainRetryable, DrainAbort, DrainRelease
  <2> QED
    BY <2>1, <2>2, <2>3, <2>4, <2>5
<1> QED
  BY <1>2, <1>3 DEF AckInv

(* Whatever the drainers, crashes and errors of the store do, an accepted  *)
(* command is queued, claimed, settled or dropped by a list bound; SlowDrain *)
(* and every bound are arbitrary.                                          *)
THEOREM AcceptedNeverVanishes == Spec => []AcceptedAccounted
<1>1. Init => AccountInv
  BY DEF Init, AccountInv, AcceptedAccounted, AckInv
<1>2. TypeOK /\ Busy /\ AccountInv /\ [Next]_vars => AccountInv'
  <2> SUFFICES ASSUME TypeOK, Busy, AccountInv, [Next]_vars
               PROVE  AccountInv'
    OBVIOUS
  <2>1. ASSUME NEW d \in Deliveries, BotStep(d) PROVE AccountInv'
    BY <2>1, AccountInBot
  <2>2. ASSUME NEW p \in Drainers, DrainStep(p) PROVE AccountInv'
    <3>1. AckInv'
      BY <2>2, DrainSettles DEF AccountInv
    <3>2. AckInv
      BY DEF AccountInv
    <3>3. \A e : SettledOrTrimmed(e) => SettledOrTrimmed(e)'
      BY <2>2, <3>2, DrainMoves, SettledStays
    <3>4. AcceptedAccounted'
      BY <2>2, <3>2, <3>3, DrainMoves DEF AccountInv, AcceptedAccounted, SettledOrTrimmed
    <3> QED
      BY <3>1, <3>4 DEF AccountInv
  <2>3. ASSUME NEW p \in Drainers, DrainCrash(p) PROVE AccountInv'
    <3>1. /\ UNCHANGED <<queue, processing, ledger, dead, trimmed, bot>>
          /\ pc'[p] = "idle"
          /\ \A q \in Drainers : q # p => pc'[q] = pc[q] /\ batch'[q] = batch[q]
      BY <2>3 DEF DrainCrash, storeVars, history, Goto, SetBatch, TypeOK
    <3>2. \A e : SettledOrTrimmed(e) <=> SettledOrTrimmed(e)'
      BY <3>1 DEF SettledOrTrimmed, Settled, Found
    <3> QED
      BY <3>1, <3>2 DEF AccountInv, AcceptedAccounted, AckInv, SettledOrTrimmed, Current
  <2>4. CASE TimeStep
    <3>1. /\ UNCHANGED <<processing, ledger, dead, bot, pc, batch>>
          /\ trimmed \subseteq trimmed'
          /\ Elements(queue) \subseteq Elements(queue') \cup trimmed'
      BY <2>4 DEF TimeStep, LockExpire, EnvelopeExpire, SeenExpire, QueueExpire,
                  storeVars, history
    <3>2. \A e : SettledOrTrimmed(e) => SettledOrTrimmed(e)'
      BY <3>1, SettledStays
    <3> QED
      BY <3>1, <3>2 DEF AccountInv, AcceptedAccounted, AckInv, SettledOrTrimmed, Current
  <2>5. CASE UNCHANGED vars
    BY <2>5 DEF vars, AccountInv, AcceptedAccounted, AckInv, SettledOrTrimmed,
                Settled, Found, Current
  <2> QED
    BY <2>1, <2>2, <2>3, <2>4, <2>5 DEF Next
<1>3. AccountInv => AcceptedAccounted
  BY DEF AccountInv
<1> QED
  BY <1>1, <1>2, <1>3, TypeCorrect, PTL DEF Spec

-----------------------------------------------------------------------------
(* One drain at a time, and so one inbox instruction per Telegram update.  *)
(* The drainer that is about to write has looked for the update and not    *)
(* found it; exclusion keeps that answer fresh until the write.            *)

HolderInv == \A p \in Drainers : pc[p] # "idle" => drainLock = p

LookedUp == \A p \in Drainers : pc[p] = "write" => ~Found(Current(p))

LockInv == HolderInv /\ LookedUp /\ LedgerOncePerUpdate

LEMMA HolderInDrain ==
  ASSUME TypeOK, HolderInv, NEW p \in Drainers, DrainStep(p) \/ DrainCrash(p)
  PROVE  /\ HolderInv'
         /\ \A q \in Drainers : q # p => pc'[q] = pc[q] /\ batch'[q] = batch[q]
         /\ pc'[p] # "idle" => drainLock' = p
<1> USE DEF Goto, SetBatch, storeVars
<1>1. \A q \in Drainers : q # p => pc'[q] = pc[q] /\ batch'[q] = batch[q]
  BY DEF TypeOK, DrainStep, DrainAcquire, DrainRead, DrainClaim, DrainClaimed,
     DrainRefuse, DrainFound, DrainFresh, DrainWrite, DrainMark, DrainBury,
     DrainAck, DrainRetryable, DrainAbort, DrainRelease, DrainCrash
<1>2. CASE DrainAcquire(p)
  BY <1>1, <1>2, RelayAssumption DEF HolderInv, DrainAcquire, TypeOK
<1>3. CASE DrainRelease(p)
  BY <1>1, <1>3, RelayAssumption DEF HolderInv, DrainRelease, TypeOK
<1>4. CASE DrainCrash(p)
  BY <1>1, <1>4 DEF HolderInv, DrainCrash, TypeOK
<1>5. CASE ~DrainAcquire(p) /\ ~DrainRelease(p) /\ ~DrainCrash(p)
  <2>1. pc[p] # "idle" /\ drainLock' = drainLock
    BY <1>5 DEF TypeOK, DrainStep, DrainRead, DrainClaim, DrainClaimed,
       DrainRefuse, DrainFound, DrainFresh, DrainWrite, DrainMark, DrainBury,
       DrainAck, DrainRetryable, DrainAbort
  <2> QED
    BY <1>1, <2>1 DEF HolderInv
<1> QED
  BY <1>1, <1>2, <1>3, <1>4, <1>5

LEMMA LockInDrain ==
  ASSUME TypeOK, Busy, LockInv, NEW p \in Drainers, DrainStep(p) \/ DrainCrash(p)
  PROVE  LockInv'
<1> USE RelayAssumption DEF Goto, SetBatch, storeVars, DrainOnly, Current
<1>1. HolderInv /\ LookedUp /\ LedgerOncePerUpdate
  BY DEF LockInv
<1>2. HolderInv'
  BY <1>1, HolderInDrain
<1>3. CASE DrainWrite(p)
  <2> DEFINE d == Head(batch[p])
  <2>1. d \in Deliveries /\ ~Found(d) /\ ledger' = Append(ledger, d)
    BY <1>1, <1>3, HeadTailProperties DEF TypeOK, Busy, LookedUp, DrainWrite
  <2> HIDE DEF d
  <2>2. /\ Len(ledger) \in Nat /\ Len(ledger') = Len(ledger) + 1
        /\ \A i \in 1 .. Len(ledger) : ledger'[i] = ledger[i]
        /\ ledger'[Len(ledger) + 1] = d
    BY <2>1, AppendProperties, LenProperties DEF TypeOK
  <2>3. KeyOf[d] \in UpdateKeys =>
          \A i \in 1 .. Len(ledger) : KeyOf[ledger[i]] # KeyOf[d]
    BY <2>1 DEF Found, Elements
  <2>4. \A i \in 1 .. Len(ledger') : i \in 1 .. Len(ledger) \/ i = Len(ledger) + 1
    BY <2>2
  <2>5. LedgerOncePerUpdate'
    <3> SUFFICES ASSUME NEW i \in 1 .. Len(ledger'), NEW j \in 1 .. Len(ledger'),
                        KeyOf[ledger'[i]] = KeyOf[ledger'[j]],
                        KeyOf[ledger'[i]] \in UpdateKeys
                 PROVE  i = j
      BY DEF LedgerOncePerUpdate
    <3>1. CASE i \in 1 .. Len(ledger) /\ j \in 1 .. Len(ledger)
      BY <1>1, <2>2, <3>1 DEF LedgerOncePerUpdate
    <3>2. CASE i = Len(ledger) + 1 \/ j = Len(ledger) + 1
      BY <2>2, <2>3, <2>4, <3>2
    <3> QED
      BY <2>4, <3>1, <3>2
  <2>6. \A q \in Drainers : pc'[q] # "write"
    BY <1>1, <1>3, <1>2, HolderInDrain DEF HolderInv, DrainWrite, TypeOK
  <2> QED
    BY <1>2, <2>5, <2>6 DEF LockInv, LookedUp
<1>4. CASE ~DrainWrite(p)
  <2>1. UNCHANGED ledger
    BY <1>4 DEF DrainStep, DrainAcquire, DrainRead, DrainClaim, DrainClaimed,
       DrainRefuse, DrainFound, DrainFresh, DrainMark, DrainBury,
       DrainAck, DrainRetryable, DrainAbort, DrainRelease, DrainCrash
  <2>2. LedgerOncePerUpdate'
    BY <1>1, <2>1 DEF LedgerOncePerUpdate
  <2>3. \A e : Found(e)' <=> Found(e)
    BY <2>1 DEF Found
  <2>4. pc'[p] = "write" => ~Found(Head(batch[p]))'
    <3>1. pc'[p] = "write" => DrainFresh(p)
      BY <1>4 DEF TypeOK, DrainStep, DrainAcquire, DrainRead, DrainClaim,
         DrainClaimed, DrainRefuse, DrainFound, DrainFresh, DrainMark, DrainBury,
         DrainAck, DrainRetryable, DrainAbort, DrainRelease, DrainCrash
    <3>2. DrainFresh(p) => ~Found(Head(batch[p])) /\ batch' = batch
      BY DEF DrainFresh
    <3> QED
      BY <2>3, <3>1, <3>2
  <2>5. LookedUp'
    <3> SUFFICES ASSUME NEW q \in Drainers, pc'[q] = "write"
                 PROVE  ~Found(Head(batch[q]))'
      BY DEF LookedUp
    <3>1. CASE q = p
      BY <2>4, <3>1
    <3>2. CASE q # p
      <4>1. pc[q] = "write" /\ batch'[q] = batch[q]
        BY <1>1, <3>2, HolderInDrain
      <4>2. ~Found(Head(batch[q]))
        BY <1>1, <4>1 DEF LookedUp
      <4> QED
        BY <2>3, <4>1, <4>2
    <3> QED
      BY <3>1, <3>2
  <2> QED
    BY <1>2, <2>2, <2>5 DEF LockInv
<1> QED
  BY <1>3, <1>4

LEMMA LockInRest ==
  ASSUME ~SlowDrain, TypeOK, LockInv,
         (\E d \in Deliveries : BotStep(d)) \/ TimeStep \/ UNCHANGED vars
  PROVE  LockInv'
<1>1. /\ UNCHANGED <<pc, batch, ledger>>
      /\ \/ UNCHANGED drainLock
         \/ drainLock \in Drainers /\ pc[drainLock] = "idle"
  BY DEF BotStep, BotMark, BotDuplicate, BotMarkFault, BotAppend, BotAppendFault,
     BotUndo, BotUndoFault, BotCrash, BotOnly, TimeStep, LockExpire, EnvelopeExpire,
     SeenExpire, QueueExpire, storeVars, history, vars, TypeOK
<1>2. HolderInv'
  BY <1>1 DEF HolderInv, LockInv
<1> QED
  BY <1>1, <1>2 DEF LockInv, LookedUp, LedgerOncePerUpdate, Found, Current

LEMMA LockInvariant ==
  ASSUME ~SlowDrain
  PROVE  Spec => []LockInv
<1>1. Init => LockInv
  BY DEF Init, LockInv, HolderInv, LookedUp, LedgerOncePerUpdate
<1>2. TypeOK /\ Busy /\ LockInv /\ [Next]_vars => LockInv'
  BY LockInDrain, LockInRest DEF Next
<1> QED
  BY <1>1, <1>2, TypeCorrect, PTL DEF Spec

(* A drain that is over before its lock expires is alone, whatever crashes *)
(* and store errors happen.                                                *)
THEOREM OneDrainAtATime == Spec => []DrainExclusive
<1>1. ~SlowDrain /\ LockInv => DrainExclusive
  BY DEF LockInv, HolderInv, DrainExclusive
<1>2. SlowDrain => DrainExclusive
  BY DEF DrainExclusive
<1>3. CASE SlowDrain
  <2>1. [Next]_vars /\ DrainExclusive => DrainExclusive'
    BY <1>3 DEF DrainExclusive
  <2> QED
    BY <1>2, <1>3, <2>1, PTL DEF Spec
<1>4. CASE ~SlowDrain
  <2>1. LockInv => DrainExclusive
    BY <1>1, <1>4
  <2>2. Spec => []LockInv
    BY <1>4, LockInvariant
  <2> QED
    BY <2>1, <2>2, PTL
<1> QED
  BY <1>3, <1>4

(* Then one Telegram update is written to the inbox at most once, for any  *)
(* number of redeliveries, crashes, errors and drainers.                   *)
THEOREM UpdateRecordedOnce ==
  ASSUME ~SlowDrain
  PROVE  Spec => []LedgerOncePerUpdate
<1>1. LockInv => LedgerOncePerUpdate
  BY DEF LockInv
<1>2. Spec => []LockInv
  BY LockInvariant
<1> QED
  BY <1>1, <1>2, PTL

-----------------------------------------------------------------------------
(* The order of instructions.  A payload was pushed before another one:    *)
(* all is the history of pushes.  Every list of the relay is in that       *)
(* order, the store's own ones the other way round.                        *)

Before(all, x, y) ==
  \E m, n \in 1 .. Len(all) : m < n /\ all[m] = x /\ all[n] = y

Rising(all, free, s) ==
  \A i, j \in 1 .. Len(s) :
    i < j /\ s[i] \notin free /\ s[j] \notin free => Before(all, s[i], s[j])

Falling(all, s) == \A i, j \in 1 .. Len(s) : i < j => Before(all, s[j], s[i])

(* What a drainer still has to write.                                      *)
Ahead(p) ==
  IF pc[p] \in {"mark", "ack"} THEN Elements(Tail(batch[p])) ELSE Elements(batch[p])

(* A delivery is pushed once, and a drainer that has not read the list of  *)
(* claimed payloads has none in hand.                                      *)
PushedOnce ==
  /\ \A m, n \in 1 .. Len(sent) : sent[m] = sent[n] => m = n
  /\ \A d \in Elements(sent) : bot[d] \notin {"new", "marked"}

Resting == \A p \in Drainers : pc[p] \in {"idle", "read"} => batch[p] = <<>>

OfSent ==
  /\ Elements(queue) \cup Elements(processing) \cup Elements(ledger) \subseteq Elements(sent)
  /\ \A p \in Drainers : Elements(batch[p]) \subseteq Elements(sent)

InLists ==
  /\ Falling(sent, queue)
  /\ Falling(sent, processing)
  /\ Rising(sent, {}, ledger)
  /\ \A p \in Drainers : Rising(sent, Poison, batch[p])

BetweenLists ==
  /\ \A y \in Elements(queue) :
       /\ \A x \in Elements(ledger) \cup Elements(processing) : Before(sent, x, y)
       /\ \A p \in Drainers : \A x \in Elements(batch[p]) : Before(sent, x, y)
  /\ \A p \in Drainers : \A y \in Ahead(p) \ Poison :
       \A x \in Elements(ledger) : Before(sent, x, y)

(* What was claimed and can be written is in the hands of a drainer.       *)
InHand == \A x \in Elements(processing) \ Poison : \E p \in Drainers : x \in Elements(batch[p])

Orderly == OfSent /\ InLists /\ BetweenLists /\ InHand
OrderInv == PushedOnce /\ Resting /\ (crashes = 0 /\ faults = 0 => Orderly)

LEMMA BeforeGrows ==
  ASSUME NEW S, NEW all \in Seq(S), NEW e \in S, NEW x, NEW y, Before(all, x, y)
  PROVE  Before(Append(all, e), x, y)
<1>1. PICK m, n \in 1 .. Len(all) : m < n /\ all[m] = x /\ all[n] = y
  BY DEF Before
<1>2. /\ Len(all) \in Nat /\ Len(Append(all, e)) = Len(all) + 1
      /\ \A i \in 1 .. Len(all) : Append(all, e)[i] = all[i]
  BY AppendProperties, LenProperties
<1>3. m \in 1 .. Len(all) + 1 /\ n \in 1 .. Len(all) + 1
  BY <1>2
<1> QED
  BY <1>1, <1>2, <1>3 DEF Before

LEMMA BeforeLast ==
  ASSUME NEW S, NEW all \in Seq(S), NEW e \in S, NEW x \in Elements(all)
  PROVE  Before(Append(all, e), x, e)
<1>1. PICK m \in 1 .. Len(all) : all[m] = x
  BY DEF Elements
<1>2. /\ Len(all) \in Nat /\ Len(Append(all, e)) = Len(all) + 1
      /\ \A i \in 1 .. Len(all) : Append(all, e)[i] = all[i]
      /\ Append(all, e)[Len(all) + 1] = e
  BY AppendProperties, LenProperties
<1>3. m \in 1 .. Len(all) + 1 /\ Len(all) + 1 \in 1 .. Len(all) + 1 /\ m < Len(all) + 1
  BY <1>2
<1> QED
  BY <1>1, <1>2, <1>3 DEF Before

LEMMA AppendedElements ==
  ASSUME NEW S, NEW s \in Seq(S), NEW e \in S
  PROVE  Elements(Append(s, e)) = Elements(s) \cup {e}
<1>1. /\ Len(s) \in Nat /\ Len(Append(s, e)) = Len(s) + 1
      /\ \A i \in 1 .. Len(s) : Append(s, e)[i] = s[i]
      /\ Append(s, e)[Len(s) + 1] = e
  BY AppendProperties, LenProperties
<1>2. \A i \in 1 .. Len(s) + 1 : i \in 1 .. Len(s) \/ i = Len(s) + 1
  BY <1>1
<1>3. Elements(Append(s, e)) \subseteq Elements(s) \cup {e}
  BY <1>1, <1>2 DEF Elements
<1> QED
  BY <1>3, AppendElements

(* What the store's operations do to a list in falling order: LPUSH of a   *)
(* newer payload, LTRIM, taking the tail, LREM.                            *)
LEMMA FallingCons ==
  ASSUME NEW all, NEW S, NEW s \in Seq(S), NEW e \in S, Falling(all, s),
         \A x \in Elements(s) : Before(all, x, e)
  PROVE  Falling(all, <<e>> \o s)
<1> DEFINE t == <<e>> \o s
<1>1. Len(s) \in Nat /\ <<e>> \in Seq(S) /\ Len(<<e>>) = 1 /\ <<e>>[1] = e
  BY LenProperties
<1>2. /\ Len(t) = 1 + Len(s)
      /\ \A i \in 1 .. 1 + Len(s) : t[i] = IF i <= 1 THEN <<e>>[i] ELSE s[i - 1]
  BY <1>1, ConcatProperties
<1> HIDE DEF t
<1> SUFFICES ASSUME NEW i \in 1 .. Len(t), NEW j \in 1 .. Len(t), i < j
             PROVE  Before(all, t[j], t[i])
  BY DEF Falling, t
<1>3. j - 1 \in 1 .. Len(s) /\ t[j] = s[j - 1]
  BY <1>1, <1>2
<1>4. CASE i = 1
  <2>1. s[j - 1] \in Elements(s) /\ t[i] = e
    BY <1>1, <1>2, <1>3, <1>4 DEF Elements
  <2> QED
    BY <1>3, <2>1
<1>5. CASE i # 1
  <2>1. i - 1 \in 1 .. Len(s) /\ t[i] = s[i - 1] /\ i - 1 < j - 1
    BY <1>1, <1>2, <1>5
  <2> QED
    BY <1>3, <2>1 DEF Falling
<1> QED
  BY <1>4, <1>5

LEMMA FallingPrefix ==
  ASSUME NEW all, NEW S, NEW s \in Seq(S), NEW n \in 0 .. Len(s)
  PROVE  /\ SubSeq(s, 1, n) \in Seq(S)
         /\ Elements(SubSeq(s, 1, n)) \subseteq Elements(s)
         /\ Falling(all, s) => Falling(all, SubSeq(s, 1, n))
         /\ \A x \in Elements(SubSeq(s, 1, n)) : \E i \in 1 .. n : s[i] = x
<1> DEFINE t == SubSeq(s, 1, n)
<1>1. Len(s) \in Nat /\ n \in Int /\ 1 \in Int /\ \A i \in 1 .. n : s[i] \in S
  BY LenProperties, ElementOfSeq
<1>2. /\ t \in Seq(S)
      /\ Len(t) = IF 1 <= n THEN n - 1 + 1 ELSE 0
      /\ \A i \in 1 .. n - 1 + 1 : t[i] = s[1 + i - 1]
  BY <1>1, SubSeqProperties
<1> HIDE DEF t
<1>3. Len(t) = n /\ \A i \in 1 .. n : t[i] = s[i] /\ i \in 1 .. Len(s)
  BY <1>1, <1>2
<1>4. Elements(t) \subseteq Elements(s) /\ \A x \in Elements(t) : \E i \in 1 .. n : s[i] = x
  BY <1>3 DEF Elements
<1>5. Falling(all, s) => Falling(all, t)
  BY <1>3 DEF Falling
<1> QED
  BY <1>2, <1>4, <1>5 DEF t

LEMMA FallingTake ==
  ASSUME NEW all, NEW S, NEW s \in Seq(S), NEW n \in Nat
  PROVE  /\ Elements(Take(s, n)) \subseteq Elements(s)
         /\ Falling(all, s) => Falling(all, Take(s, n))
<1>1. (IF Len(s) < n THEN Len(s) ELSE n) \in 0 .. Len(s)
  BY LenProperties
<1> QED
  BY <1>1, FallingPrefix DEF Take

LEMMA FallingFront ==
  ASSUME NEW all, NEW S, NEW s \in Seq(S), s # <<>>, Falling(all, s)
  PROVE  /\ Elements(SubSeq(s, 1, Len(s) - 1)) \subseteq Elements(s)
         /\ Falling(all, SubSeq(s, 1, Len(s) - 1))
         /\ s[Len(s)] \in Elements(s)
         /\ \A x \in Elements(SubSeq(s, 1, Len(s) - 1)) : Before(all, s[Len(s)], x)
<1>1. Len(s) \in Nat \ {0}
  BY EmptySeq
<1>2. Len(s) - 1 \in 0 .. Len(s)
  BY <1>1
<1>3. \A i \in 1 .. Len(s) - 1 : i \in 1 .. Len(s) /\ Len(s) \in 1 .. Len(s) /\ i < Len(s)
  BY <1>1
<1>4. \A x \in Elements(SubSeq(s, 1, Len(s) - 1)) : \E i \in 1 .. Len(s) - 1 : s[i] = x
  BY <1>2, FallingPrefix
<1>5. \A x \in Elements(SubSeq(s, 1, Len(s) - 1)) : Before(all, s[Len(s)], x)
  BY <1>3, <1>4 DEF Falling
<1>6. s[Len(s)] \in Elements(s)
  BY <1>1 DEF Elements
<1> QED
  BY <1>2, <1>5, <1>6, FallingPrefix

LEMMA FallingLrem ==
  ASSUME NEW all, NEW S, NEW s \in Seq(S), NEW e, Falling(all, s)
  PROVE  /\ Elements(Lrem(s, e)) \subseteq Elements(s)
         /\ Falling(all, Lrem(s, e))
         /\ ~Before(all, e, e) => e \notin Elements(Lrem(s, e))
<1>1. CASE e \notin Elements(s)
  BY <1>1 DEF Lrem
<1>2. CASE e \in Elements(s)
  <2> DEFINE t == Lrem(s, e)
  <2>1. t \in Seq(S) /\ Len(t) = Len(s) - 1 /\ Len(s) \in Nat
    BY <1>2, LremAt, LenProperties
  <2>2. PICK i \in 1 .. Len(s) :
          /\ s[i] = e
          /\ \A j \in 1 .. Len(s) - 1 : t[j] = IF j < i THEN s[j] ELSE s[j + 1]
    BY <1>2, LremAt
  <2> HIDE DEF t
  <2> DEFINE at(j) == IF j < i THEN j ELSE j + 1
  <2>3. \A j \in 1 .. Len(t) : at(j) \in 1 .. Len(s) /\ at(j) # i /\ t[j] = s[at(j)]
    BY <2>1, <2>2
  <2>4. \A j, k \in 1 .. Len(t) : j < k => at(j) < at(k)
    BY <2>1, <2>2
  <2> HIDE DEF at
  <2>5. Falling(all, t)
    BY <2>3, <2>4 DEF Falling
  <2>6. Elements(t) \subseteq Elements(s)
    BY <2>3 DEF Elements
  <2>7. ASSUME e \in Elements(t) PROVE Before(all, e, e)
    <3>1. PICK j \in 1 .. Len(t) : t[j] = e
      BY <2>7 DEF Elements
    <3>2. at(j) \in 1 .. Len(s) /\ s[at(j)] = e /\ at(j) # i /\ i \in 1 .. Len(s)
      BY <2>2, <2>3, <3>1
    <3>3. at(j) < i \/ i < at(j)
      BY <2>1, <3>2
    <3> QED
      BY <2>2, <3>2, <3>3 DEF Falling
  <2> QED
    BY <2>5, <2>6, <2>7 DEF t
<1> QED
  BY <1>1, <1>2

(* And to a list in rising order: the write of the next instruction, the   *)
(* claim of the next payload, the end of the one in hand.                  *)
LEMMA RisingAppend ==
  ASSUME NEW all, NEW free, NEW S, NEW s \in Seq(S), NEW e \in S, Rising(all, free, s),
         \A x \in Elements(s) : Before(all, x, e)
  PROVE  Rising(all, free, Append(s, e))
<1>1. /\ Len(s) \in Nat /\ Len(Append(s, e)) = Len(s) + 1
      /\ \A i \in 1 .. Len(s) : Append(s, e)[i] = s[i]
      /\ Append(s, e)[Len(s) + 1] = e
  BY AppendProperties, LenProperties
<1> DEFINE t == Append(s, e)
<1> HIDE DEF t
<1> SUFFICES ASSUME NEW i \in 1 .. Len(t), NEW j \in 1 .. Len(t), i < j,
                    t[i] \notin free, t[j] \notin free
             PROVE  Before(all, t[i], t[j])
  BY DEF Rising, t
<1>2. i \in 1 .. Len(s) /\ t[i] = s[i]
  BY <1>1 DEF t
<1>3. CASE j = Len(s) + 1
  BY <1>1, <1>2, <1>3 DEF Elements, t
<1>4. CASE j # Len(s) + 1
  <2>1. j \in 1 .. Len(s)
    BY <1>1, <1>4 DEF t
  <2> QED
    BY <1>1, <1>2, <2>1 DEF Rising, t
<1> QED
  BY <1>3, <1>4

LEMMA RisingTail ==
  ASSUME NEW all, NEW free, NEW S, NEW s \in Seq(S), s # <<>>, Rising(all, free, s)
  PROVE  /\ Tail(s) \in Seq(S) /\ Head(s) \in Elements(s)
         /\ Elements(Tail(s)) \subseteq Elements(s)
         /\ Elements(s) \subseteq Elements(Tail(s)) \cup {Head(s)}
         /\ Rising(all, free, Tail(s))
         /\ \A y \in Elements(Tail(s)) \ free : Head(s) \notin free => Before(all, Head(s), y)
<1> DEFINE t == Tail(s)
<1>1. /\ Len(s) \in Nat \ {0} /\ Head(s) = s[1] /\ t \in Seq(S) /\ Len(t) = Len(s) - 1
      /\ \A i \in 1 .. Len(t) : t[i] = s[i + 1]
  BY EmptySeq, HeadTailProperties
<1> HIDE DEF t
<1>2. 1 \in 1 .. Len(s) /\ \A i \in 1 .. Len(t) : i + 1 \in 1 .. Len(s) /\ 1 < i + 1
  BY <1>1
<1>3. \A i \in 1 .. Len(s) : i = 1 \/ (i - 1 \in 1 .. Len(t) /\ (i - 1) + 1 = i)
  BY <1>1
<1>4. Elements(t) \subseteq Elements(s) /\ Head(s) \in Elements(s)
  BY <1>1, <1>2 DEF Elements
<1>5. Elements(s) \subseteq Elements(t) \cup {Head(s)}
  <2> SUFFICES ASSUME NEW i \in 1 .. Len(s) PROVE s[i] \in Elements(t) \cup {Head(s)}
    BY DEF Elements
  <2>1. CASE i = 1
    BY <1>1, <2>1
  <2>2. CASE i # 1
    <3>1. i - 1 \in 1 .. Len(t) /\ t[i - 1] = s[i]
      BY <1>1, <1>3, <2>2
    <3> QED
      BY <3>1 DEF Elements
  <2> QED
    BY <2>1, <2>2
<1>6. Rising(all, free, t)
  <2> SUFFICES ASSUME NEW i \in 1 .. Len(t), NEW j \in 1 .. Len(t), i < j,
                      t[i] \notin free, t[j] \notin free
               PROVE  Before(all, t[i], t[j])
    BY DEF Rising
  <2>1. i + 1 \in 1 .. Len(s) /\ j + 1 \in 1 .. Len(s) /\ i + 1 < j + 1
    BY <1>1, <1>2
  <2> QED
    BY <1>1, <2>1 DEF Rising
<1>7. \A y \in Elements(t) \ free : Head(s) \notin free => Before(all, Head(s), y)
  BY <1>1, <1>2 DEF Elements, Rising
<1> QED
  BY <1>1, <1>4, <1>5, <1>6, <1>7 DEF t

(* A step that moves no payload and leaves no drainer more to write.       *)
LEMMA QuietKeepsOrder ==
  ASSUME Orderly, UNCHANGED <<queue, processing, batch, ledger, sent>>,
         \A p \in Drainers : Ahead(p)' \subseteq Ahead(p)
  PROVE  Orderly'
BY DEF Orderly, OfSent, InLists, BetweenLists, InHand

LEMMA PushKeepsOrder ==
  ASSUME TypeOK, Orderly, NEW d \in Deliveries, Push(d), UNCHANGED <<processing, pc, batch, ledger>>
  PROVE  Orderly'
<1>1. sent' = Append(sent, d) /\ queue' = Take(<<d>> \o queue, MaxQueue)
  BY DEF Push, AppendTrim
<1>2. /\ queue \in Seq(Deliveries) /\ sent \in Seq(Deliveries) /\ MaxQueue \in Nat
      /\ <<d>> \o queue \in Seq(Deliveries)
      /\ Elements(<<d>> \o queue) = {d} \cup Elements(queue)
  BY ConsElements, RelayAssumption DEF TypeOK
<1>3. \A x, y : Before(sent, x, y) => Before(sent', x, y)
  BY <1>1, <1>2, BeforeGrows
<1>4. \A x \in Elements(sent) : Before(sent', x, d)
  BY <1>1, <1>2, BeforeLast
<1>5. Elements(sent') = Elements(sent) \cup {d}
  BY <1>1, <1>2, AppendedElements
<1>6. Elements(queue) \subseteq Elements(sent) /\ Falling(sent, queue)
  BY DEF Orderly, OfSent, InLists
<1>7. Falling(sent', queue)
  BY <1>3, <1>6 DEF Falling
<1>8. Falling(sent', <<d>> \o queue)
  BY <1>2, <1>4, <1>6, <1>7, FallingCons
<1>9. Elements(queue') \subseteq {d} \cup Elements(queue) /\ Falling(sent', queue')
  BY <1>1, <1>2, <1>8, FallingTake
<1>10. OfSent'
  BY <1>5, <1>9 DEF Orderly, OfSent
<1>11. InLists'
  BY <1>3, <1>9 DEF Orderly, InLists, Falling, Rising
<1>12. \A p \in Drainers : Ahead(p)' = Ahead(p)
  BY DEF Ahead
<1>13. BetweenLists'
  BY <1>3, <1>4, <1>9, <1>12 DEF Orderly, OfSent, BetweenLists
<1>14. InHand'
  BY DEF Orderly, InHand
<1> QED
  BY <1>10, <1>11, <1>13, <1>14 DEF Orderly

LEMMA QueueExpireKeepsOrder ==
  ASSUME Orderly, QueueExpire
  PROVE  Orderly'
<1>1. Elements(queue') = {} /\ Falling(sent', queue')
  BY DEF QueueExpire, Elements, Falling
<1>2. UNCHANGED <<processing, pc, batch, ledger, sent>>
  BY DEF QueueExpire
<1>3. \A p \in Drainers : Ahead(p)' = Ahead(p)
  BY <1>2 DEF Ahead
<1> QED
  BY <1>1, <1>2, <1>3 DEF Orderly, OfSent, InLists, BetweenLists, InHand

-----------------------------------------------------------------------------
(* The steps of a drainer that is alone.                                   *)

Alone(p) == \A q \in Drainers : q # p => pc[q] = "idle" /\ batch[q] = <<>>

LEMMA ReadKeepsOrder ==
  ASSUME TypeOK, Resting, Orderly, NEW p \in Drainers, Alone(p), DrainRead(p)
  PROVE  Orderly'
<1>1. /\ pc[p] = "read" /\ batch' = [batch EXCEPT ![p] = Take(processing, Limit)]
      /\ UNCHANGED <<queue, processing, ledger, sent>>
  BY DEF DrainRead, SetBatch, history
<1>2. processing \in Seq(Deliveries) /\ Limit \in Nat /\ batch'[p] = Take(processing, Limit)
  BY <1>1, RelayAssumption DEF TypeOK
<1>3. \A q \in Drainers : batch[q] = <<>>
  BY <1>1 DEF Resting, Alone
<1>4. Elements(<<>>) = {}
  BY DEF Elements
<1>5. Elements(processing) \subseteq Poison
  BY <1>3, <1>4 DEF Orderly, InHand
<1>6. Elements(batch'[p]) \subseteq Elements(processing)
  BY <1>2, FallingTake
<1>7. \A q \in Drainers : q # p => batch'[q] = <<>>
  BY <1>1, <1>3 DEF TypeOK
<1>8. \A q \in Drainers : Elements(batch'[q]) \subseteq Elements(processing)
  BY <1>4, <1>6, <1>7
<1>9. \A q \in Drainers : Rising(sent', Poison, batch'[q])
  BY <1>5, <1>8 DEF Rising, Elements
<1>10. \A q \in Drainers : Ahead(q)' \subseteq Poison
  <2>1. pc'[p] = "claim"
    BY DEF DrainRead, Goto, TypeOK
  <2>2. \A q \in Drainers : q # p => pc'[q] = "idle"
    BY DEF Alone, DrainRead, Goto, TypeOK
  <2> QED
    BY <1>5, <1>8, <2>1, <2>2 DEF Ahead
<1>11. OfSent'
  BY <1>1, <1>8 DEF Orderly, OfSent
<1>12. InLists'
  BY <1>1, <1>9 DEF Orderly, InLists
<1>13. BetweenLists'
  BY <1>1, <1>8, <1>10 DEF Orderly, BetweenLists
<1>14. InHand'
  BY <1>1, <1>5 DEF InHand
<1> QED
  BY <1>11, <1>12, <1>13, <1>14 DEF Orderly

LEMMA ClaimKeepsOrder ==
  ASSUME TypeOK, Orderly, NEW p \in Drainers, Alone(p), DrainClaim(p)
  PROVE  Orderly'
<1> DEFINE e == queue[Len(queue)]
           front == SubSeq(queue, 1, Len(queue) - 1)
<1>1. /\ pc[p] = "claim" /\ queue # <<>>
      /\ queue' = front /\ processing' = <<e>> \o processing
      /\ batch' = [batch EXCEPT ![p] = Append(batch[p], e)]
      /\ UNCHANGED <<pc, ledger, sent>>
  BY DEF DrainClaim, MoveTail, SetBatch, history
<1>2. /\ queue \in Seq(Deliveries) /\ processing \in Seq(Deliveries)
      /\ batch[p] \in Seq(Deliveries) /\ batch'[p] = Append(batch[p], e)
  BY <1>1 DEF TypeOK
<1>3. e \in Deliveries
  BY <1>1, <1>2, FrontElements
<1>4. /\ Falling(sent, queue) /\ Falling(sent, processing) /\ Rising(sent, Poison, batch[p])
  BY DEF Orderly, InLists
<1>5. /\ Elements(front) \subseteq Elements(queue) /\ Falling(sent, front)
      /\ e \in Elements(queue)
      /\ \A x \in Elements(front) : Before(sent, e, x)
  BY <1>1, <1>2, <1>4, FallingFront
<1> HIDE DEF e, front
<1>6. /\ \A x \in Elements(ledger) \cup Elements(processing) \cup Elements(batch[p]) : Before(sent, x, e)
  BY <1>5 DEF Orderly, BetweenLists
<1>7. Elements(processing') = {e} \cup Elements(processing) /\ Falling(sent, processing')
  BY <1>1, <1>2, <1>3, <1>4, <1>6, ConsElements, FallingCons
<1>8. Elements(batch'[p]) = Elements(batch[p]) \cup {e} /\ Rising(sent, Poison, batch'[p])
  BY <1>2, <1>3, <1>4, <1>6, AppendedElements, RisingAppend
<1>9. \A q \in Drainers : q # p => batch'[q] = batch[q]
  BY <1>1 DEF TypeOK
<1>10. \A q \in Drainers : Elements(batch[q]) \subseteq Elements(batch'[q])
                           /\ Elements(batch'[q]) \subseteq Elements(batch[q]) \cup {e}
  BY <1>8, <1>9
<1>11. \A q \in Drainers : Ahead(q)' \subseteq Ahead(q) \cup {e}
  <2>1. Ahead(p)' \subseteq Ahead(p) \cup {e}
    BY <1>1, <1>8 DEF Ahead
  <2>2. \A q \in Drainers : q # p => Ahead(q)' = Ahead(q)
    BY <1>1, <1>9 DEF Ahead
  <2> QED
    BY <2>1, <2>2
<1>12. OfSent'
  BY <1>1, <1>5, <1>7, <1>10 DEF Orderly, OfSent
<1>13. \A q \in Drainers : Rising(sent, Poison, batch'[q])
  BY <1>8, <1>9 DEF Orderly, InLists
<1>14. InLists'
  BY <1>1, <1>5, <1>7, <1>13 DEF Orderly, InLists
<1>15. BetweenLists'
  <2>1. ASSUME NEW y \in Elements(queue'), NEW x \in Elements(ledger') \cup Elements(processing')
        PROVE  Before(sent', x, y)
    BY <1>1, <1>5, <1>7 DEF Orderly, BetweenLists
  <2>2. ASSUME NEW y \in Elements(queue'), NEW q \in Drainers, NEW x \in Elements(batch'[q])
        PROVE  Before(sent', x, y)
    BY <1>1, <1>5, <1>10 DEF Orderly, BetweenLists
  <2>3. ASSUME NEW q \in Drainers, NEW y \in Ahead(q)' \ Poison, NEW x \in Elements(ledger')
        PROVE  Before(sent', x, y)
    BY <1>1, <1>6, <1>11 DEF Orderly, BetweenLists
  <2> QED
    BY <2>1, <2>2, <2>3 DEF BetweenLists
<1>16. InHand'
  BY <1>7, <1>8, <1>10 DEF Orderly, InHand
<1> QED
  BY <1>12, <1>14, <1>15, <1>16 DEF Orderly

LEMMA WriteKeepsOrder ==
  ASSUME TypeOK, Busy, Orderly, NEW p \in Drainers, Alone(p), DrainWrite(p)
  PROVE  Orderly'
<1> DEFINE e == Head(batch[p])
<1>1. /\ pc[p] = "write" /\ e \notin Poison /\ ledger' = Append(ledger, e)
      /\ pc' = [pc EXCEPT ![p] = "mark"]
      /\ UNCHANGED <<queue, processing, batch, sent>>
  BY DEF DrainWrite, Current, Goto, history
<1>2. batch[p] \in Seq(Deliveries) /\ batch[p] # <<>> /\ ledger \in Seq(Deliveries)
  BY <1>1 DEF TypeOK, Busy
<1>3. Rising(sent, Poison, batch[p]) /\ Rising(sent, {}, ledger)
  BY DEF Orderly, InLists
<1>4. /\ e \in Elements(batch[p]) /\ Elements(Tail(batch[p])) \subseteq Elements(batch[p])
      /\ \A y \in Elements(Tail(batch[p])) \ Poison : Before(sent, e, y)
  BY <1>1, <1>2, <1>3, RisingTail
<1>5. e \in Deliveries
  BY <1>2, HeadTailProperties
<1> HIDE DEF e
<1>6. \A x \in Elements(ledger) : Before(sent, x, e)
  BY <1>1, <1>4 DEF Orderly, BetweenLists, Ahead
<1>7. Elements(ledger') = Elements(ledger) \cup {e} /\ Rising(sent, {}, ledger')
  BY <1>1, <1>2, <1>3, <1>5, <1>6, AppendedElements, RisingAppend
<1>8. Ahead(p) = Elements(batch[p]) /\ Ahead(p)' = Elements(Tail(batch[p]))
  BY <1>1 DEF Ahead, TypeOK
<1>9. \A q \in Drainers : q # p => Ahead(q)' = {}
  BY <1>1 DEF Alone, Ahead, Elements, TypeOK
<1>10. OfSent'
  BY <1>1, <1>4, <1>7 DEF Orderly, OfSent
<1>11. InLists'
  BY <1>1, <1>7 DEF Orderly, InLists
<1>12. \A y \in Elements(queue) : Before(sent, e, y)
  BY <1>4 DEF Orderly, BetweenLists
<1>13. \A q \in Drainers : \A y \in Ahead(q)' \ Poison : \A x \in Elements(ledger') : Before(sent, x, y)
  BY <1>4, <1>7, <1>8, <1>9 DEF Orderly, BetweenLists
<1>14. BetweenLists'
  BY <1>1, <1>7, <1>12, <1>13 DEF Orderly, BetweenLists
<1>15. InHand'
  BY <1>1 DEF Orderly, InHand
<1> QED
  BY <1>10, <1>11, <1>14, <1>15 DEF Orderly

(* The payload in hand is done with: it is acknowledged, or it can never   *)
(* be written and stays where it is.                                       *)
LEMMA DropKeepsOrder ==
  ASSUME TypeOK, Busy, PushedOnce, Orderly, NEW p \in Drainers,
         pc[p] \in {"write", "ack", "ackdead"}, pc' = [pc EXCEPT ![p] = "handle"],
         batch' = [batch EXCEPT ![p] = Tail(batch[p])],
         UNCHANGED <<queue, ledger, sent>>,
         \/ processing' = Lrem(processing, Head(batch[p]))
         \/ processing' = processing /\ Head(batch[p]) \in Poison
  PROVE  Orderly'
<1> DEFINE e == Head(batch[p])
<1>1. /\ batch[p] \in Seq(Deliveries) /\ batch[p] # <<>> /\ processing \in Seq(Deliveries)
      /\ batch'[p] = Tail(batch[p])
      /\ \A q \in Drainers : q # p => batch'[q] = batch[q] /\ pc'[q] = pc[q]
  BY DEF TypeOK, Busy
<1>2. Rising(sent, Poison, batch[p]) /\ Falling(sent, processing)
  BY DEF Orderly, InLists
<1>3. /\ Elements(batch'[p]) \subseteq Elements(batch[p])
      /\ Elements(batch[p]) \subseteq Elements(batch'[p]) \cup {e}
      /\ Rising(sent, Poison, batch'[p])
  BY <1>1, <1>2, RisingTail
<1>4. ~Before(sent, e, e)
  BY DEF PushedOnce, Before
<1>5. /\ Elements(processing') \subseteq Elements(processing) /\ Falling(sent, processing')
      /\ e \in Elements(processing') => e \in Poison
  BY <1>1, <1>2, <1>4, FallingLrem
<1> HIDE DEF e
<1>6. \A q \in Drainers : /\ Elements(batch'[q]) \subseteq Elements(batch[q])
                          /\ Rising(sent, Poison, batch'[q])
  BY <1>1, <1>3 DEF Orderly, InLists
<1>7. \A q \in Drainers : Ahead(q)' \subseteq Ahead(q)
  <2>1. Ahead(p)' = Elements(Tail(batch[p]))
    BY <1>1 DEF Ahead, TypeOK
  <2>2. Elements(Tail(batch[p])) \subseteq Ahead(p)
    BY <1>1, <1>3 DEF Ahead
  <2>3. \A q \in Drainers : q # p => Ahead(q)' = Ahead(q)
    BY <1>1 DEF Ahead
  <2> QED
    BY <2>1, <2>2, <2>3
<1>8. OfSent'
  BY <1>5, <1>6 DEF Orderly, OfSent
<1>9. InLists'
  BY <1>5, <1>6 DEF Orderly, InLists
<1>10. BetweenLists'
  BY <1>5, <1>6, <1>7 DEF Orderly, BetweenLists
<1>11. InHand'
  <2> SUFFICES ASSUME NEW x \in Elements(processing') \ Poison
               PROVE  \E q \in Drainers : x \in Elements(batch'[q])
    BY DEF InHand
  <2>1. x # e /\ x \in Elements(processing) \ Poison
    BY <1>5
  <2>2. PICK q \in Drainers : x \in Elements(batch[q])
    BY <2>1 DEF Orderly, InHand
  <2> QED
    BY <1>1, <1>3, <2>1, <2>2
<1> QED
  BY <1>8, <1>9, <1>10, <1>11 DEF Orderly

LEMMA DrainKeepsOrder ==
  ASSUME TypeOK, Busy, PushedOnce, Resting, Orderly, NEW p \in Drainers, Alone(p),
         DrainStep(p), faults' = faults
  PROVE  Orderly'
<1> USE DEF Goto, SetBatch, history
<1>1. ASSUME UNCHANGED <<queue, processing, batch, ledger, sent>>, pc'[p] # pc[p],
             pc[p] # "ack", pc[p] = "mark" => pc'[p] = "ack",
             pc' = [pc EXCEPT ![p] = pc'[p]]
      PROVE  Orderly'
  <2>1. \A q \in Drainers : q # p => pc'[q] = pc[q]
    BY <1>1 DEF TypeOK
  <2>2. \A q \in Drainers : q # p => Ahead(q)' = Ahead(q)
    BY <1>1, <2>1 DEF Ahead
  <2>3. batch[p] = <<>> \/ Elements(Tail(batch[p])) \subseteq Elements(batch[p])
    BY RisingTail DEF TypeOK, Orderly, InLists
  <2>4. pc'[p] \in {"mark", "ack"} => batch[p] # <<>>
    BY <1>1, DrainTypes DEF Busy
  <2>5. Ahead(p)' \subseteq Ahead(p)
    BY <1>1, <2>3, <2>4 DEF Ahead
  <2> QED
    BY <1>1, <2>2, <2>5, QuietKeepsOrder
<1>2. CASE DrainAcquire(p) \/ DrainClaimed(p) \/ DrainRefuse(p) \/ DrainFound(p)
           \/ DrainFresh(p) \/ DrainRelease(p)
  BY <1>1, <1>2 DEF DrainAcquire, DrainClaimed, DrainRefuse, DrainFound, DrainFresh, DrainRelease,
                    TypeOK
<1>3. CASE DrainMark(p) \/ DrainBury(p)
  BY <1>1, <1>3 DEF DrainMark, DrainBury, TypeOK
<1>4. CASE DrainRead(p)
  BY <1>4, ReadKeepsOrder
<1>5. CASE DrainClaim(p)
  BY <1>5, ClaimKeepsOrder
<1>6. CASE DrainWrite(p)
  BY <1>6, WriteKeepsOrder
<1>7. CASE DrainAck(p)
  BY <1>7, DropKeepsOrder DEF DrainAck, Current
<1>8. CASE DrainRetryable(p)
  <2>1. pc[p] = "write" /\ Head(batch[p]) \in Poison
    BY <1>8 DEF DrainRetryable, Fault, Current, TypeOK
  <2>2. processing' = processing
    BY <1>8, <2>1 DEF DrainRetryable
  <2> QED
    BY <1>8, <2>1, <2>2, DropKeepsOrder DEF DrainRetryable
<1>9. ~DrainAbort(p)
  BY DEF DrainAbort, Fault, TypeOK
<1> QED
  BY <1>2, <1>3, <1>4, <1>5, <1>6, <1>7, <1>8, <1>9 DEF DrainStep

(* A step of the bot or of time moves a payload only by pushing it, or     *)
(* lets the whole queue expire.                                            *)
LEMMA OthersKeepOrder ==
  ASSUME TypeOK, Orderly, (\E d \in Deliveries : BotStep(d)) \/ TimeStep \/ UNCHANGED vars
  PROVE  Orderly'
<1>1. ASSUME UNCHANGED <<queue, processing, pc, batch, ledger, sent>> PROVE Orderly'
  <2>1. \A p \in Drainers : Ahead(p)' = Ahead(p)
    BY <1>1 DEF Ahead
  <2> QED
    BY <1>1, <2>1, QuietKeepsOrder
<1>2. ASSUME NEW d \in Deliveries, BotStep(d) PROVE Orderly'
  <2>1. UNCHANGED <<processing, pc, batch, ledger>>
    BY <1>2 DEF BotStep, BotMark, BotDuplicate, BotMarkFault, BotAppend, BotAppendFault, BotUndo,
       BotUndoFault, BotCrash, BotOnly, storeVars
  <2>2. Push(d) \/ UNCHANGED <<queue, sent>>
    BY <1>2 DEF BotStep, BotMark, BotDuplicate, BotMarkFault, BotAppend, BotAppendFault, BotUndo,
       BotUndoFault, BotCrash, storeVars, history
  <2> QED
    BY <1>1, <2>1, <2>2, PushKeepsOrder
<1>3. CASE TimeStep
  <2>1. CASE QueueExpire
    BY <2>1, QueueExpireKeepsOrder
  <2>2. CASE ~QueueExpire
    BY <1>1, <1>3, <2>2 DEF TimeStep, LockExpire, EnvelopeExpire, SeenExpire, storeVars, history
  <2> QED
    BY <2>1, <2>2
<1>4. CASE UNCHANGED vars
  BY <1>1, <1>4 DEF vars
<1> QED
  BY <1>2, <1>3, <1>4

LEMMA PushedOnceStep == ASSUME TypeOK, PushedOnce, [Next]_vars PROVE PushedOnce'
<1>1. CASE sent' = sent
  <2>1. \A d \in Deliveries : bot[d] \notin {"new", "marked"} => bot'[d] \notin {"new", "marked"}
    BY DEF Next, BotStep, BotMark, BotDuplicate, BotMarkFault, BotAppend, BotAppendFault, BotUndo,
       BotUndoFault, BotCrash, DrainStep, DrainAcquire, DrainRead, DrainClaim, DrainClaimed,
       DrainRefuse, DrainFound, DrainFresh, DrainWrite, DrainMark, DrainBury, DrainAck,
       DrainRetryable, DrainAbort, DrainRelease, DrainCrash, DrainOnly, TimeStep, LockExpire,
       EnvelopeExpire, SeenExpire, QueueExpire, vars, TypeOK
  <2>2. Elements(sent) \subseteq Deliveries
    BY ElementsOfSeq DEF TypeOK
  <2> QED
    BY <1>1, <2>1, <2>2 DEF PushedOnce
<1>2. CASE sent' # sent
  <2>1. PICK d \in Deliveries : BotAppend(d) \/ BotAppendFault(d)
    BY <1>2 DEF Next, BotStep, BotMark, BotDuplicate, BotMarkFault, BotUndo,
       BotUndoFault, BotCrash, DrainStep, DrainAcquire, DrainRead, DrainClaim, DrainClaimed,
       DrainRefuse, DrainFound, DrainFresh, DrainWrite, DrainMark, DrainBury, DrainAck,
       DrainRetryable, DrainAbort, DrainRelease, DrainCrash, TimeStep, LockExpire,
       EnvelopeExpire, SeenExpire, QueueExpire, vars, history
  <2>2. /\ bot[d] = "marked" /\ sent' = Append(sent, d)
        /\ bot'[d] \notin {"new", "marked"}
        /\ \A e \in Deliveries : e # d => bot'[e] = bot[e]
    BY <1>2, <2>1 DEF BotAppend, BotAppendFault, Push, history, TypeOK
  <2>3. /\ Len(sent) \in Nat /\ Len(sent') = Len(sent) + 1
        /\ \A i \in 1 .. Len(sent) : sent'[i] = sent[i] /\ sent[i] \in Elements(sent)
        /\ sent'[Len(sent) + 1] = d
    BY <2>2, AppendProperties, LenProperties DEF TypeOK, Elements
  <2>4. d \notin Elements(sent) /\ Elements(sent) \subseteq Deliveries
    BY <2>2, ElementsOfSeq DEF PushedOnce, TypeOK
  <2>5. \A i \in 1 .. Len(sent') : i \in 1 .. Len(sent) \/ i = Len(sent) + 1
    BY <2>3
  <2>6. \A m, n \in 1 .. Len(sent') : sent'[m] = sent'[n] => m = n
    BY <2>3, <2>4, <2>5 DEF PushedOnce
  <2>7. Elements(sent') = Elements(sent) \cup {d}
    BY <2>2, AppendedElements DEF TypeOK
  <2> QED
    BY <2>2, <2>4, <2>6, <2>7 DEF PushedOnce
<1> QED
  BY <1>1, <1>2

LEMMA RestingStep == ASSUME TypeOK, Resting, [Next]_vars PROVE Resting'
<1>1. ASSUME NEW p \in Drainers, DrainStep(p) \/ DrainCrash(p) PROVE Resting'
  <2>1. \A q \in Drainers : q # p => pc'[q] = pc[q] /\ batch'[q] = batch[q]
    BY <1>1 DEF TypeOK, DrainStep, DrainAcquire, DrainRead, DrainClaim, DrainClaimed,
       DrainRefuse, DrainFound, DrainFresh, DrainWrite, DrainMark, DrainBury,
       DrainAck, DrainRetryable, DrainAbort, DrainRelease, DrainCrash, Goto, SetBatch
  <2>2. pc'[p] \in {"idle", "read"} => batch'[p] = <<>>
    BY <1>1 DEF TypeOK, Resting, DrainStep, DrainAcquire, DrainRead, DrainClaim, DrainClaimed,
       DrainRefuse, DrainFound, DrainFresh, DrainWrite, DrainMark, DrainBury,
       DrainAck, DrainRetryable, DrainAbort, DrainRelease, DrainCrash, Goto, SetBatch
  <2> QED
    BY <2>1, <2>2 DEF Resting
<1>2. CASE (\E d \in Deliveries : BotStep(d)) \/ TimeStep \/ UNCHANGED vars
  <2>1. UNCHANGED <<pc, batch>>
    BY <1>2 DEF BotStep, BotMark, BotDuplicate, BotMarkFault, BotAppend, BotAppendFault,
       BotUndo, BotUndoFault, BotCrash, BotOnly, TimeStep, LockExpire, EnvelopeExpire,
       SeenExpire, QueueExpire, vars
  <2> QED
    BY <2>1 DEF Resting
<1> QED
  BY <1>1, <1>2 DEF Next

(* Failures are only counted upwards.                                      *)
LEMMA CalmBefore ==
  ASSUME TypeOK, [Next]_vars, crashes' = 0, faults' = 0
  PROVE  crashes = 0 /\ faults = 0 /\ \A p \in Drainers : ~DrainCrash(p)
<1>1. crashes' \in {crashes, crashes + 1} /\ faults' \in {faults, faults + 1}
  BY DEF Next, BotStep, BotMark, BotDuplicate, BotMarkFault, BotAppend, BotAppendFault, BotUndo,
     BotUndoFault, BotCrash, BotOnly, DrainStep, DrainAcquire, DrainRead, DrainClaim, DrainClaimed,
     DrainRefuse, DrainFound, DrainFresh, DrainWrite, DrainMark, DrainBury, DrainAck,
     DrainRetryable, DrainAbort, DrainRelease, DrainCrash, DrainOnly, TimeStep, LockExpire,
     EnvelopeExpire, SeenExpire, QueueExpire, vars, Fault, NoFault
<1>2. \A p \in Drainers : DrainCrash(p) => crashes' = crashes + 1
  BY DEF DrainCrash
<1> QED
  BY <1>1, <1>2 DEF TypeOK

LEMMA OrderStep ==
  ASSUME ~SlowDrain, TypeOK, Busy, LockInv, OrderInv, [Next]_vars
  PROVE  OrderInv'
<1>1. PushedOnce' /\ Resting'
  BY PushedOnceStep, RestingStep DEF OrderInv
<1>2. ASSUME crashes' = 0, faults' = 0 PROVE Orderly'
  <2>1. /\ crashes = 0 /\ faults = 0 /\ Orderly /\ PushedOnce /\ Resting
        /\ \A p \in Drainers : ~DrainCrash(p)
    BY <1>2, CalmBefore DEF OrderInv
  <2>2. ASSUME NEW p \in Drainers, DrainStep(p) PROVE Orderly'
    <3>1. HolderInv /\ HolderInv' /\ (pc[p] = "idle" => DrainAcquire(p))
      BY <2>2, HolderInDrain
         DEF LockInv, DrainStep, DrainRead, DrainClaim, DrainClaimed, DrainRefuse, DrainFound,
             DrainFresh, DrainWrite, DrainMark, DrainBury, DrainAck, DrainRetryable, DrainAbort,
             DrainRelease
    <3>2. \A q \in Drainers : q # p => pc[q] = "idle"
      BY <3>1, RelayAssumption DEF HolderInv, DrainAcquire
    <3>3. Alone(p)
      BY <2>1, <3>2 DEF Alone, Resting
    <3> QED
      BY <1>2, <2>1, <2>2, <3>3, DrainKeepsOrder
  <2>3. CASE (\E d \in Deliveries : BotStep(d)) \/ TimeStep \/ UNCHANGED vars
    BY <2>1, <2>3, OthersKeepOrder
  <2> QED
    BY <2>1, <2>2, <2>3 DEF Next
<1> QED
  BY <1>1, <1>2 DEF OrderInv

(* As long as nothing crashes, no store operation fails and no drain       *)
(* outlives its lock, instructions reach the inbox in the order they were  *)
(* pushed, for any number of drainers, batches and redeliveries, and       *)
(* although payloads that cannot be written stay claimed.                  *)
THEOREM InboxIsFifo ==
  ASSUME ~SlowDrain
  PROVE  Spec => []FifoUntilFailure
<1>1. Init => OrderInv
  <2>1. Elements(<<>>) = {} /\ Len(<<>>) = 0
    BY DEF Elements
  <2>2. ASSUME Init PROVE Orderly /\ PushedOnce /\ Resting
    <3>1. /\ queue = <<>> /\ processing = <<>> /\ ledger = <<>> /\ sent = <<>>
          /\ \A p \in Drainers : batch[p] = <<>> /\ pc[p] = "idle"
      BY <2>2 DEF Init
    <3>2. \A p \in Drainers : Ahead(p) = {}
      BY <2>1, <3>1 DEF Ahead
    <3> QED
      BY <2>1, <3>1, <3>2 DEF Orderly, OfSent, InLists, Falling, Rising, BetweenLists, InHand,
                              PushedOnce, Resting
  <2> QED
    BY <2>2 DEF OrderInv
<1>2. TypeOK /\ Busy /\ LockInv /\ OrderInv /\ [Next]_vars => OrderInv'
  BY OrderStep
<1>3. OrderInv => FifoUntilFailure
  BY DEF OrderInv, Orderly, InLists, Rising, Before, FifoUntilFailure, LedgerFifo
<1> QED
  BY <1>1, <1>2, <1>3, TypeCorrect, LockInvariant, PTL DEF Spec

=============================================================================
