----------------------------- MODULE OwnerRelay -----------------------------
(***************************************************************************)
(* The owner-instruction relay: a product bot pushes signed envelopes into *)
(* Redis lists (relay.py, harness_relay_store.py); the local loop and the  *)
(* launcher drain them into the Markdown inbox, the ledger of owner        *)
(* instructions (harness_telegram_bridge.py, control.py).                  *)
(*                                                                         *)
(* One delivery is one execution of the bot's handler: it builds one       *)
(* envelope (a raw payload of its own, the nonce makes it unique) and      *)
(* calls enqueue_owner_relay once.  A redelivery of the same Telegram      *)
(* update is another delivery with the same idempotency key.  Every call   *)
(* on the store is a step of its own, so a crash, a store error or another *)
(* process can come between any two of them.                               *)
(***************************************************************************)
EXTENDS Naturals, Sequences, FiniteSets, SequencesExt

CONSTANTS
  Deliveries,   \* executions of the bot's handler = raw payloads
  Drainers,     \* processes that call drain_redis_relay_once
  NoDrainer,    \* the drain-lock key is absent
  Keys,         \* idempotency keys
  KeyOf,        \* the key of each delivery
  UpdateKeys,   \* keys built from a Telegram update id (the others are packet hashes)
  Matches,      \* <<k, j>>: the search text of update k occurs in the file written for j
  Forged,       \* deliveries that decoding or validation refuses, expiry aside
  Poison,       \* deliveries whose inbox write always raises a retryable error
  MaxQueue,     \* DEFAULT_RELAY_MAX_QUEUE_LENGTH
  MaxDead,      \* max_length of the dead-letter list
  Limit,        \* how many payloads one drain handles
  SlowDrain,    \* a drain may outlive the 60 s of its lock
  MaxFaults,    \* bound: store and file errors in a behaviour
  MaxCrashes    \* bound: crashes of a bot handler or of a drainer

ASSUME RelayAssumption ==
  /\ NoDrainer \notin Drainers
  /\ KeyOf \in [Deliveries -> Keys]
  /\ UpdateKeys \subseteq Keys
  /\ Matches \subseteq UpdateKeys \X UpdateKeys
  /\ \A k \in UpdateKeys : <<k, k>> \in Matches
  /\ Forged \subseteq Deliveries
  /\ Poison \subseteq Deliveries
  /\ MaxQueue \in Nat \ {0}
  /\ MaxDead \in Nat \ {0}
  /\ Limit \in Nat \ {0}
  /\ SlowDrain \in BOOLEAN
  /\ MaxFaults \in Nat
  /\ MaxCrashes \in Nat

VARIABLES
  seen,        \* the seen:<key> entries of the store
  queue,       \* the queue list, head first (the newest payload is at the head)
  processing,  \* the processing list, head first (the latest claim is at the head)
  dead,        \* the dead-letter list, head first
  done,        \* the done:<key> entries, written and never read
  drainLock,   \* the value of the drain-lock key
  expired,     \* deliveries whose expires_at has passed
  bot,         \* where the execution of each delivery stands
  pc,          \* where each drainer stands in drain_redis_relay_once
  batch,       \* its pending_payloads, the one being handled first
  ledger,      \* the inbox: deliveries in the order their files were written
  sent,        \* history: payloads in the order they were pushed
  trimmed,     \* history: payloads dropped by LTRIM or with an expired list
  faults, crashes

storeVars == <<seen, queue, processing, dead, done, drainLock>>
history   == <<sent, trimmed>>
vars == <<seen, queue, processing, dead, done, drainLock, expired, bot, pc,
          batch, ledger, sent, trimmed, faults, crashes>>

-----------------------------------------------------------------------------
(* Lists of the store.                                                     *)

Take(s, n) == SubSeq(s, 1, IF Len(s) < n THEN Len(s) ELSE n)

Elements(s) == {s[i] : i \in 1 .. Len(s)}

(* Mutant: RPUSH.                                                          *)
AppendRight(s, e, max) == Take(s \o <<e>>, max)

(* LPUSH then LTRIM 0 .. max-1: the oldest entries fall off the tail.      *)
AppendTrim(s, e, max) == Take(<<e>> \o s, max)

(* LREM key 1 value.  A payload occurs once in a list, so which occurrence *)
(* is taken does not matter.                                               *)
Lrem(s, e) ==
  IF e \in Elements(s)
  THEN LET i == CHOOSE j \in 1 .. Len(s) : s[j] = e
       IN  SubSeq(s, 1, i - 1) \o SubSeq(s, i + 1, Len(s))
  ELSE s

-----------------------------------------------------------------------------
Init ==
  /\ seen = {}
  /\ queue = <<>>
  /\ processing = <<>>
  /\ dead = <<>>
  /\ done = {}
  /\ drainLock = NoDrainer
  /\ expired = {}
  /\ bot = [d \in Deliveries |-> "new"]
  /\ pc = [p \in Drainers |-> "idle"]
  /\ batch = [p \in Drainers |-> <<>>]
  /\ ledger = <<>>
  /\ sent = <<>>
  /\ trimmed = {}
  /\ faults = 0
  /\ crashes = 0

Fault == faults < MaxFaults /\ faults' = faults + 1
NoFault == UNCHANGED faults

-----------------------------------------------------------------------------
(* enqueue_owner_relay, in the bot.                                        *)

BotOnly == UNCHANGED <<processing, dead, done, drainLock, expired, pc, batch,
                       ledger, crashes>>

(* The seen key is set with NX: the first delivery of a key goes on.       *)
BotMark(d) ==
  /\ bot[d] = "new"
  /\ KeyOf[d] \notin seen
  /\ seen' = seen \cup {KeyOf[d]}
  /\ bot' = [bot EXCEPT ![d] = "marked"]
  /\ NoFault /\ BotOnly /\ UNCHANGED <<queue, history>>

BotDuplicate(d) ==
  /\ bot[d] = "new"
  /\ KeyOf[d] \in seen
  /\ bot' = [bot EXCEPT ![d] = "duplicate"]
  /\ NoFault /\ BotOnly /\ UNCHANGED <<seen, queue, history>>

(* The SET raised; the store may have executed it.                         *)
BotMarkFault(d) ==
  /\ bot[d] = "new"
  /\ Fault
  /\ seen' \in {seen, seen \cup {KeyOf[d]}}
  /\ bot' = [bot EXCEPT ![d] = "error"]
  /\ BotOnly /\ UNCHANGED <<queue, history>>

Push(d) ==
  /\ queue' = AppendTrim(queue, d, MaxQueue)
  /\ sent' = Append(sent, d)
  /\ trimmed' = trimmed \cup ((Elements(queue) \cup {d}) \ Elements(queue'))

BotAppend(d) ==
  /\ bot[d] = "marked"
  /\ Push(d)
  /\ bot' = [bot EXCEPT ![d] = "accepted"]
  /\ NoFault /\ BotOnly /\ UNCHANGED seen

(* The transaction raised, executed or not: the handler takes the seen key *)
(* back before it re-raises.                                               *)
BotAppendFault(d) ==
  /\ bot[d] = "marked"
  /\ Fault
  /\ Push(d) \/ UNCHANGED <<queue, history>>
  /\ bot' = [bot EXCEPT ![d] = "undo"]
  /\ BotOnly /\ UNCHANGED seen

BotUndo(d) ==
  /\ bot[d] = "undo"
  /\ seen' = seen \ {KeyOf[d]}
  /\ bot' = [bot EXCEPT ![d] = "error"]
  /\ NoFault /\ BotOnly /\ UNCHANGED <<queue, history>>

BotUndoFault(d) ==
  /\ bot[d] = "undo"
  /\ Fault
  /\ seen' \in {seen, seen \ {KeyOf[d]}}
  /\ bot' = [bot EXCEPT ![d] = "error"]
  /\ BotOnly /\ UNCHANGED <<queue, history>>

BotCrash(d) ==
  /\ bot[d] \in {"marked", "undo"}
  /\ crashes < MaxCrashes
  /\ crashes' = crashes + 1
  /\ bot' = [bot EXCEPT ![d] = "gone"]
  /\ UNCHANGED <<storeVars, expired, pc, batch, ledger, history, faults>>

-----------------------------------------------------------------------------
(* drain_redis_relay_once, in a drainer.                                   *)

DrainOnly == UNCHANGED <<seen, expired, bot, crashes>>

Goto(p, l) == pc' = [pc EXCEPT ![p] = l]
SetBatch(p, b) == batch' = [batch EXCEPT ![p] = b]
Current(p) == Head(batch[p])

(* Mutant: the drain lock is set without NX.                               *)
DrainAcquirePlainSet(p) ==
  /\ pc[p] = "idle"
  /\ drainLock' = p
  /\ Goto(p, "read")
  /\ NoFault /\ DrainOnly
  /\ UNCHANGED <<queue, processing, dead, done, batch, ledger, history>>

(* Mutant: the lock's value does not name its holder.                      *)
DrainAcquireAnonymous(p) ==
  /\ pc[p] = "idle"
  /\ drainLock = NoDrainer
  /\ drainLock' = "1"
  /\ Goto(p, "read")
  /\ NoFault /\ DrainOnly
  /\ UNCHANGED <<queue, processing, dead, done, batch, ledger, history>>

(* SET NX EX 60; when the key exists the drain returns skipped_locked.     *)
DrainAcquire(p) ==
  /\ pc[p] = "idle"
  /\ drainLock = NoDrainer
  /\ drainLock' = p
  /\ Goto(p, "read")
  /\ NoFault /\ DrainOnly
  /\ UNCHANGED <<queue, processing, dead, done, batch, ledger, history>>

(* Payloads an earlier drain left behind come first, in list order; only   *)
(* the first Limit of the batch are handled.                               *)
DrainRead(p) ==
  /\ pc[p] = "read"
  /\ SetBatch(p, Take(processing, Limit))
  /\ Goto(p, "claim")
  /\ NoFault /\ DrainOnly
  /\ UNCHANGED <<queue, processing, dead, done, drainLock, ledger, history>>

(* Mutant: RPOP, which leaves no copy behind.                              *)
PopTail ==
  /\ queue # <<>>
  /\ queue' = SubSeq(queue, 1, Len(queue) - 1)
  /\ UNCHANGED processing

(* LMOVE queue processing RIGHT LEFT.                                      *)
MoveTail ==
  /\ queue # <<>>
  /\ processing' = <<queue[Len(queue)]>> \o processing
  /\ queue' = SubSeq(queue, 1, Len(queue) - 1)

DrainClaim(p) ==
  /\ pc[p] = "claim"
  /\ Len(batch[p]) < Limit
  /\ MoveTail
  /\ SetBatch(p, Append(batch[p], queue[Len(queue)]))
  /\ NoFault /\ DrainOnly
  /\ UNCHANGED <<dead, done, drainLock, pc, ledger, history>>

DrainClaimed(p) ==
  /\ pc[p] = "claim"
  /\ queue = <<>> \/ Len(batch[p]) >= Limit
  /\ Goto(p, "handle")
  /\ NoFault /\ DrainOnly
  /\ UNCHANGED <<queue, processing, dead, done, drainLock, batch, ledger, history>>

Refused(d) == d \in Forged \cup expired

(* Mutant: the done key is asked instead of the inbox.                     *)
FoundDone(d) == KeyOf[d] \in UpdateKeys /\ KeyOf[d] \in done

(* _existing_owner_instruction_for_update: a file already holds the        *)
(* update's search text.  Packets without an update id are never searched. *)
Found(d) ==
  /\ KeyOf[d] \in UpdateKeys
  /\ \E e \in Elements(ledger) : <<KeyOf[d], KeyOf[e]>> \in Matches

DrainRefuse(p) ==
  /\ pc[p] = "handle" /\ batch[p] # <<>>
  /\ Refused(Current(p))
  /\ Goto(p, "bury")
  /\ NoFault /\ DrainOnly
  /\ UNCHANGED <<queue, processing, dead, done, drainLock, batch, ledger, history>>

DrainFound(p) ==
  /\ pc[p] = "handle" /\ batch[p] # <<>>
  /\ ~Refused(Current(p)) /\ Found(Current(p))
  /\ Goto(p, "mark")
  /\ NoFault /\ DrainOnly
  /\ UNCHANGED <<queue, processing, dead, done, drainLock, batch, ledger, history>>

DrainFresh(p) ==
  /\ pc[p] = "handle" /\ batch[p] # <<>>
  /\ ~Refused(Current(p)) /\ ~Found(Current(p))
  /\ Goto(p, "write")
  /\ NoFault /\ DrainOnly
  /\ UNCHANGED <<queue, processing, dead, done, drainLock, batch, ledger, history>>

DrainWrite(p) ==
  /\ pc[p] = "write"
  /\ Current(p) \notin Poison
  /\ ledger' = Append(ledger, Current(p))
  /\ Goto(p, "mark")
  /\ NoFault /\ DrainOnly
  /\ UNCHANGED <<queue, processing, dead, done, drainLock, batch, history>>

DrainMark(p) ==
  /\ pc[p] = "mark"
  /\ done' = done \cup {KeyOf[Current(p)]}
  /\ Goto(p, "ack")
  /\ NoFault /\ DrainOnly
  /\ UNCHANGED <<queue, processing, dead, drainLock, batch, ledger, history>>

DrainBury(p) ==
  /\ pc[p] = "bury"
  /\ dead' = AppendTrim(dead, Current(p), MaxDead)
  /\ trimmed' = trimmed \cup (Elements(dead) \ Elements(dead'))
  /\ Goto(p, "ackdead")
  /\ NoFault /\ DrainOnly
  /\ UNCHANGED <<queue, processing, done, drainLock, batch, ledger, sent>>

DrainAck(p) ==
  /\ pc[p] \in {"ack", "ackdead"}
  /\ processing' = Lrem(processing, Current(p))
  /\ SetBatch(p, Tail(batch[p]))
  /\ Goto(p, "handle")
  /\ NoFault /\ DrainOnly
  /\ UNCHANGED <<queue, dead, done, drainLock, ledger, history>>

(* Mutant: a retryable error ends the drain.                               *)
DrainRetryableStops(p) ==
  /\ \/ pc[p] = "write" /\ Current(p) \in Poison /\ NoFault
     \/ pc[p] \in {"write", "mark", "ack"} /\ Fault
  /\ SetBatch(p, <<>>)
  /\ Goto(p, "handle")
  /\ DrainOnly
  /\ UNCHANGED <<queue, processing, dead, done, drainLock, ledger, history>>

(* A retryable error: the payload stays in processing, the loop goes on.   *)
DrainRetryable(p) ==
  /\ \/ pc[p] = "write" /\ Current(p) \in Poison /\ NoFault
     \/ pc[p] \in {"write", "mark", "ack"} /\ Fault
  /\ done' \in {done} \cup (IF pc[p] = "mark" THEN {done \cup {KeyOf[Current(p)]}} ELSE {})
  /\ processing' \in {processing}
       \cup (IF pc[p] = "ack" THEN {Lrem(processing, Current(p))} ELSE {})
  /\ SetBatch(p, Tail(batch[p]))
  /\ Goto(p, "handle")
  /\ DrainOnly
  /\ UNCHANGED <<queue, dead, drainLock, ledger, history>>

(* An error outside the per-payload handler, or inside its except branch,  *)
(* leaves the drain through finally.                                       *)
DrainAbort(p) ==
  /\ pc[p] \in {"read", "claim", "bury", "ackdead"}
  /\ Fault
  /\ \/ UNCHANGED <<queue, processing>>
     \/ pc[p] = "claim" /\ Len(batch[p]) < Limit /\ MoveTail
     \/ pc[p] = "ackdead" /\ processing' = Lrem(processing, Current(p)) /\ UNCHANGED queue
  /\ SetBatch(p, <<>>)
  /\ Goto(p, "handle")
  /\ DrainOnly
  /\ UNCHANGED <<dead, done, drainLock, ledger, history>>

(* finally: DEL of the lock key, whoever holds it by now.                  *)
DrainRelease(p) ==
  /\ pc[p] = "handle" /\ batch[p] = <<>>
  /\ drainLock' = NoDrainer
  /\ Goto(p, "idle")
  /\ NoFault /\ DrainOnly
  /\ UNCHANGED <<queue, processing, dead, done, batch, ledger, history>>

DrainCrash(p) ==
  /\ pc[p] # "idle"
  /\ crashes < MaxCrashes
  /\ crashes' = crashes + 1
  /\ SetBatch(p, <<>>)
  /\ Goto(p, "idle")
  /\ UNCHANGED <<storeVars, expired, bot, ledger, history, faults>>

-----------------------------------------------------------------------------
(* Time.                                                                   *)

(* The lock's 60 s pass.  Unless a drain may be slow, they pass only when  *)
(* its holder is gone.                                                     *)
LockExpire ==
  /\ drainLock # NoDrainer
  /\ SlowDrain \/ pc[drainLock] = "idle"
  /\ drainLock' = NoDrainer
  /\ UNCHANGED <<seen, queue, processing, dead, done, expired, bot, pc, batch,
                 ledger, history, faults, crashes>>

EnvelopeExpire(d) ==
  /\ bot[d] # "new" /\ d \notin expired
  /\ expired' = expired \cup {d}
  /\ UNCHANGED <<storeVars, bot, pc, batch, ledger, history, faults, crashes>>

(* The seen key and the queue list live as long as the newest envelope     *)
(* they were written for, counted from a moment after it was built.        *)
SeenExpire(k) ==
  /\ k \in seen
  /\ \A d \in Deliveries : KeyOf[d] = k /\ bot[d] # "new" => d \in expired
  /\ \A d \in Deliveries : KeyOf[d] = k => bot[d] \notin {"marked", "undo"}
  /\ seen' = seen \ {k}
  /\ UNCHANGED <<queue, processing, dead, done, drainLock, expired, bot, pc,
                 batch, ledger, history, faults, crashes>>

QueueExpire ==
  /\ queue # <<>>
  /\ Elements(queue) \subseteq expired
  /\ queue' = <<>>
  /\ trimmed' = trimmed \cup Elements(queue)
  /\ UNCHANGED <<seen, processing, dead, done, drainLock, expired, bot, pc,
                 batch, ledger, sent, faults, crashes>>

-----------------------------------------------------------------------------
BotStep(d) ==
  \/ BotMark(d) \/ BotDuplicate(d) \/ BotMarkFault(d)
  \/ BotAppend(d) \/ BotAppendFault(d)
  \/ BotUndo(d) \/ BotUndoFault(d) \/ BotCrash(d)

DrainStep(p) ==
  \/ DrainAcquire(p) \/ DrainRead(p) \/ DrainClaim(p) \/ DrainClaimed(p)
  \/ DrainRefuse(p) \/ DrainFound(p) \/ DrainFresh(p) \/ DrainWrite(p)
  \/ DrainMark(p) \/ DrainBury(p) \/ DrainAck(p)
  \/ DrainRetryable(p) \/ DrainAbort(p) \/ DrainRelease(p)

TimeStep ==
  \/ LockExpire
  \/ \E d \in Deliveries : EnvelopeExpire(d)
  \/ \E k \in Keys : SeenExpire(k)
  \/ QueueExpire

Next ==
  \/ \E d \in Deliveries : BotStep(d)
  \/ \E p \in Drainers : DrainStep(p) \/ DrainCrash(p)
  \/ TimeStep

Spec == Init /\ [][Next]_vars

(* Every loop iteration and every operator wait drains again, a drain that *)
(* runs goes on, and the store's clock runs.                               *)
Fairness ==
  /\ \A p \in Drainers : WF_vars(DrainStep(p))
  /\ WF_vars(LockExpire)

FairSpec == Spec /\ Fairness

-----------------------------------------------------------------------------
(* Properties.                                                             *)

(* The values of the store, of the bot's handlers and of the drainers.     *)
TypeOK ==
  /\ seen \subseteq Keys
  /\ queue \in Seq(Deliveries)
  /\ processing \in Seq(Deliveries)
  /\ dead \in Seq(Deliveries)
  /\ done \subseteq Keys
  /\ drainLock \in Drainers \cup {NoDrainer}
  /\ expired \subseteq Deliveries
  /\ bot \in [Deliveries -> {"new", "marked", "undo", "accepted", "duplicate",
                             "error", "gone"}]
  /\ pc \in [Drainers -> {"idle", "read", "claim", "handle", "write", "mark",
                          "ack", "bury", "ackdead"}]
  /\ batch \in [Drainers -> Seq(Deliveries)]
  /\ ledger \in Seq(Deliveries)
  /\ sent \in Seq(Deliveries)
  /\ trimmed \subseteq Deliveries
  /\ faults \in Nat
  /\ crashes \in Nat

(* A delivery is settled when its instruction is in the inbox (its own     *)
(* file or, for an update id, a file the search matches), or its payload   *)
(* was recorded as a dead letter.                                          *)
Settled(d) ==
  \/ d \in Elements(ledger)
  \/ Found(d)
  \/ d \in Elements(dead)

(* No command the bot reported accepted vanishes: whatever the drainers,   *)
(* their crashes and the store's errors do, it is queued, claimed, settled *)
(* or was dropped by a list bound (drain_redis_relay_once acknowledges     *)
(* only after writing).                                                    *)
AcceptedAccounted ==
  \A d \in Deliveries : bot[d] = "accepted" =>
    \/ d \in Elements(queue) \cup Elements(processing)
    \/ Settled(d)
    \/ d \in trimmed

(* What AUTONOMY.md says of an accepted reply: the command waits for the   *)
(* local drain until it is settled or its envelope expires.                *)
AcceptedAwaitsDrain ==
  \A d \in Deliveries : bot[d] = "accepted" =>
    \/ d \in Elements(queue) \cup Elements(processing)
    \/ Settled(d)
    \/ d \in expired

(* One Telegram update becomes at most one inbox instruction, across       *)
(* redeliveries, double pushes, crashed drains and re-read payloads        *)
(* (write_harness_owner_instruction looks before it writes).               *)
LedgerOncePerUpdate ==
  \A i, j \in 1 .. Len(ledger) :
    /\ KeyOf[ledger[i]] = KeyOf[ledger[j]]
    /\ KeyOf[ledger[i]] \in UpdateKeys
    => i = j

(* Two drains never run at once as long as a drain is over before its lock *)
(* expires, crashed holders included (acquire_owner_relay_drain_lock and   *)
(* the unconditional release).                                             *)
DrainExclusive ==
  ~SlowDrain =>
    \A p, q \in Drainers : pc[p] # "idle" /\ pc[q] # "idle" => p = q

(* Instructions reach the inbox in the order they were pushed.             *)
LedgerFifo ==
  \A i, j \in 1 .. Len(ledger) : i < j =>
    \E m, n \in 1 .. Len(sent) :
      m < n /\ sent[m] = ledger[i] /\ sent[n] = ledger[j]

(* As long as nothing crashes and no store operation fails, they do, with  *)
(* any number of drainers, batches and redeliveries.                       *)
FifoUntilFailure == crashes = 0 /\ faults = 0 => LedgerFifo

(* Every accepted command that can be written is settled in the end, or    *)
(* was dropped by a list bound, although other payloads fail forever.      *)
AcceptedSettles ==
  \A d \in Deliveries \ Poison :
    bot[d] = "accepted" ~> (Settled(d) \/ d \in trimmed)
=============================================================================
