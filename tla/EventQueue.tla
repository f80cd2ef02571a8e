------------------------------ MODULE EventQueue ------------------------------
(***************************************************************************)
(* pkg/queue over Redis Streams: one stream, one consumer group, one dead   *)
(* letter stream and one hash of retry counts.  Every process that          *)
(* subscribes is a consumer with two goroutines: run reads new messages and *)
(* reclaimLoop takes over pending ones that were idle for reclaimIdle.      *)
(* Both hand their messages to process, one at a time per consumer.         *)
(*                                                                         *)
(* Redis calls are separate steps.  A call may fail, with its effect or     *)
(* without (the answer is lost); a process may die between two calls.       *)
(***************************************************************************)
EXTENDS Naturals, FiniteSets

CONSTANTS
  NumMessages,   \* bound: messages published, in the order of their stream IDs
  Consumers,     \* processes subscribed to the queue
  ReadCount,     \* XReadGroup Count (10)
  ListCount,     \* XPendingExt Count (100)
  MaxRetries,    \* maxRetries (3)
  MaxSlow,       \* bound: times reclaimIdle passes while a handler runs
  MaxCrashes,    \* bound: process restarts
  MaxRedisErrors \* bound: failed Redis calls

ASSUME QueueAssumption ==
  /\ NumMessages \in Nat
  /\ ReadCount \in Nat \ {0} /\ ListCount \in Nat \ {0} /\ MaxRetries \in Nat \ {0}
  /\ MaxSlow \in Nat /\ MaxCrashes \in Nat /\ MaxRedisErrors \in Nat

Messages == 1..NumMessages
NoMessage == 0
Loops == Consumers \X {"run", "reclaim"}

VARIABLES
  place,       \* where the group has each message, see Places
  retries,     \* the hash queue:retry:<name>, counted up to MaxRetries + 1
  dlq,         \* entries of each message in the dead letter stream, up to 2
  handled,     \* successful handler calls for each message, up to 2
  failed,      \* failed handler calls for each message, up to MaxRetries
  pc, cur,     \* each loop's place in process, and the message it processes
  batch,       \* messages the loop received and has not started on
  slow, crashes, redisErrors

loopVars == <<pc, cur, batch>>
vars == <<place, retries, dlq, handled, failed, loopVars, slow, crashes, redisErrors>>

\* "new": in the stream, not delivered.  "fresh" and "stale": delivered, not
\* acknowledged, idle for less and for more than reclaimIdle.
Places == {"unpublished", "new", "fresh", "stale", "acked"}
Steps == {"idle", "handle", "ack", "clear", "count", "dead", "dead.ack", "dead.clear"}

TypeOK == /\ place \in [Messages -> Places]
          /\ retries \in [Messages -> 0..MaxRetries + 1]
          /\ dlq \in [Messages -> 0..2]
          /\ handled \in [Messages -> 0..2]
          /\ failed \in [Messages -> 0..MaxRetries]
          /\ pc \in [Loops -> Steps]
          /\ cur \in [Loops -> Messages \cup {NoMessage}]
          /\ \A l \in Loops : pc[l] # "idle" => cur[l] \in Messages
          /\ batch \in [Loops -> SUBSET Messages]
          /\ slow \in 0..MaxSlow
          /\ crashes \in 0..MaxCrashes
          /\ redisErrors \in 0..MaxRedisErrors

Init == /\ place = [m \in Messages |-> "unpublished"]
        /\ retries = [m \in Messages |-> 0]
        /\ dlq = [m \in Messages |-> 0]
        /\ handled = [m \in Messages |-> 0]
        /\ failed = [m \in Messages |-> 0]
        /\ pc = [l \in Loops |-> "idle"]
        /\ cur = [l \in Loops |-> NoMessage]
        /\ batch = [l \in Loops |-> {}]
        /\ slow = 0
        /\ crashes = 0
        /\ redisErrors = 0

-----------------------------------------------------------------------------
In(p)   == {m \in Messages : place[m] = p}
Pending == In("fresh") \cup In("stale")

\* The n messages of S with the lowest stream IDs.
Firsts(S, n) == {m \in S : Cardinality({k \in S : k < m}) < n}

CountedUpTo(n, bound) == IF n < bound THEN n + 1 ELSE bound

At(l, step) == pc[l] = step

\* Mutant of Return: the lock is kept.
ReturnLocked(l) == /\ cur' = [cur EXCEPT ![l] = NoMessage]
                   /\ UNCHANGED <<pc, batch>>

\* process returns: the loop gives the lock back.
Return(l) == /\ pc' = [pc EXCEPT ![l] = "idle"]
             /\ cur' = [cur EXCEPT ![l] = NoMessage]
             /\ UNCHANGED batch

\* The Redis call of this step is answered and the loop goes on to the next.
Goto(l, step) == pc' = [pc EXCEPT ![l] = step] /\ UNCHANGED <<cur, batch>>

Answered == UNCHANGED redisErrors

\* The call fails, or its answer is lost.
Failed == redisErrors < MaxRedisErrors /\ redisErrors' = redisErrors + 1

-----------------------------------------------------------------------------
(* Delivery. *)

\* XAdd.  A failed one is returned to the publisher and leaves nothing here.
Publish(m) ==
  /\ place[m] = "unpublished"
  /\ \A k \in Messages : k < m => place[k] # "unpublished"
  /\ place' = [place EXCEPT ![m] = "new"]
  /\ UNCHANGED <<retries, dlq, handled, failed, loopVars, slow, crashes, redisErrors>>

\* The loop receives the messages S of the group, unless the answer is lost.
Deliver(l, S) ==
  /\ S # {}
  /\ place' = [m \in Messages |-> IF m \in S THEN "fresh" ELSE place[m]]
  /\ \/ batch' = [batch EXCEPT ![l] = S] /\ Answered
     \/ UNCHANGED batch /\ Failed
  /\ UNCHANGED <<retries, dlq, handled, failed, pc, cur, slow, crashes>>

\* run: XReadGroup asks for messages nobody has received.
Read(c) ==
  LET l == <<c, "run">>
  IN At(l, "idle") /\ batch[l] = {} /\ Deliver(l, Firsts(In("new"), ReadCount))

\* Mutant of Reclaim: the idle time is not looked at.
ReclaimAnyPending(c) ==
  LET l == <<c, "reclaim">>
  IN At(l, "idle") /\ batch[l] = {} /\ Deliver(l, Firsts(Pending, ListCount))

\* reclaimLoop: XPendingExt lists the first ListCount pending messages, XClaim
\* takes those that are still stale and makes them fresh (MinIdle: of two
\* consumers one gets a message, so the two calls act as one).
Reclaim(c) ==
  LET l == <<c, "reclaim">>
  IN /\ At(l, "idle") /\ batch[l] = {}
     /\ Deliver(l, Firsts(Pending, ListCount) \cap In("stale"))

Holds(l, m) == cur[l] = m \/ m \in batch[l]
Held(m) == \E l \in Loops : Holds(l, m)

\* reclaimIdle passes without the message being acknowledged.
Aged(m) == place[m] = "fresh" /\ place' = [place EXCEPT ![m] = "stale"]

Age(m) ==
  /\ ~Held(m)
  /\ Aged(m)
  /\ UNCHANGED <<retries, dlq, handled, failed, loopVars, slow, crashes, redisErrors>>

\* The same for a message that a consumer holds while it is inside a handler.
AgeWhileHandling(m) ==
  /\ slow < MaxSlow /\ slow' = slow + 1
  /\ \E k, l \in Loops : Holds(k, m) /\ l[1] = k[1] /\ At(l, "handle")
  /\ Aged(m)
  /\ UNCHANGED <<retries, dlq, handled, failed, loopVars, crashes, redisErrors>>

-----------------------------------------------------------------------------
(* process, safeHandle and handleFailure. *)

\* deliveryMu: the other loop of the consumer is not inside process.
Take(l) ==
  \E m \in Firsts(batch[l], 1) :
    /\ At(l, "idle")
    /\ \A k \in Loops : k[1] = l[1] => At(k, "idle")
    /\ pc' = [pc EXCEPT ![l] = "handle"]
    /\ cur' = [cur EXCEPT ![l] = m]
    /\ batch' = [batch EXCEPT ![l] = @ \ {m}]
    /\ UNCHANGED <<place, retries, dlq, handled, failed, slow, crashes, redisErrors>>

\* Mutant of Handle: safeHandle loses the error of a handler that panics.
HandlePanicIsSuccess(l) ==
  LET m == cur[l]
  IN /\ At(l, "handle")
     /\ \/ /\ handled' = [handled EXCEPT ![m] = CountedUpTo(@, 2)]
           /\ Goto(l, "ack")
           /\ UNCHANGED failed
        \/ /\ failed' = [failed EXCEPT ![m] = CountedUpTo(@, MaxRetries)]
           /\ \E step \in {"ack", "count"} : Goto(l, step)
           /\ UNCHANGED handled
     /\ UNCHANGED <<place, retries, dlq, slow, crashes, redisErrors>>

\* The handler succeeds, or returns an error or panics.
Handle(l) ==
  LET m == cur[l]
  IN /\ At(l, "handle")
     /\ \/ /\ handled' = [handled EXCEPT ![m] = CountedUpTo(@, 2)]
           /\ Goto(l, "ack")
           /\ UNCHANGED failed
        \/ /\ failed' = [failed EXCEPT ![m] = CountedUpTo(@, MaxRetries)]
           /\ Goto(l, "count")
           /\ UNCHANGED handled
     /\ UNCHANGED <<place, retries, dlq, slow, crashes, redisErrors>>

\* XAck removes the message from the pending list, if it still is there.
XAck(m) == place' = [place EXCEPT ![m] = "acked"]

\* XAck after a success; if it fails the message stays pending.
Ack(l) ==
  /\ At(l, "ack")
  /\ \/ XAck(cur[l]) /\ Goto(l, "clear") /\ Answered
     \/ (XAck(cur[l]) \/ UNCHANGED place) /\ Return(l) /\ Failed
  /\ UNCHANGED <<retries, dlq, handled, failed, slow, crashes>>

HDel(m) == retries' = [retries EXCEPT ![m] = 0]

\* HDel: an error is logged.  Ends process after a success and after a death.
Clear(l) ==
  /\ pc[l] \in {"clear", "dead.clear"}
  /\ \/ HDel(cur[l]) /\ Answered
     \/ (HDel(cur[l]) \/ UNCHANGED retries) /\ Failed
  /\ Return(l)
  /\ UNCHANGED <<place, dlq, handled, failed, slow, crashes>>

\* Mutant of IsLast: a message is buried one attempt early.
IsLastEarly(count) == count + 1 >= MaxRetries

\* Mutant of IsLast: an equality.
IsLastExactly(count) == count = MaxRetries

IsLast(count) == count >= MaxRetries

\* HIncrBy: below the limit the message stays pending for another attempt.
Count(l) ==
  LET m == cur[l]
      counted == CountedUpTo(retries[m], MaxRetries + 1)
      HIncrBy == retries' = [retries EXCEPT ![m] = counted]
  IN /\ At(l, "count")
     /\ \/ /\ HIncrBy /\ Answered
           /\ IF IsLast(counted) THEN Goto(l, "dead") ELSE Return(l)
        \/ (HIncrBy \/ UNCHANGED retries) /\ Return(l) /\ Failed
     /\ UNCHANGED <<place, dlq, handled, failed, slow, crashes>>

\* XAdd to the dead letter stream; if it fails the message stays pending.
Bury(l) ==
  LET Add == dlq' = [dlq EXCEPT ![cur[l]] = CountedUpTo(@, 2)]
  IN /\ At(l, "dead")
     /\ \/ Add /\ Goto(l, "dead.ack") /\ Answered
        \/ (Add \/ UNCHANGED dlq) /\ Return(l) /\ Failed
     /\ UNCHANGED <<place, retries, handled, failed, slow, crashes>>

\* XAck of a buried message; an error is logged.
BuryAck(l) ==
  /\ At(l, "dead.ack")
  /\ \/ XAck(cur[l]) /\ Answered
     \/ (XAck(cur[l]) \/ UNCHANGED place) /\ Failed
  /\ Goto(l, "dead.clear")
  /\ UNCHANGED <<retries, dlq, handled, failed, slow, crashes>>

-----------------------------------------------------------------------------
\* A process dies, or is shut down: what it held stays pending in Redis.
Crash(c) ==
  /\ crashes < MaxCrashes
  /\ \E l \in {c} \X {"run", "reclaim"} : ~At(l, "idle") \/ batch[l] # {}
  /\ crashes' = crashes + 1
  /\ pc' = [l \in Loops |-> IF l[1] = c THEN "idle" ELSE pc[l]]
  /\ cur' = [l \in Loops |-> IF l[1] = c THEN NoMessage ELSE cur[l]]
  /\ batch' = [l \in Loops |-> IF l[1] = c THEN {} ELSE batch[l]]
  /\ UNCHANGED <<place, retries, dlq, handled, failed, slow, redisErrors>>

Process(l) == Handle(l) \/ Ack(l) \/ Clear(l) \/ Count(l) \/ Bury(l) \/ BuryAck(l)

Next ==
  \/ \E m \in Messages : Publish(m) \/ Age(m) \/ AgeWhileHandling(m)
  \/ \E c \in Consumers : Read(c) \/ Reclaim(c) \/ Crash(c)
  \/ \E l \in Loops : Take(l) \/ Process(l)

\* Time passes; the loops block on Redis and tick; a goroutine gets the lock
\* when it is free, and gets to its next call.
Fairness == /\ \A m \in Messages : WF_vars(Age(m))
            /\ \A c \in Consumers : WF_vars(Read(c)) /\ WF_vars(Reclaim(c))
            /\ \A l \in Loops : WF_vars(Take(l)) /\ WF_vars(Process(l))

Spec == Init /\ [][Next]_vars /\ Fairness

-----------------------------------------------------------------------------
\* A message leaves the group only once a handler succeeded on it or it is in
\* the dead letter stream, whatever call fails and whoever dies ("at-least-once:
\* mensagens confirmadas explicitamente", queue.go:10-14).
NothingLost == \A m \in Messages : place[m] = "acked" => handled[m] > 0 \/ dlq[m] > 0

\* Each message has one place and one lock, and no message leaves unhandled and
\* unburied.
QueueOK == TypeOK /\ NothingLost

\* A message is buried only after the handler really failed maxRetries times
\* ("apos maxRetries, a mensagem vai para queue:<nome>:dlq", queue.go:14).
DeadAfterAllRetries == \A m \in Messages : dlq[m] > 0 => failed[m] = MaxRetries

NoFault == crashes = 0 /\ redisErrors = 0

\* With no fault and no slow handler, it is handled or buried exactly once and
\* one that is done leaves no retry count behind ("evita vazamento de chaves no
\* Redis", queue.go:359-361).
PromptlyOnce ==
  NoFault /\ slow = 0 =>
    \A m \in Messages :
      /\ handled[m] + dlq[m] <= 1
      /\ place[m] = "acked" /\ ~Held(m) => retries[m] = 0

\* A message is not given up before its attempts are used up, and not handled
\* again when nothing went wrong.
NothingTooEarly == DeadAfterAllRetries /\ PromptlyOnce

\* The queue as its callers count on it: it loses no message, hurries none and
\* repeats none without a reason.
QueueKept == QueueOK /\ NothingTooEarly

\* Every published message is handled or buried in the end, with crashes, lost
\* answers and slow handlers (queue.go:10-17).
EveryMessageEnds ==
  \A m \in Messages : place[m] = "new" ~> (place[m] = "acked" /\ (handled[m] > 0 \/ dlq[m] > 0))

-----------------------------------------------------------------------------
(* What comments of the code say and the model refutes; README names the     *)
(* constants that show it.  No passing run checks these.                      *)

\* With no fault, a message is not handled again after it was handled or
\* buried, even if its handler is slow ("evita double processing de uma
\* mensagem cujo handler demore mais que reclaimIdle", queue.go:282-284).
HandledOnce == NoFault => \A m \in Messages : handled[m] + dlq[m] <= 1
=============================================================================
