---------------------------- MODULE MessagingProofs ----------------------------
(***************************************************************************)
(* Proofs about what carries messages: the event queue between services      *)
(* (EventQueue), and the three ways news reach people, as events on their     *)
(* sockets (StatusSockets), the position of a courier (LiveTracking) and the  *)
(* chat (OrderChat).                                                        *)
(*                                                                         *)
(* The queue, for any number of messages, consumers, crashes and lost       *)
(* answers, loses nothing, and buries or repeats nothing before its time.   *)
(* NothingLost alone is not inductive: a loop about to acknowledge must     *)
(* have a reason to, and Backed says it has one.  For NothingTooEarly the   *)
(* loops' claims must add up: see TurnInv.                                  *)
(*                                                                         *)
(* For people, the invariants say what is still on its way to whom: an event *)
(* has every tab it did not reach yet on its list, a position is to be copied *)
(* or written for every viewer who has not seen it, and who writes to a      *)
(* connection holds its mutex.  The chat's three kinds of mutex never wait in *)
(* a circle, for who holds one stands where he asks only for a later one.    *)
(*                                                                         *)
(* And about the limits on their requests (RequestLimits): what a window let *)
(* through is less than what it counted while the first of the window is     *)
(* still on its way to set its end.                                          *)
(***************************************************************************)
EXTENDS EventQueue, StatusSockets, LiveTracking, OrderChat, RequestLimits, SequenceTheorems,
        FiniteSetTheorems, TLAPS

-----------------------------------------------------------------------------
(* The event queue *)

Backed ==
  \A l \in Loops : /\ At(l, "ack") => handled[cur[l]] > 0
                   /\ At(l, "dead.ack") => dlq[cur[l]] > 0

QueueInv == TypeOK /\ NothingLost /\ Backed

-----------------------------------------------------------------------------
\* A capped counter stays in its range and is positive once it has counted
\* (the attempts that HIncrBy counts, queue.go:383-391).
LEMMA CountedUpToRange ==
  ASSUME NEW bound \in Nat \ {0}, NEW n \in 0..bound
  PROVE  CountedUpTo(n, bound) \in 0..bound /\ CountedUpTo(n, bound) > 0
BY DEF CountedUpTo

\* What Redis hands out comes from the set it was asked for (XReadGroup and
\* XPendingExt, queue.go:312-318 and 437-444).
LEMMA FirstsSubset ==
  ASSUME NEW S, NEW n PROVE Firsts(S, n) \subseteq S
BY DEF Firsts

\* The initial state satisfies the invariant.
LEMMA QueueStarts == Init => QueueInv
BY QueueAssumption DEF Init, QueueInv, TypeOK, NothingLost, Backed, At, Places, Steps,
     Loops, Messages, NoMessage

-----------------------------------------------------------------------------
\* A delivery makes messages fresh that were new or pending, never acknowledged.
LEMMA DeliverInv ==
  ASSUME QueueInv, NEW l \in Loops, NEW S \in SUBSET Messages,
         \A m \in S : place[m] # "acked", Deliver(l, S)
  PROVE  QueueInv'
<1>1. TypeOK'
  <2>1. place' \in [Messages -> Places]
    BY DEF QueueInv, TypeOK, Deliver, Places
  <2>2. batch' \in [Loops -> SUBSET Messages]
    BY DEF QueueInv, TypeOK, Deliver
  <2>3. redisErrors' \in 0..MaxRedisErrors
    BY QueueAssumption DEF QueueInv, TypeOK, Deliver, Answered, Failed
  <2> QED BY <2>1, <2>2, <2>3 DEF QueueInv, TypeOK, Deliver
<1>2. NothingLost'
  BY DEF QueueInv, TypeOK, NothingLost, Deliver
<1>3. Backed'
  BY DEF QueueInv, Backed, At, Deliver
<1> QED BY <1>1, <1>2, <1>3 DEF QueueInv

\* Every step preserves the invariant.
LEMMA QueueSteps == QueueInv /\ [Next]_vars => QueueInv'
<1> SUFFICES ASSUME QueueInv, [Next]_vars PROVE QueueInv'
  OBVIOUS
<1> USE QueueAssumption
<1>1. ASSUME NEW m \in Messages, Publish(m) PROVE QueueInv'
  <2>1. TypeOK'
    BY <1>1 DEF QueueInv, TypeOK, Publish, Places, loopVars
  <2>2. NothingLost' /\ Backed'
    BY <1>1 DEF QueueInv, TypeOK, NothingLost, Backed, At, Publish, loopVars
  <2> QED BY <2>1, <2>2 DEF QueueInv
<1>2. ASSUME NEW m \in Messages, Age(m) \/ AgeWhileHandling(m) PROVE QueueInv'
  <2>1. TypeOK'
    BY <1>2 DEF QueueInv, TypeOK, Age, AgeWhileHandling, Aged, Places, loopVars
  <2>2. NothingLost' /\ Backed'
    BY <1>2 DEF QueueInv, TypeOK, NothingLost, Backed, At, Age, AgeWhileHandling, Aged, loopVars
  <2> QED BY <2>1, <2>2 DEF QueueInv
<1>3. ASSUME NEW c \in Consumers, Read(c) PROVE QueueInv'
  <2> DEFINE S == Firsts(In("new"), ReadCount)
  <2>1. S \in SUBSET Messages /\ \A m \in S : place[m] # "acked"
    BY FirstsSubset DEF In
  <2>2. <<c, "run">> \in Loops /\ Deliver(<<c, "run">>, S)
    BY <1>3 DEF Read, Loops
  <2> QED BY <2>1, <2>2, DeliverInv
<1>4. ASSUME NEW c \in Consumers, Reclaim(c) PROVE QueueInv'
  <2> DEFINE S == Firsts(Pending, ListCount) \cap In("stale")
  <2>1. S \in SUBSET Messages /\ \A m \in S : place[m] # "acked"
    BY DEF In
  <2>2. <<c, "reclaim">> \in Loops /\ Deliver(<<c, "reclaim">>, S)
    BY <1>4 DEF Reclaim, Loops
  <2> QED BY <2>1, <2>2, DeliverInv
<1>5. ASSUME NEW c \in Consumers, Crash(c) PROVE QueueInv'
  <2>1. TypeOK'
    BY <1>5 DEF QueueInv, TypeOK, Crash, Steps
  <2>2. NothingLost' /\ Backed'
    BY <1>5 DEF QueueInv, TypeOK, NothingLost, Backed, At, Crash
  <2> QED BY <2>1, <2>2 DEF QueueInv
<1>6. ASSUME NEW l \in Loops, Take(l) PROVE QueueInv'
  <2>1. TypeOK'
    BY <1>6, FirstsSubset DEF QueueInv, TypeOK, Take, Steps
  <2>2. NothingLost' /\ Backed'
    BY <1>6 DEF QueueInv, TypeOK, NothingLost, Backed, At, Take
  <2> QED BY <2>1, <2>2 DEF QueueInv
<1>7. ASSUME NEW l \in Loops, Handle(l) PROVE QueueInv'
  <2>1. cur[l] \in Messages
    BY <1>7 DEF QueueInv, TypeOK, Handle, At
  <2>2. /\ CountedUpTo(handled[cur[l]], 2) \in 0..2
        /\ CountedUpTo(handled[cur[l]], 2) > 0
        /\ CountedUpTo(failed[cur[l]], MaxRetries) \in 0..MaxRetries
    <3>1. 2 \in Nat \ {0} /\ MaxRetries \in Nat \ {0}
      OBVIOUS
    <3>2. handled[cur[l]] \in 0..2 /\ failed[cur[l]] \in 0..MaxRetries
      BY <2>1 DEF QueueInv, TypeOK
    <3> QED BY ONLY <3>1, <3>2, CountedUpToRange
  <2>3. TypeOK'
    BY <1>7, <2>1, <2>2 DEF QueueInv, TypeOK, Handle, Goto, Steps
  <2>4. NothingLost'
    BY <1>7, <2>1, <2>2 DEF QueueInv, TypeOK, NothingLost, Handle
  <2>5. Backed'
    BY <1>7, <2>1, <2>2 DEF QueueInv, TypeOK, Backed, At, Handle, Goto
  <2> QED BY <2>3, <2>4, <2>5 DEF QueueInv
<1>8. ASSUME NEW l \in Loops, Ack(l) \/ BuryAck(l) PROVE QueueInv'
  <2>1. cur[l] \in Messages
    BY <1>8 DEF QueueInv, TypeOK, Ack, BuryAck, At
  <2>2. handled[cur[l]] > 0 \/ dlq[cur[l]] > 0
    BY <1>8 DEF QueueInv, Backed, Ack, BuryAck
  <2>3. TypeOK'
    BY <1>8, <2>1 DEF QueueInv, TypeOK, Ack, BuryAck, XAck, Goto, Return, Answered, Failed,
         Places, Steps
  <2>4. NothingLost'
    BY <1>8, <2>1, <2>2 DEF QueueInv, TypeOK, NothingLost, Ack, BuryAck, XAck
  <2>5. Backed'
    BY <1>8, <2>1 DEF QueueInv, TypeOK, Backed, At, Ack, BuryAck, Goto, Return
  <2> QED BY <2>3, <2>4, <2>5 DEF QueueInv
<1>9. ASSUME NEW l \in Loops, Clear(l) PROVE QueueInv'
  <2>1. TypeOK'
    BY <1>9 DEF QueueInv, TypeOK, Clear, HDel, Return, Answered, Failed, Steps
  <2>2. NothingLost' /\ Backed'
    BY <1>9 DEF QueueInv, TypeOK, NothingLost, Backed, At, Clear, Return
  <2> QED BY <2>1, <2>2 DEF QueueInv
<1>10. ASSUME NEW l \in Loops, Count(l) PROVE QueueInv'
  <2>1. cur[l] \in Messages
    BY <1>10 DEF QueueInv, TypeOK, Count, At
  <2>2. CountedUpTo(retries[cur[l]], MaxRetries + 1) \in 0..MaxRetries + 1
    BY <2>1, CountedUpToRange DEF QueueInv, TypeOK
  <2>3. TypeOK'
    BY <1>10, <2>1, <2>2 DEF QueueInv, TypeOK, Count, Goto, Return, Answered, Failed, Steps
  <2>4. NothingLost' /\ Backed'
    BY <1>10 DEF QueueInv, TypeOK, NothingLost, Backed, At, Count, Goto, Return
  <2> QED BY <2>3, <2>4 DEF QueueInv
<1>11. ASSUME NEW l \in Loops, Bury(l) PROVE QueueInv'
  <2>1. cur[l] \in Messages
    BY <1>11 DEF QueueInv, TypeOK, Bury, At
  <2>2. CountedUpTo(dlq[cur[l]], 2) \in 0..2 /\ CountedUpTo(dlq[cur[l]], 2) > 0
    <3>1. 2 \in Nat \ {0} /\ dlq[cur[l]] \in 0..2
      BY <2>1 DEF QueueInv, TypeOK
    <3> QED BY ONLY <3>1, CountedUpToRange
  <2>3. TypeOK'
    BY <1>11, <2>1, <2>2 DEF QueueInv, TypeOK, Bury, Goto, Return, Answered, Failed, Steps
  <2>4. NothingLost'
    BY <1>11, <2>1, <2>2 DEF QueueInv, TypeOK, NothingLost, Bury
  <2>5. Backed'
    BY <1>11, <2>1, <2>2 DEF QueueInv, TypeOK, Backed, At, Bury, Goto, Return
  <2> QED BY <2>3, <2>4, <2>5 DEF QueueInv
<1>12. CASE UNCHANGED vars
  BY <1>12 DEF QueueInv, TypeOK, NothingLost, Backed, At, vars, loopVars
<1> QED
  BY <1>1, <1>2, <1>3, <1>4, <1>5, <1>6, <1>7, <1>8, <1>9, <1>10, <1>11, <1>12
     DEF Next, Process

-----------------------------------------------------------------------------
\* The queue keeps its types and a message leaves the group only handled or
\* buried, whichever calls fail, whoever dies and however slow the handlers are
\* (process and handleFailure, queue.go:346-418).
THEOREM QueueLosesNothing == Spec => []QueueOK
<1>1. QueueInv => QueueOK
  BY DEF QueueInv, QueueOK
<1> QED BY <1>1, QueueStarts, QueueSteps, PTL DEF Spec

-----------------------------------------------------------------------------
(* Nothing too early.  An attempt is counted after its handler failed, so the *)
(* counter of a message and the loops on their way to count it are together    *)
(* no more than the failures, as long as those are below the limit.             *)

Counting(m) == {l \in Loops : At(l, "count") /\ cur[l] = m}

CountsFailures(m) ==
  /\ IsFiniteSet(Counting(m))
  /\ failed[m] < MaxRetries => retries[m] + Cardinality(Counting(m)) <= failed[m]
  /\ dlq[m] > 0 => failed[m] = MaxRetries

DeadLater == \A l \in Loops : At(l, "dead") => failed[cur[l]] = MaxRetries

RetryInv == DeadLater /\ \A m \in Messages : CountsFailures(m)

LEMMA CountingCard ==
  ASSUME NEW m, IsFiniteSet(Counting(m)) PROVE Cardinality(Counting(m)) \in Nat
BY FS_CardinalityType

\* A message nobody new counts, whose counter grew no more and whose failures no less.
LEMMA CountsStay ==
  ASSUME TypeOK, TypeOK', NEW m \in Messages, CountsFailures(m), Counting(m)' \subseteq Counting(m),
         retries'[m] <= retries[m], UNCHANGED failed, dlq'[m] = dlq[m]
  PROVE  CountsFailures(m)'
<1>1. IsFiniteSet(Counting(m)) /\ Cardinality(Counting(m)) \in Nat
  BY CountingCard DEF CountsFailures
<1>2. IsFiniteSet(Counting(m)') /\ Cardinality(Counting(m)') <= Cardinality(Counting(m))
  BY <1>1, FS_Subset
<1>3. Cardinality(Counting(m)') \in Nat
  BY <1>2, FS_CardinalityType
<1>4. /\ retries[m] \in Nat /\ retries'[m] \in Nat /\ failed[m] \in Nat /\ failed'[m] = failed[m]
  BY QueueAssumption DEF TypeOK
<1> QED BY <1>1, <1>2, <1>3, <1>4 DEF CountsFailures

\* A step after which no loop is counting that was not, and no loop is to bury.
LEMMA RetryStays ==
  ASSUME QueueInv, QueueInv', RetryInv, UNCHANGED <<failed, dlq>>,
         \A m \in Messages : retries'[m] <= retries[m],
         \A l \in Loops : At(l, "count")' \/ At(l, "dead")' => pc'[l] = pc[l] /\ cur'[l] = cur[l]
  PROVE  RetryInv'
<1>1. ASSUME NEW m \in Messages PROVE CountsFailures(m)'
  <2>1. Counting(m)' \subseteq Counting(m)
    BY DEF Counting, At
  <2> QED BY <2>1, CountsStay DEF QueueInv, RetryInv
<1>2. DeadLater'
  BY DEF RetryInv, DeadLater, At
<1> QED BY <1>1, <1>2 DEF RetryInv

LEMMA HandleRetry ==
  ASSUME QueueInv, QueueInv', RetryInv, NEW l \in Loops, Handle(l)
  PROVE  RetryInv'
<1>0. PICK m \in Messages : m = cur[l]
  BY DEF QueueInv, TypeOK, Handle, At
<1>1. /\ m = cur[l] /\ At(l, "handle") /\ UNCHANGED <<retries, dlq, cur>> /\ TypeOK /\ TypeOK'
      /\ \A k \in Loops : k # l => pc'[k] = pc[k]
  BY <1>0 DEF QueueInv, TypeOK, Handle, At, Goto
<1>2. CASE Goto(l, "ack") /\ UNCHANGED failed
  <2>1. \A k \in Loops : At(k, "count")' \/ At(k, "dead")' => pc'[k] = pc[k] /\ cur'[k] = cur[k]
    BY <1>1, <1>2 DEF At, Goto, TypeOK
  <2>2. \A n \in Messages : retries'[n] <= retries[n]
    BY <1>1, QueueAssumption DEF TypeOK
  <2> QED BY <1>1, <1>2, <2>1, <2>2, RetryStays
<1>3. CASE Goto(l, "count") /\ failed' = [failed EXCEPT ![m] = CountedUpTo(@, MaxRetries)]
  <2>1. /\ pc'[l] = "count" /\ m = cur[l] /\ MaxRetries \in Nat
        /\ \A n \in Messages : failed[n] \in 0..MaxRetries /\ retries[n] \in Nat
    BY <1>1, <1>3, QueueAssumption DEF Goto, TypeOK
  <2>2. failed'[m] = CountedUpTo(failed[m], MaxRetries) /\ \A n \in Messages : n # m => failed'[n] = failed[n]
    BY <1>1, <1>3 DEF TypeOK
  <2>3. ASSUME NEW n \in Messages PROVE CountsFailures(n)'
    <3>1. IsFiniteSet(Counting(n)) /\ Cardinality(Counting(n)) \in Nat /\ CountsFailures(n)
      BY CountingCard DEF CountsFailures, RetryInv
    <3>2. CASE n # m
      <4>1. Counting(n)' = Counting(n)
        BY <1>1, <2>1, <3>2 DEF Counting, At
      <4> QED BY <1>1, <2>2, <3>1, <3>2, <4>1 DEF CountsFailures
    <3>3. CASE n = m
      <4>1. Counting(m)' = Counting(m) \cup {l} /\ l \notin Counting(m)
        BY <1>1, <2>1 DEF Counting, At
      <4>2. IsFiniteSet(Counting(m)') /\ Cardinality(Counting(m)') = Cardinality(Counting(m)) + 1
        BY <3>1, <3>3, <4>1, FS_AddElement
      <4>3. /\ failed'[m] < MaxRetries => failed[m] < MaxRetries /\ failed'[m] = failed[m] + 1
            /\ failed[m] = MaxRetries => failed'[m] = MaxRetries
        BY <1>1, <2>1, <2>2 DEF CountedUpTo
      <4>4. /\ retries'[m] = retries[m] /\ retries[m] \in Nat /\ dlq'[m] = dlq[m]
            /\ failed[m] \in Nat /\ failed'[m] \in Nat
        BY <1>1, <2>1 , QueueAssumption DEF TypeOK
      <4> QED BY <3>1, <3>3, <4>2, <4>3, <4>4 DEF CountsFailures
    <3> QED BY <3>2, <3>3
  <2>4. DeadLater'
    <3> SUFFICES ASSUME NEW k \in Loops, At(k, "dead")' PROVE failed'[cur[k]] = MaxRetries
      BY <1>1 DEF DeadLater
    <3>1. At(k, "dead") /\ cur[k] \in Messages /\ failed[cur[k]] = MaxRetries
      BY <1>1, <2>1 DEF At, RetryInv, DeadLater, TypeOK
    <3> QED BY <1>1, <2>1, <2>2, <3>1 DEF CountedUpTo
  <2> QED BY <2>3, <2>4 DEF RetryInv
<1> QED BY <1>1, <1>2, <1>3 DEF Handle

LEMMA CountRetry ==
  ASSUME QueueInv, QueueInv', RetryInv, NEW l \in Loops, Count(l)
  PROVE  RetryInv'
<1>0. PICK m \in Messages : m = cur[l]
  BY DEF QueueInv, TypeOK, Count, At
<1>c. PICK counted : counted = CountedUpTo(retries[m], MaxRetries + 1)
  OBVIOUS
<1>1. /\ m = cur[l] /\ At(l, "count") /\ UNCHANGED <<dlq, failed>> /\ TypeOK /\ TypeOK'
      /\ \A k \in Loops : k # l => pc'[k] = pc[k] /\ cur'[k] = cur[k]
  BY <1>0 DEF QueueInv, TypeOK, Count, At, Goto, Return
<1>2. /\ retries' \in {retries, [retries EXCEPT ![m] = counted]}
      /\ \/ pc'[l] = "dead" /\ cur'[l] = m /\ IsLast(counted)
         \/ pc'[l] = "idle"
  BY <1>1, <1>c DEF Count, Goto, Return, TypeOK
<1>3. /\ MaxRetries \in Nat /\ retries[m] \in 0..MaxRetries + 1 /\ failed[m] \in 0..MaxRetries
      /\ \A n \in Messages : retries[n] \in Nat
  BY <1>1, QueueAssumption DEF TypeOK
<1>4. counted <= retries[m] + 1 /\ counted \in Nat
  BY <1>c, <1>3 DEF CountedUpTo
<1>5. /\ \A n \in Messages : n # m => retries'[n] = retries[n]
      /\ retries'[m] \in Nat /\ retries'[m] <= retries[m] + 1
  BY <1>1, <1>2, <1>3, <1>4 DEF TypeOK
<1>6. l \in Counting(m) /\ cur[l] = m
  BY <1>1 DEF Counting
<1>7. /\ IsFiniteSet(Counting(m)) /\ Cardinality(Counting(m)) \in Nat /\ CountsFailures(m)
      /\ Cardinality(Counting(m)) > 0
  <2>1. IsFiniteSet(Counting(m)) /\ Cardinality(Counting(m)) \in Nat /\ CountsFailures(m)
    BY <1>1, CountingCard DEF CountsFailures, RetryInv
  <2>2. Cardinality(Counting(m)) # 0
    BY <1>6, <2>1, FS_EmptySet
  <2> QED BY <2>1, <2>2
<1>8. CountsFailures(m)'
  <2>1. Counting(m)' = Counting(m) \ {l}
    BY <1>1, <1>2 DEF Counting, At
  <2>2. IsFiniteSet(Counting(m)') /\ Cardinality(Counting(m)') = Cardinality(Counting(m)) - 1
    BY <1>6, <1>7, <2>1, FS_RemoveElement
  <2> QED BY <1>1, <1>3, <1>5, <1>7, <2>2 DEF CountsFailures
<1>9. ASSUME NEW n \in Messages, n # m PROVE CountsFailures(n)'
  <2>1. Counting(n)' \subseteq Counting(n)
    BY <1>1, <1>2 DEF Counting, At
  <2> QED BY <1>1, <1>3, <1>5, <1>9, <2>1, CountsStay DEF RetryInv
<1>10. DeadLater'
  <2> SUFFICES ASSUME NEW k \in Loops, At(k, "dead")' PROVE failed'[cur'[k]] = MaxRetries
    BY DEF DeadLater
  <2>1. CASE k # l
    BY <1>1, <2>1 DEF RetryInv, DeadLater, At
  <2>2. CASE k = l
    <3>1. IsLast(counted) /\ cur'[k] = m
      BY <1>2, <2>2 DEF At
    <3>2. ~(failed[m] < MaxRetries)
      BY <1>3, <1>4, <1>7, <3>1 DEF CountsFailures, IsLast
    <3> QED BY <1>1, <1>3, <3>1, <3>2
  <2> QED BY <2>1, <2>2
<1> QED BY <1>8, <1>9, <1>10 DEF RetryInv

LEMMA BuryRetry ==
  ASSUME QueueInv, QueueInv', RetryInv, NEW l \in Loops, Bury(l)
  PROVE  RetryInv'
<1>0. PICK m \in Messages : m = cur[l]
  BY DEF QueueInv, TypeOK, Bury, At
<1>1. /\ m = cur[l] /\ At(l, "dead") /\ UNCHANGED <<retries, failed>> /\ TypeOK /\ TypeOK'
      /\ \A k \in Loops : k # l => pc'[k] = pc[k] /\ cur'[k] = cur[k]
      /\ pc'[l] \in {"dead.ack", "idle"}
  BY <1>0 DEF QueueInv, TypeOK, Bury, At, Goto, Return
<1>2. failed[m] = MaxRetries
  BY <1>1 DEF RetryInv, DeadLater
<1>3. \A n \in Messages : n # m => dlq'[n] = dlq[n]
  BY <1>1 DEF Bury, TypeOK
<1>4. \A n \in Messages : retries'[n] <= retries[n]
  BY <1>1, QueueAssumption DEF TypeOK
<1>5. ASSUME NEW n \in Messages PROVE CountsFailures(n)'
  <2>1. Counting(n)' \subseteq Counting(n) /\ CountsFailures(n)
    BY <1>1 DEF Counting, At, RetryInv
  <2>2. CASE n # m
    BY <1>1, <1>3, <1>4, <2>1, <2>2, CountsStay
  <2>3. CASE n = m
    <3>1. IsFiniteSet(Counting(n)')
      BY <2>1, FS_Subset DEF CountsFailures
    <3> QED BY <1>1, <1>2, <2>3, <3>1, QueueAssumption DEF CountsFailures
  <2> QED BY <2>2, <2>3
<1>6. DeadLater'
  BY <1>1 DEF RetryInv, DeadLater, At
<1> QED BY <1>5, <1>6 DEF RetryInv

LEMMA NextRetry ==
  ASSUME QueueInv, RetryInv, [Next]_vars PROVE QueueInv' /\ RetryInv'
<1> USE QueueAssumption
<1>1. QueueInv' /\ TypeOK /\ TypeOK'
  BY QueueSteps DEF QueueInv
<1>2. ASSUME UNCHANGED <<failed, dlq, retries, pc, cur>> PROVE RetryInv'
  BY <1>1, <1>2, RetryStays DEF TypeOK
<1>3. ASSUME NEW m \in Messages, Publish(m) \/ Age(m) \/ AgeWhileHandling(m) PROVE RetryInv'
  BY <1>2, <1>3 DEF Publish, Age, AgeWhileHandling, loopVars
<1>4. ASSUME NEW c \in Consumers, Read(c) \/ Reclaim(c) PROVE RetryInv'
  BY <1>2, <1>4 DEF Read, Reclaim, Deliver
<1>5. ASSUME NEW c \in Consumers, Crash(c) PROVE RetryInv'
  <2>1. \A l \in Loops : At(l, "count")' \/ At(l, "dead")' => pc'[l] = pc[l] /\ cur'[l] = cur[l]
    BY <1>5 DEF Crash, At
  <2>2. \A m \in Messages : retries'[m] <= retries[m]
    BY <1>1, <1>5 DEF Crash, TypeOK
  <2> QED BY <1>1, <1>5, <2>1, <2>2, RetryStays DEF Crash
<1>6. ASSUME NEW l \in Loops, Take(l) \/ Ack(l) \/ Clear(l) \/ BuryAck(l) PROVE RetryInv'
  <2>1. /\ \A k \in Loops : k # l => pc'[k] = pc[k] /\ cur'[k] = cur[k]
        /\ pc'[l] \notin {"count", "dead"} /\ UNCHANGED <<failed, dlq>>
    BY <1>1, <1>6 DEF Take, Ack, Clear, BuryAck, Goto, Return, TypeOK
  <2>2. \A m \in Messages : retries'[m] <= retries[m]
    <3>1. ASSUME NEW k, HDel(k) PROVE \A m \in Messages : retries'[m] <= retries[m]
      BY <1>1, <3>1 DEF HDel, TypeOK
    <3>2. ASSUME UNCHANGED retries PROVE \A m \in Messages : retries'[m] <= retries[m]
      BY <1>1, <3>2 DEF TypeOK
    <3> QED BY <1>6, <3>1, <3>2 DEF Take, Ack, Clear, BuryAck
  <2> QED BY <1>1, <2>1, <2>2, RetryStays DEF At
<1>7. ASSUME UNCHANGED vars PROVE RetryInv'
  BY <1>2, <1>7 DEF vars, loopVars
<1>8. RetryInv'
  BY <1>1, <1>3, <1>4, <1>5, <1>6, <1>7, HandleRetry, CountRetry, BuryRetry DEF Next, Process
<1> QED BY <1>1, <1>8

LEMMA InitRetry == Init => RetryInv
<1> SUFFICES ASSUME Init PROVE RetryInv
  OBVIOUS
<1>1. \A m : Counting(m) = {}
  BY DEF Init, Counting, At
<1>2. \A m : IsFiniteSet(Counting(m)) /\ Cardinality(Counting(m)) = 0
  BY <1>1, FS_EmptySet
<1> QED BY <1>2, QueueAssumption DEF RetryInv, CountsFailures, DeadLater, At, Init

-----------------------------------------------------------------------------
(* While no call failed, nobody died and no handler was slow, a message has    *)
(* one holder at a time, and where it is and what its holder is about to do     *)
(* say whether it was handled or buried.                                       *)

Quiet == NoFault /\ slow = 0

UntouchedYet(m) == handled[m] = 0 /\ dlq[m] = 0
HandledThen(m)  == handled[m] = 1 /\ dlq[m] = 0
BuriedThen(m)   == handled[m] = 0 /\ dlq[m] = 1

\* What a loop that holds a message knows of it.
HolderKnows(l, m) ==
  /\ m \in batch[l] => cur[l] # m /\ place[m] = "fresh" /\ UntouchedYet(m)
  /\ cur[l] = m =>
       \/ pc[l] \in {"handle", "count", "dead"} /\ place[m] = "fresh" /\ UntouchedYet(m)
       \/ pc[l] = "ack" /\ place[m] = "fresh" /\ HandledThen(m)
       \/ pc[l] = "dead.ack" /\ place[m] = "fresh" /\ BuriedThen(m)
       \/ pc[l] = "clear" /\ place[m] = "acked" /\ HandledThen(m)
       \/ pc[l] = "dead.clear" /\ place[m] = "acked" /\ BuriedThen(m)

OneHolder(m) == \A k, l \in Loops : Holds(k, m) /\ Holds(l, m) => k = l

OncePerMessage(m) ==
  /\ OneHolder(m)
  /\ \A l \in Loops : HolderKnows(l, m)
  /\ ~Held(m) /\ place[m] # "acked" => UntouchedYet(m)
  /\ place[m] = "acked" => HandledThen(m) \/ BuriedThen(m)
  /\ place[m] = "acked" /\ ~Held(m) => retries[m] = 0

PromptInv ==
  /\ \A l \in Loops : pc[l] = "idle" => cur[l] = NoMessage
  /\ Quiet => \A m \in Messages : OncePerMessage(m)

\* A message nothing happened to.
LEMMA OnceStays ==
  ASSUME NEW m \in Messages, OncePerMessage(m), place'[m] = place[m], retries'[m] = retries[m],
         handled'[m] = handled[m], dlq'[m] = dlq[m],
         \A l \in Loops : /\ cur'[l] = m <=> cur[l] = m
                          /\ m \in batch'[l] <=> m \in batch[l]
                          /\ cur'[l] = m => pc'[l] = pc[l]
  PROVE  OncePerMessage(m)'
<1>1. \A l \in Loops : (Holds(l, m)' <=> Holds(l, m)) /\ (HolderKnows(l, m) => HolderKnows(l, m)')
  BY DEF Holds, HolderKnows, UntouchedYet, HandledThen, BuriedThen
<1>2. Held(m)' <=> Held(m)
  BY <1>1 DEF Held
<1> QED BY <1>1, <1>2 DEF OncePerMessage, OneHolder, UntouchedYet, HandledThen, BuriedThen

\* A step of one loop with the message it works on: the others do not hold it.
LEMMA OnceMoves ==
  ASSUME NEW m \in Messages, OncePerMessage(m), NEW l \in Loops, Holds(l, m),
         \A k \in Loops : k # l => cur'[k] = cur[k] /\ batch'[k] = batch[k],
         HolderKnows(l, m)',
         ~Holds(l, m)' /\ place'[m] # "acked" => UntouchedYet(m)',
         place'[m] = "acked" => HandledThen(m)' \/ BuriedThen(m)',
         place'[m] = "acked" /\ ~Holds(l, m)' => retries'[m] = 0
  PROVE  OncePerMessage(m)'
<1>1. \A k \in Loops : k # l => ~Holds(k, m) /\ ~Holds(k, m)'
  BY DEF OncePerMessage, OneHolder, Holds
<1>2. \A k \in Loops : HolderKnows(k, m)'
  BY <1>1 DEF Holds, HolderKnows
<1>3. Held(m)' <=> Holds(l, m)'
  BY <1>1 DEF Held
<1> QED BY <1>1, <1>2, <1>3 DEF OncePerMessage, OneHolder

LEMMA DeliverPrompt ==
  ASSUME QueueInv, PromptInv, NEW l \in Loops, NEW S \in SUBSET Messages, At(l, "idle"), batch[l] = {},
         \A m \in S : place[m] \in {"new", "stale"}, Deliver(l, S)
  PROVE  PromptInv'
<1>1. /\ UNCHANGED <<retries, dlq, handled, failed, pc, cur, slow, crashes>> /\ TypeOK
      /\ place' = [m \in Messages |-> IF m \in S THEN "fresh" ELSE place[m]]
      /\ cur[l] = NoMessage
  BY DEF Deliver, QueueInv, PromptInv, At
<1>2. \A k \in Loops : pc'[k] = "idle" => cur'[k] = NoMessage
  BY <1>1 DEF PromptInv
<1>3. ASSUME Quiet', NEW m \in Messages PROVE OncePerMessage(m)'
  <2>1. Quiet /\ batch' = [batch EXCEPT ![l] = S]
    BY <1>1, <1>3 DEF Deliver, Failed, Answered, TypeOK, Quiet, NoFault
  <2>2. OncePerMessage(m)
    BY <2>1 DEF PromptInv
  <2>3. \A k \in Loops : batch'[k] = IF k = l THEN S ELSE batch[k]
    BY <1>1, <2>1 DEF TypeOK
  <2>4. CASE m \notin S
    BY <1>1, <2>2, <2>3, <2>4, OnceStays
  <2>5. CASE m \in S
    <3>1. \A k \in Loops : ~Holds(k, m)
      BY <2>2, <2>5 DEF OncePerMessage, HolderKnows, Holds
    <3>2. UntouchedYet(m) /\ place'[m] = "fresh"
      BY <1>1, <2>2, <2>5, <3>1 DEF OncePerMessage, Held
    <3>3. \A k \in Loops : Holds(k, m)' <=> k = l
      BY <1>1, <2>3, <2>5, <3>1 DEF Holds
    <3>4. \A k \in Loops : HolderKnows(k, m)'
      BY <1>1, <2>3, <2>5, <3>1, <3>2 DEF Holds, HolderKnows, UntouchedYet
    <3>5. Held(m)'
      BY <3>3 DEF Held
    <3> QED BY <3>2, <3>3, <3>4, <3>5 DEF OncePerMessage, OneHolder
  <2> QED BY <2>4, <2>5
<1> QED BY <1>2, <1>3 DEF PromptInv

LEMMA QueuePrompt ==
  ASSUME QueueInv, PromptInv, NEW m \in Messages, Publish(m) \/ Age(m) \/ AgeWhileHandling(m)
  PROVE  PromptInv'
<1>1. /\ UNCHANGED <<retries, dlq, handled, pc, cur, batch, crashes, redisErrors>> /\ TypeOK
      /\ \A n \in Messages : n # m => place'[n] = place[n]
  BY DEF Publish, Age, AgeWhileHandling, Aged, loopVars, QueueInv, TypeOK
<1>2. ASSUME Quiet', NEW n \in Messages PROVE OncePerMessage(n)'
  <2>1. Quiet
    BY <1>1, <1>2, QueueAssumption DEF Quiet, NoFault, AgeWhileHandling, Publish, Age, TypeOK
  <2>2. OncePerMessage(n)
    BY <2>1 DEF PromptInv
  <2>3. CASE n # m
    BY <1>1, <2>2, <2>3, OnceStays
  <2>4. CASE n = m
    <3>1. ~AgeWhileHandling(m)
      BY <1>1, <1>2, <2>1 DEF AgeWhileHandling, Quiet, TypeOK
    <3>2. place[m] \in {"unpublished", "fresh"} /\ place'[m] \in {"new", "stale"}
      BY <1>1, <3>1 DEF Publish, Age, Aged, TypeOK
    <3>3. \A k \in Loops : ~Holds(k, m)
      BY <2>2, <2>4, <3>1 DEF Publish, Age, Held, OncePerMessage, HolderKnows, Holds
    <3>4. UntouchedYet(m)
      BY <2>2, <2>4, <3>2, <3>3 DEF OncePerMessage, Held
    <3>5. \A k \in Loops : ~Holds(k, m)' /\ HolderKnows(k, m)'
      BY <1>1, <3>3 DEF Holds, HolderKnows
    <3> QED BY <1>1, <2>4, <3>2, <3>4, <3>5 DEF OncePerMessage, OneHolder, Held, UntouchedYet
  <2> QED BY <2>3, <2>4
<1> QED BY <1>1, <1>2 DEF PromptInv

LEMMA TakePrompt ==
  ASSUME QueueInv, PromptInv, NEW l \in Loops, Take(l)
  PROVE  PromptInv'
<1>1. PICK m \in Messages :
        /\ m \in batch[l] /\ At(l, "idle") /\ cur[l] = NoMessage
        /\ pc' = [pc EXCEPT ![l] = "handle"] /\ cur' = [cur EXCEPT ![l] = m]
        /\ batch' = [batch EXCEPT ![l] = @ \ {m}]
        /\ UNCHANGED <<place, retries, dlq, handled, failed, slow, crashes, redisErrors>>
  BY FirstsSubset DEF Take, QueueInv, TypeOK, PromptInv, At
<1>2. /\ \A k \in Loops : k # l => pc'[k] = pc[k] /\ cur'[k] = cur[k] /\ batch'[k] = batch[k]
      /\ pc'[l] = "handle" /\ cur'[l] = m /\ batch'[l] = batch[l] \ {m}
  BY <1>1 DEF QueueInv, TypeOK
<1>3. ASSUME Quiet', NEW n \in Messages PROVE OncePerMessage(n)'
  <2>1. OncePerMessage(n)
    BY <1>1, <1>3 DEF PromptInv, Quiet, NoFault
  <2>2. CASE n # m
    <3>1. cur[l] # n
      BY <1>1 DEF NoMessage, Messages
    <3> QED BY <1>1, <1>2, <2>1, <2>2, <3>1, OnceStays
  <2>3. CASE n = m
    <3>1. Holds(l, m) /\ Holds(l, m)' /\ place[m] = "fresh" /\ UntouchedYet(m)
      BY <1>1, <1>2, <2>1, <2>3 DEF Holds, OncePerMessage, HolderKnows
    <3>2. HolderKnows(l, m)'
      BY <1>1, <1>2, <3>1 DEF HolderKnows, UntouchedYet
    <3> QED BY <1>1, <1>2, <2>1, <2>3, <3>1, <3>2, OnceMoves
  <2> QED BY <2>2, <2>3
<1>4. \A k \in Loops : pc'[k] = "idle" => cur'[k] = NoMessage
  BY <1>2 DEF PromptInv
<1> QED BY <1>3, <1>4 DEF PromptInv

\* A step inside process: it concerns the message of the loop and no other.
LEMMA ProcessPrompt ==
  ASSUME QueueInv, PromptInv, NEW l \in Loops, NEW m \in Messages, cur[l] = m, pc[l] # "idle",
         \A k \in Loops : k # l => pc'[k] = pc[k] /\ cur'[k] = cur[k], UNCHANGED batch,
         \/ cur'[l] = m /\ pc'[l] # "idle"
         \/ cur'[l] = NoMessage /\ pc'[l] = "idle",
         \A n \in Messages : n # m => /\ place'[n] = place[n] /\ retries'[n] = retries[n]
                                      /\ handled'[n] = handled[n] /\ dlq'[n] = dlq[n],
         Quiet' => Quiet,
         Quiet' /\ OncePerMessage(m) =>
           /\ cur'[l] = m => HolderKnows(l, m)'
           /\ cur'[l] # m /\ place'[m] # "acked" => UntouchedYet(m)'
           /\ place'[m] = "acked" => HandledThen(m)' \/ BuriedThen(m)'
           /\ place'[m] = "acked" /\ cur'[l] # m => retries'[m] = 0
  PROVE  PromptInv'
<1>1. \A k \in Loops : pc'[k] = "idle" => cur'[k] = NoMessage
  BY DEF PromptInv
<1>2. ASSUME Quiet', NEW n \in Messages PROVE OncePerMessage(n)'
  <2>1. OncePerMessage(n) /\ OncePerMessage(m)
    BY <1>2 DEF PromptInv
  <2>2. CASE n # m
    <3>1. cur'[l] # n
      BY <2>2 DEF NoMessage, Messages
    <3> QED BY <2>1, <2>2, <3>1, OnceStays
  <2>3. CASE n = m
    <3>1. m \notin batch[l] /\ Holds(l, m) /\ (Holds(l, m)' <=> cur'[l] = m)
      BY <2>1 DEF OncePerMessage, HolderKnows, Holds
    <3>2. HolderKnows(l, m)'
      BY <1>2, <2>1, <3>1 DEF HolderKnows
    <3> QED BY <1>2, <2>1, <2>3, <3>1, <3>2, OnceMoves
  <2> QED BY <2>2, <2>3
<1> QED BY <1>1, <1>2 DEF PromptInv

\* A call that failed, or an answer that was lost, is a fault.
LEMMA FaultIsLoud ==
  ASSUME QueueInv, Failed PROVE ~Quiet'
BY QueueAssumption DEF QueueInv, TypeOK, Failed, Quiet, NoFault

LEMMA StepsOfProcess ==
  ASSUME QueueInv, PromptInv, NEW l \in Loops, Process(l)
  PROVE  PromptInv'
<1>0. PICK m \in Messages : m = cur[l]
  BY DEF QueueInv, TypeOK, Process, Handle, Ack, Clear, Count, Bury, BuryAck, At
<1>1. /\ cur[l] = m /\ pc[l] # "idle" /\ TypeOK /\ UNCHANGED <<batch, slow, crashes>>
      /\ \A k \in Loops : k # l => pc'[k] = pc[k] /\ cur'[k] = cur[k]
      /\ \/ cur'[l] = m /\ pc'[l] # "idle"
         \/ cur'[l] = NoMessage /\ pc'[l] = "idle"
  BY <1>0 DEF QueueInv, TypeOK, Process, Handle, Ack, Clear, Count, Bury, BuryAck, At, Goto, Return
<1>2. \A n \in Messages : n # m => /\ place'[n] = place[n] /\ retries'[n] = retries[n]
                                   /\ handled'[n] = handled[n] /\ dlq'[n] = dlq[n]
  BY <1>1 DEF TypeOK, Process, Handle, Ack, Clear, Count, Bury, BuryAck, XAck, HDel
<1>3. Quiet' => Quiet /\ ~Failed
  <2>1. redisErrors' = redisErrors \/ Failed
    BY DEF Process, Handle, Ack, Clear, Count, Bury, BuryAck, Answered
  <2> QED BY <1>1, <2>1, FaultIsLoud DEF Quiet, NoFault
<1>4. m # NoMessage
  BY DEF Messages, NoMessage
<1>5. CountedUpTo(0, 2) = 1
  BY DEF CountedUpTo
<1>6. ASSUME Quiet', OncePerMessage(m)
      PROVE  /\ cur'[l] = m => HolderKnows(l, m)'
             /\ cur'[l] # m /\ place'[m] # "acked" => UntouchedYet(m)'
             /\ place'[m] = "acked" => HandledThen(m)' \/ BuriedThen(m)'
             /\ place'[m] = "acked" /\ cur'[l] # m => retries'[m] = 0
  <2>1. ~Failed /\ HolderKnows(l, m) /\ m \notin batch[l]
    BY <1>1, <1>3, <1>6 DEF OncePerMessage, HolderKnows
  <2>2. CASE Handle(l)
    <3>1. place[m] = "fresh" /\ UntouchedYet(m) /\ UNCHANGED <<place, dlq, cur>>
      BY <1>1, <2>1, <2>2 DEF Handle, At, HolderKnows, Goto
    <3>2. \/ handled'[m] = 1 /\ pc'[l] = "ack"
          \/ handled'[m] = 0 /\ pc'[l] = "count"
      BY <1>1, <1>5, <2>2, <3>1 DEF Handle, Goto, UntouchedYet, TypeOK
    <3> QED BY <1>1, <2>1, <3>1, <3>2 DEF HolderKnows, UntouchedYet, HandledThen, BuriedThen
  <2>3. CASE Ack(l)
    <3>1. HandledThen(m) /\ place'[m] = "acked" /\ UNCHANGED <<handled, dlq, cur>> /\ pc'[l] = "clear"
      BY <1>1, <2>1, <2>3 DEF Ack, At, HolderKnows, Goto, XAck, TypeOK
    <3> QED BY <1>1, <2>1, <3>1 DEF HolderKnows, HandledThen
  <2>4. CASE Clear(l)
    <3>1. /\ place[m] = "acked" /\ (HandledThen(m) \/ BuriedThen(m)) /\ UNCHANGED <<handled, dlq, place>>
          /\ cur'[l] = NoMessage /\ retries'[m] = 0
      BY <1>1, <2>1, <2>4 DEF Clear, At, HolderKnows, Return, HDel, TypeOK
    <3> QED BY <1>1, <1>4, <3>1 DEF HandledThen, BuriedThen
  <2>5. CASE Count(l)
    <3>1. /\ place[m] = "fresh" /\ UntouchedYet(m) /\ UNCHANGED <<handled, dlq, place>>
          /\ (pc'[l] = "dead" /\ cur'[l] = m) \/ cur'[l] = NoMessage
      BY <1>1, <2>1, <2>5 DEF Count, At, HolderKnows, Goto, Return, TypeOK
    <3>2. UntouchedYet(m)' /\ place'[m] = "fresh"
      BY <3>1 DEF UntouchedYet
    <3> QED BY <1>1, <1>4, <2>1, <3>1, <3>2 DEF HolderKnows
  <2>6. CASE Bury(l)
    <3>1. /\ place[m] = "fresh" /\ UntouchedYet(m) /\ UNCHANGED <<handled, cur, place>>
          /\ pc'[l] = "dead.ack" /\ dlq'[m] = CountedUpTo(dlq[m], 2)
      BY <1>1, <2>1, <2>6 DEF Bury, At, HolderKnows, Goto, TypeOK
    <3> QED BY <1>1, <1>5, <2>1, <3>1 DEF HolderKnows, UntouchedYet, BuriedThen
  <2>7. CASE BuryAck(l)
    <3>1. BuriedThen(m) /\ place'[m] = "acked" /\ UNCHANGED <<handled, dlq, cur>> /\ pc'[l] = "dead.clear"
      BY <1>1, <2>1, <2>7 DEF BuryAck, At, HolderKnows, Goto, XAck, TypeOK
    <3> QED BY <1>1, <2>1, <3>1 DEF HolderKnows, BuriedThen
  <2> QED BY <2>2, <2>3, <2>4, <2>5, <2>6, <2>7 DEF Process
<1> QED BY <1>1, <1>2, <1>3, <1>6, ProcessPrompt

LEMMA NextPrompt ==
  ASSUME QueueInv, PromptInv, [Next]_vars PROVE PromptInv'
<1>1. ASSUME NEW c \in Consumers, Read(c) PROVE PromptInv'
  <2> DEFINE S == Firsts(In("new"), ReadCount)
  <2>1. S \in SUBSET Messages /\ \A m \in S : place[m] \in {"new", "stale"}
    BY FirstsSubset DEF In
  <2>2. /\ <<c, "run">> \in Loops /\ Deliver(<<c, "run">>, S)
        /\ At(<<c, "run">>, "idle") /\ batch[<<c, "run">>] = {}
    BY <1>1 DEF Read, Loops
  <2> QED BY <2>1, <2>2, DeliverPrompt
<1>2. ASSUME NEW c \in Consumers, Reclaim(c) PROVE PromptInv'
  <2> DEFINE S == Firsts(Pending, ListCount) \cap In("stale")
  <2>1. S \in SUBSET Messages /\ \A m \in S : place[m] \in {"new", "stale"}
    BY DEF In
  <2>2. /\ <<c, "reclaim">> \in Loops /\ Deliver(<<c, "reclaim">>, S)
        /\ At(<<c, "reclaim">>, "idle") /\ batch[<<c, "reclaim">>] = {}
    BY <1>2 DEF Reclaim, Loops
  <2> QED BY <2>1, <2>2, DeliverPrompt
<1>3. ASSUME NEW c \in Consumers, Crash(c) PROVE PromptInv'
  <2>1. ~Quiet'
    BY <1>3, QueueAssumption DEF Crash, Quiet, NoFault, QueueInv, TypeOK
  <2>2. \A l \in Loops : pc'[l] = "idle" => cur'[l] = NoMessage
    BY <1>3 DEF Crash, PromptInv
  <2> QED BY <2>1, <2>2 DEF PromptInv
<1>4. ASSUME UNCHANGED vars PROVE PromptInv'
  <2>1. Quiet' = Quiet /\ UNCHANGED <<place, retries, handled, dlq, cur, batch, pc>>
    BY <1>4 DEF vars, loopVars, Quiet, NoFault
  <2> QED BY <2>1, OnceStays DEF PromptInv
<1> QED BY <1>1, <1>2, <1>3, <1>4, QueuePrompt, TakePrompt, StepsOfProcess DEF Next

LEMMA InitPrompt == Init => PromptInv
BY QueueAssumption DEF Init, PromptInv, Quiet, NoFault, OncePerMessage, OneHolder, HolderKnows, Held, Holds,
     UntouchedYet, Messages, NoMessage

LEMMA PromptlyEnough ==
  ASSUME QueueInv, RetryInv, PromptInv PROVE NothingTooEarly
<1>1. DeadAfterAllRetries
  BY DEF RetryInv, CountsFailures, DeadAfterAllRetries
<1>2. ASSUME Quiet, NEW m \in Messages
      PROVE  handled[m] + dlq[m] <= 1 /\ (place[m] = "acked" /\ ~Held(m) => retries[m] = 0)
  <2>1. OncePerMessage(m)
    BY <1>2 DEF PromptInv
  <2>2. UntouchedYet(m) \/ HandledThen(m) \/ BuriedThen(m)
    BY <2>1 DEF OncePerMessage, HolderKnows, Held, Holds
  <2> QED BY <2>1, <2>2 DEF OncePerMessage, UntouchedYet, HandledThen, BuriedThen
<1> QED BY <1>1, <1>2 DEF NothingTooEarly, PromptlyOnce, Quiet

\* A message is given up only after the handler failed as often as the limit
\* says, and while no call fails, nobody dies and no handler is slow it is
\* handled or buried once and leaves no counter, for any number of messages and
\* consumers (handleFailure and process, queue.go:346-418).
THEOREM QueueWaitsItsTurn == Spec => []NothingTooEarly
<1>1. Init => QueueInv /\ RetryInv /\ PromptInv
  BY QueueStarts, InitRetry, InitPrompt
<1>2. QueueInv /\ RetryInv /\ PromptInv /\ [Next]_vars => QueueInv' /\ RetryInv' /\ PromptInv'
  BY NextRetry, NextPrompt
<1>3. QueueInv /\ RetryInv /\ PromptInv => NothingTooEarly
  BY PromptlyEnough
<1> QED BY <1>1, <1>2, <1>3, PTL DEF Spec

\* The queue keeps all it promises, with any number of messages, consumers, crashes,
\* lost answers and slow handlers.
THEOREM QueueIsKept == Spec => []QueueKept
<1>1. QueueOK /\ NothingTooEarly => QueueKept
  BY DEF QueueKept
<1> QED BY <1>1, QueueLosesNothing, QueueWaitsItsTurn, PTL

-----------------------------------------------------------------------------
(* Lists of connections.                                                        *)

LEMMA ListAppended ==
  ASSUME NEW S, NEW s \in Seq(S), NEW x \in S
  PROVE  /\ Append(s, x) \in Seq(S) /\ Len(Append(s, x)) = Len(s) + 1
         /\ ToSet(Append(s, x)) = ToSet(s) \cup {x}
         /\ x \notin ToSet(s) /\ IsInjective(s) => IsInjective(Append(s, x))
<1>1. /\ Append(s, x) \in Seq(S) /\ Len(Append(s, x)) = Len(s) + 1 /\ Append(s, x)[Len(s) + 1] = x
      /\ \A i \in 1..Len(s) : Append(s, x)[i] = s[i]
  OBVIOUS
<1>2. PICK t : t = Append(s, x)
  OBVIOUS
<1>3. /\ t \in Seq(S) /\ Len(t) = Len(s) + 1 /\ t[Len(s) + 1] = x
      /\ (\A i \in 1..Len(s) : t[i] = s[i]) /\ Len(s) \in Nat
  BY <1>1, <1>2
<1>4. DOMAIN t = 1..(Len(s) + 1) /\ DOMAIN s = 1..Len(s)
  BY <1>3
<1>5. ToSet(t) = ToSet(s) \cup {x}
  <2>1. ASSUME NEW y \in ToSet(t) PROVE y \in ToSet(s) \cup {x}
    BY <1>3, <1>4, <2>1 DEF ToSet
  <2>2. ASSUME NEW y \in ToSet(s) \cup {x} PROVE y \in ToSet(t)
    BY <1>3, <1>4, <2>2 DEF ToSet
  <2> QED  BY <2>1, <2>2
<1>6. x \notin ToSet(s) /\ IsInjective(s) => IsInjective(t)
  BY <1>3, <1>4 DEF ToSet, IsInjective
<1> QED  BY <1>2, <1>3, <1>5, <1>6

LEMMA ListTail ==
  ASSUME NEW S, NEW s \in Seq(S), s # <<>>
  PROVE  /\ Head(s) \in S /\ Tail(s) \in Seq(S) /\ Len(Tail(s)) = Len(s) - 1
         /\ ToSet(s) = ToSet(Tail(s)) \cup {Head(s)}
         /\ IsInjective(s) => IsInjective(Tail(s))
<1>1. /\ Head(s) = s[1] /\ Head(s) \in S /\ Tail(s) \in Seq(S) /\ Len(Tail(s)) = Len(s) - 1
      /\ \A i \in 1..(Len(s) - 1) : Tail(s)[i] = s[i + 1]
  BY HeadTailProperties
<1>2. PICK t : t = Tail(s)
  OBVIOUS
<1>3. Len(s) \in Nat /\ Len(s) # 0
  OBVIOUS
<1>4. DOMAIN t = 1..(Len(s) - 1) /\ DOMAIN s = 1..Len(s)
  BY <1>1, <1>2
<1>5. ToSet(s) = ToSet(t) \cup {Head(s)}
  <2>1. ASSUME NEW y \in ToSet(s) PROVE y \in ToSet(t) \cup {Head(s)}
    <3>1. PICK i \in 1..Len(s) : y = s[i]
      BY <1>4, <2>1 DEF ToSet
    <3>2. CASE i = 1
      BY <1>1, <3>1, <3>2
    <3>3. CASE i # 1
      <4>1. i - 1 \in 1..(Len(s) - 1) /\ i - 1 + 1 = i
        BY <1>3, <3>3
      <4> QED  BY <1>1, <1>2, <1>4, <3>1, <4>1 DEF ToSet
    <3> QED  BY <3>2, <3>3
  <2>2. ASSUME NEW y \in ToSet(t) \cup {Head(s)} PROVE y \in ToSet(s)
    BY <1>1, <1>2, <1>3, <1>4, <2>2 DEF ToSet
  <2> QED  BY <2>1, <2>2
<1>6. IsInjective(s) => IsInjective(t)
  <2> SUFFICES ASSUME IsInjective(s), NEW i \in 1..(Len(s) - 1), NEW j \in 1..(Len(s) - 1), t[i] = t[j]
               PROVE  i = j
    BY <1>4 DEF IsInjective
  <2>1. s[i + 1] = s[j + 1] /\ i + 1 \in 1..Len(s) /\ j + 1 \in 1..Len(s)
    BY <1>1, <1>2, <1>3
  <2> QED  BY <1>3, <1>4, <2>1 DEF IsInjective
<1> QED  BY <1>1, <1>2, <1>5, <1>6

LEMMA ListRemoved ==
  ASSUME NEW S, NEW s \in Seq(S), NEW i \in 1..Len(s), IsInjective(s)
  PROVE  /\ RemoveAt(s, i) \in Seq(S) /\ Len(RemoveAt(s, i)) = Len(s) - 1
         /\ ToSet(RemoveAt(s, i)) = ToSet(s) \ {s[i]} /\ IsInjective(RemoveAt(s, i))
<1>1. PICK a : a = SubSeq(s, 1, i - 1)
  OBVIOUS
<1>2. PICK b : b = SubSeq(s, i + 1, Len(s))
  OBVIOUS
<1>3. PICK t : t = RemoveAt(s, i)
  OBVIOUS
<1>4. Len(s) \in Nat /\ i \in Nat /\ 1 <= i /\ i <= Len(s) /\ DOMAIN s = 1..Len(s) /\ \A j \in 1..Len(s) : s[j] \in S
  OBVIOUS
<1>5. a \in Seq(S) /\ Len(a) = i - 1 /\ \A j \in 1..(i - 1) : a[j] = s[j]
  <2>1. \A j \in 1..(i - 1) : s[j] \in S
    BY <1>4
  <2> QED  BY <1>1, <1>4, <2>1, SubSeqProperties
<1>6. b \in Seq(S) /\ Len(b) = Len(s) - i /\ \A j \in 1..(Len(s) - i) : b[j] = s[i + j]
  <2>1. \A j \in (i + 1)..Len(s) : s[j] \in S
    BY <1>4
  <2>2. /\ b \in Seq(S) /\ Len(b) = IF i + 1 <= Len(s) THEN Len(s) - (i + 1) + 1 ELSE 0
        /\ \A j \in 1..(Len(s) - (i + 1) + 1) : b[j] = s[(i + 1) + j - 1]
    BY <1>2, <1>4, <2>1, SubSeqProperties
  <2>3. ASSUME NEW j \in 1..(Len(s) - i) PROVE b[j] = s[i + j]
    <3>1. j \in 1..(Len(s) - (i + 1) + 1) /\ (i + 1) + j - 1 = i + j
      BY <1>4
    <3>2. b[j] = s[(i + 1) + j - 1]
      BY <2>2, <3>1
    <3> QED  BY <3>1, <3>2
  <2>4. Len(b) = Len(s) - i
    <3>1. CASE i + 1 <= Len(s)
      <4>1. Len(b) = Len(s) - (i + 1) + 1
        BY <2>2, <3>1
      <4> QED  BY <1>4, <4>1
    <3>2. CASE ~(i + 1 <= Len(s))
      <4>1. Len(b) = 0
        BY <2>2, <3>2
      <4>2. i = Len(s)
        <5>1. i \in Int /\ Len(s) \in Int /\ i <= Len(s)
          BY <1>4
        <5> QED  BY <3>2, <5>1
      <4> QED  BY <1>4, <4>1, <4>2
    <3> QED  BY <3>1, <3>2
  <2> QED  BY <2>2, <2>3, <2>4
<1>7. /\ t \in Seq(S) /\ Len(t) = Len(s) - 1
      /\ \A j \in 1..(Len(s) - 1) : t[j] = IF j < i THEN s[j] ELSE s[j + 1]
  <2>1. t = a \o b
    BY <1>1, <1>2, <1>3 DEF RemoveAt
  <2>2. /\ t \in Seq(S) /\ Len(t) = Len(a) + Len(b)
        /\ \A j \in 1..(Len(a) + Len(b)) : t[j] = IF j <= Len(a) THEN a[j] ELSE b[j - Len(a)]
    BY <1>5, <1>6, <2>1, ConcatProperties
  <2>3. Len(a) + Len(b) = Len(s) - 1
    BY <1>4, <1>5, <1>6
  <2>4. ASSUME NEW j \in 1..(Len(s) - 1) PROVE t[j] = IF j < i THEN s[j] ELSE s[j + 1]
    <3>1. CASE j < i
      BY <1>4, <1>5, <2>2, <2>3, <3>1
    <3>2. CASE ~(j < i)
      <4>1. t[j] = b[j - (i - 1)]
        <5>1. j \in 1..(Len(a) + Len(b)) /\ ~(j <= Len(a)) /\ Len(a) = i - 1
          BY <1>4, <1>5, <2>3, <3>2
        <5>2. t[j] = b[j - Len(a)]
          BY <2>2, <5>1
        <5> QED  BY <5>1, <5>2
      <4>2. j - (i - 1) \in 1..(Len(s) - i) /\ i + (j - (i - 1)) = j + 1
        BY <1>4, <3>2
      <4>3. PICK m : m = j - (i - 1)
        OBVIOUS
      <4>4. b[m] = s[i + m] /\ i + m = j + 1 /\ t[j] = b[m]
        BY <1>6, <4>1, <4>2, <4>3
      <4>5. t[j] = s[j + 1]
        BY <4>4
      <4> QED  BY <3>2, <4>5
    <3> QED  BY <3>1, <3>2
  <2> QED  BY <2>2, <2>3, <2>4
<1>8. DOMAIN t = 1..(Len(s) - 1)
  BY <1>7
<1>9. ToSet(t) = ToSet(s) \ {s[i]}
  <2>1. ASSUME NEW y \in ToSet(t) PROVE y \in ToSet(s) \ {s[i]}
    <3>1. PICK j \in 1..(Len(s) - 1) : y = t[j]
      BY <1>8, <2>1 DEF ToSet
    <3>2. PICK m \in 1..Len(s) : y = s[m] /\ m # i
      <4>1. CASE j < i
        <5>1. j \in 1..Len(s) /\ j # i /\ t[j] = s[j]
          BY <1>4, <1>7, <4>1
        <5> QED  BY <3>1, <5>1
      <4>2. CASE ~(j < i)
        <5>1. j + 1 \in 1..Len(s) /\ j + 1 # i /\ y = s[j + 1]
          BY <1>4, <1>7, <3>1, <4>2
        <5> QED  BY <5>1
      <4> QED  BY <4>1, <4>2
    <3> QED  BY <1>4, <3>2 DEF ToSet, IsInjective
  <2>2. ASSUME NEW y \in ToSet(s) \ {s[i]} PROVE y \in ToSet(t)
    <3>1. PICK m \in 1..Len(s) : y = s[m] /\ m # i
      BY <1>4, <2>2 DEF ToSet
    <3>2. \E j \in 1..(Len(s) - 1) : y = t[j]
      <4>1. CASE m < i
        <5>1. m \in 1..(Len(s) - 1) /\ t[m] = s[m]
          BY <1>4, <1>7, <4>1
        <5> QED  BY <3>1, <5>1
      <4>2. CASE ~(m < i)
        <5>1. m - 1 \in 1..(Len(s) - 1) /\ ~(m - 1 < i) /\ m - 1 + 1 = m
          BY <1>4, <3>1, <4>2
        <5>2. t[m - 1] = s[m]
          BY <1>7, <5>1
        <5> QED  BY <3>1, <5>1, <5>2
      <4> QED  BY <4>1, <4>2
    <3> QED  BY <1>8, <3>2 DEF ToSet
  <2> QED  BY <2>1, <2>2
<1>10. IsInjective(t)
  <2> SUFFICES ASSUME NEW j \in 1..(Len(s) - 1), NEW m \in 1..(Len(s) - 1), t[j] = t[m] PROVE j = m
    BY <1>8 DEF IsInjective
  <2>1. \A x, y \in 1..Len(s) : s[x] = s[y] => x = y
    BY <1>4 DEF IsInjective
  <2>2. j \in 1..Len(s) /\ m \in 1..Len(s) /\ j + 1 \in 1..Len(s) /\ m + 1 \in 1..Len(s)
    BY <1>4
  <2>3. (t[j] = s[j] /\ j < i) \/ (t[j] = s[j + 1] /\ ~(j < i))
    BY <1>7
  <2>4. (t[m] = s[m] /\ m < i) \/ (t[m] = s[m + 1] /\ ~(m < i))
    BY <1>7
  <2> QED  BY <1>4, <2>1, <2>2, <2>3, <2>4
<1> QED  BY <1>3, <1>7, <1>9, <1>10

LEMMA WithoutOne ==
  ASSUME NEW S, NEW s \in Seq(S), IsInjective(s), NEW c
  PROVE  /\ WithoutConn(s, c) \in Seq(S) /\ Len(WithoutConn(s, c)) <= Len(s)
         /\ ToSet(WithoutConn(s, c)) = ToSet(s) \ {c} /\ IsInjective(WithoutConn(s, c))
<1>1. CASE c \notin ToSet(s)
  BY <1>1 DEF WithoutConn
<1>2. CASE c \in ToSet(s)
  <2>1. \E i \in DOMAIN s : s[i] = c
    BY <1>2 DEF ToSet
  <2>2. PICK i : i = CHOOSE j \in DOMAIN s : s[j] = c
    OBVIOUS
  <2>3. i \in 1..Len(s) /\ s[i] = c
    BY <2>1, <2>2
  <2>4. WithoutConn(s, c) = RemoveAt(s, i)
    BY <1>2, <2>2 DEF WithoutConn
  <2> QED  BY <2>3, <2>4, ListRemoved
<1> QED  BY <1>1, <1>2

-----------------------------------------------------------------------------
(* News.  A connection that an event is about to be written to, or that received   *)
(* one, is a tab of the event's owner, and stays one; the ones that were open when *)
(* it was taken up are written to, unless they were put out meanwhile.             *)

IsTab(c, k) ==
  /\ c \in Conns /\ conn[c].pc \in {"closing", "open", "gone"} /\ conn[c].claims \in Accounts
  /\ conn[c].claims.id = conn[c].url /\ KeyOf(c) = k

TicketsInv ==
  /\ ticketOf = [t \in DOMAIN ticketOf |-> ticketOf[t]]
  /\ DOMAIN ticketOf \subseteq Tickets /\ spent \subseteq Tickets
  /\ \A t \in DOMAIN ticketOf : ticketOf[t] \in Accounts
  /\ conn \in [Conns -> Connections]
  /\ \A c \in Conns :
       /\ conn[c].pc = "new" => conn[c].claims = NoAccount
       /\ conn[c].pc = "resolved" => conn[c].claims \in Accounts
       /\ conn[c].pc = "closing" => conn[c].victim \in Conns
       /\ conn[c].pc # "closing" => conn[c].victim = NoConn
       /\ conn[c].claims # NoAccount =>
            /\ conn[c].by \notin DOMAIN ticketOf
            /\ \A d \in Conns : d # c /\ conn[d].by = conn[c].by => conn[d].claims = NoAccount

\* An open tab is in the list of its owner, unless it was put out of it.
ListsInv ==
  /\ wsClients \in [Keys -> Seq(Conns)]
  /\ \A k \in Keys :
       /\ IsInjective(wsClients[k]) /\ Len(wsClients[k]) <= MaxWSConnsPerKey
       /\ \A c \in ToSet(wsClients[k]) : IsTab(c, k)
  /\ \A c \in Conns : conn[c].pc \in {"open", "closing"} =>
       /\ IsTab(c, KeyOf(c)) /\ KeyOf(c) \in Keys
       /\ conn[c].closed \/ c \in Victims \/ c \in ToSet(wsClients[KeyOf(c)])

IsNews(n) ==
  /\ n = [pc |-> n.pc, todo |-> n.todo, present |-> n.present, err |-> n.err, tries |-> n.tries]
  /\ n.pc \in {"new", "write", "sent", "gone"} /\ n.todo \in Seq(Conns) /\ n.present \subseteq Conns
  /\ n.tries \in 0..MaxTries /\ (n.pc = "new" => n.tries < MaxTries)
  /\ n.pc = "write" <=> n.todo # <<>>

NewsOK(e) ==
  /\ IsNews(news[e])
  /\ \A c \in ToSet(news[e].todo) : IsTab(c, Recipient(e))
  /\ \A c \in news[e].present : conn[c].pc \notin {"new", "resolved"}
  /\ news[e].pc \in {"write", "sent"} =>
       \A c \in news[e].present : Alive(c) => e \in heard[c] \/ c \in ToSet(news[e].todo)

NewsInv ==
  /\ news = [e \in Events |-> news[e]] /\ \A e \in Events : NewsOK(e)
  /\ heard \in [Conns -> SUBSET Events]
  /\ \A c \in Conns : \A e \in heard[c] : IsTab(c, Recipient(e))

SocketsInv == TicketsInv /\ ListsInv /\ NewsInv

\* Whose tab a connection is does not change, and it does not come back.
TabsStay == \A c \in Conns : conn[c].pc \in {"closing", "open", "gone"} =>
  /\ conn'[c].pc \in {"closing", "open", "gone"}
  /\ conn'[c].claims = conn[c].claims /\ conn'[c].url = conn[c].url
  /\ Alive(c)' => Alive(c)

LEMMA TabStays ==
  ASSUME TabsStay, NEW c, NEW k, IsTab(c, k)
  PROVE  IsTab(c, k)'
  BY DEF TabsStay, IsTab, KeyOf

LEMMA NewsStays ==
  ASSUME TicketsInv, NewsInv, TabsStay, UNCHANGED <<news, heard>>
  PROVE  NewsInv'
<1>1. ASSUME NEW e \in Events PROVE NewsOK(e)'
  <2>1. NewsOK(e) /\ IsNews(news[e]) /\ news'[e] = news[e]
    BY DEF NewsInv, NewsOK
  <2>2. \A c \in news[e].present : conn[c].pc \in {"closing", "open", "gone"}
    BY <2>1 DEF NewsOK, IsNews, TicketsInv, Connections
  <2>3. \A c \in news[e].present : Alive(c)' => Alive(c)
    BY <2>1, <2>2 DEF TabsStay, IsNews
  <2>4. \A c \in news[e].present : conn'[c].pc \notin {"new", "resolved"}
    BY <2>1, <2>2 DEF TabsStay, IsNews
  <2>5. \A c \in ToSet(news[e].todo) : IsTab(c, Recipient(e))'
    BY <2>1, TabStays DEF NewsOK, Recipient
  <2> QED  BY <2>1, <2>3, <2>4, <2>5 DEF NewsOK
<1>2. \A c \in Conns : \A e \in heard[c] : IsTab(c, Recipient(e))'
  BY TabStays DEF NewsInv, Recipient
<1> QED  BY <1>1, <1>2 DEF NewsInv

\* A step of one connection that is not a tab yet, or goes on being one.
LEMMA NewTab ==
  ASSUME TicketsInv, NEW c \in Conns, NEW q, conn' = [conn EXCEPT ![c] = q],
         conn[c].pc \in {"new", "resolved"} \/
           (/\ q.pc \in {"closing", "open", "gone"} /\ q.claims = conn[c].claims /\ q.url = conn[c].url
            /\ (conn[c].closed => q.closed) /\ (conn[c].broken => q.broken)
            /\ (conn[c].pc = "gone" => q.pc = "gone"))
  PROVE  TabsStay
  BY DEF TabsStay, TicketsInv, Alive

LEMMA IssuedKeeps ==
  ASSUME SocketsInv, NEW t \in Tickets, NEW a \in Accounts, IssueWSTicket(t, a)
  PROVE  SocketsInv'
<1>1. /\ ~IssuedTo(t) /\ UNCHANGED <<spent, conn, wsClients, news, heard>>
      /\ ticketOf' = [x \in DOMAIN ticketOf \cup {t} |-> IF x = t THEN a ELSE ticketOf[x]]
  BY DEF IssueWSTicket
<1>2. DOMAIN ticketOf' = DOMAIN ticketOf \cup {t} /\ \A x \in DOMAIN ticketOf' : ticketOf'[x] \in Accounts
  BY <1>1 DEF SocketsInv, TicketsInv
<1>3. \A c \in Conns : conn[c].by # t
  BY <1>1 DEF IssuedTo
<1>4. TicketsInv'
  BY <1>1, <1>2, <1>3 DEF SocketsInv, TicketsInv
<1>5. TabsStay
  BY <1>1 DEF TabsStay, Alive
<1>6. ListsInv'
  BY <1>1 DEF SocketsInv, ListsInv, IsTab, KeyOf, Victims
<1> QED  BY <1>1, <1>4, <1>5, <1>6, NewsStays DEF SocketsInv

LEMMA AgedKeeps ==
  ASSUME SocketsInv, CleanupTickets \/ \E t \in Tickets : SpendTicket(t)
  PROVE  SocketsInv'
<1>1. /\ UNCHANGED <<conn, wsClients, news, heard>> /\ spent' \subseteq Tickets
      /\ DOMAIN ticketOf' \subseteq DOMAIN ticketOf /\ ticketOf' = [x \in DOMAIN ticketOf' |-> ticketOf'[x]]
      /\ \A x \in DOMAIN ticketOf' : ticketOf'[x] = ticketOf[x]
  BY DEF CleanupTickets, SpendTicket, SocketsInv, TicketsInv
<1>2. TicketsInv'
  BY <1>1 DEF SocketsInv, TicketsInv
<1>3. TabsStay
  BY <1>1 DEF TabsStay, Alive
<1>4. ListsInv'
  BY <1>1 DEF SocketsInv, ListsInv, IsTab, KeyOf, Victims
<1> QED  BY <1>1, <1>2, <1>3, <1>4, NewsStays DEF SocketsInv

LEMMA ResolvedTicketKeeps ==
  ASSUME SocketsInv, NEW c \in Conns, NEW t \in Tickets, ResolveWSTicket(c, t)
  PROVE  SocketsInv'
<1>1. PICK claims : claims = IF t \in DOMAIN ticketOf THEN ticketOf[t] ELSE NoAccount
  OBVIOUS
<1>2. PICK to : to = IF t \in DOMAIN ticketOf /\ t \notin spent THEN "resolved" ELSE "gone"
  OBVIOUS
<1>3. PICK q : q = [[[conn[c] EXCEPT !.pc = to] EXCEPT !.by = t] EXCEPT !.claims = claims]
  OBVIOUS
<1>4. /\ conn' = [conn EXCEPT ![c] = q] /\ conn[c].pc = "new" /\ ticketOf' = Without(t)
      /\ UNCHANGED <<spent, wsClients, news, heard>>
  BY <1>1, <1>2, <1>3 DEF ResolveWSTicket
<1>5. conn[c] \in Connections /\ claims \in Accounts \cup {NoAccount} /\ to \in {"resolved", "gone"}
      /\ (to = "resolved" => claims \in Accounts) /\ (claims # NoAccount => t \in DOMAIN ticketOf)
      /\ conn[c].victim = NoConn
  BY <1>1, <1>2, <1>4 DEF SocketsInv, TicketsInv
<1>6. /\ q \in Connections /\ q.pc = to /\ q.by = t /\ q.claims = claims /\ q.victim = conn[c].victim
  BY <1>3, <1>5 DEF Connections
<1>7. /\ DOMAIN ticketOf' = DOMAIN ticketOf \ {t} /\ \A x \in DOMAIN ticketOf' : ticketOf'[x] = ticketOf[x]
      /\ ticketOf' = [x \in DOMAIN ticketOf' |-> ticketOf'[x]]
  BY <1>4 DEF Without
<1>8. /\ conn' \in [Conns -> Connections] /\ conn'[c] = q /\ \A d \in Conns : d # c => conn'[d] = conn[d]
  BY <1>4, <1>6 DEF SocketsInv, TicketsInv
<1>9. TicketsInv'
  <2>1. ASSUME NEW d \in Conns, conn'[d].claims # NoAccount
        PROVE  /\ conn'[d].by \notin DOMAIN ticketOf'
               /\ \A e \in Conns : e # d /\ conn'[e].by = conn'[d].by => conn'[e].claims = NoAccount
    <3>1. CASE d = c
      <4>1. t \in DOMAIN ticketOf /\ conn'[d].by = t
        BY <1>5, <1>6, <1>8, <2>1, <3>1
      <4>2. \A e \in Conns : conn[e].by = t => conn[e].claims = NoAccount
        BY <4>1 DEF SocketsInv, TicketsInv
      <4> QED  BY <1>7, <1>8, <3>1, <4>1, <4>2
    <3>2. CASE d # c
      <4>1. /\ conn[d].by \notin DOMAIN ticketOf /\ conn'[d] = conn[d]
            /\ \A e \in Conns : e # d /\ conn[e].by = conn[d].by => conn[e].claims = NoAccount
        BY <1>8, <2>1, <3>2 DEF SocketsInv, TicketsInv
      <4>2. conn'[c].by = conn[d].by => conn'[c].claims = NoAccount
        BY <1>5, <1>6, <1>8, <4>1
      <4> QED  BY <1>7, <1>8, <4>1, <4>2
    <3> QED  BY <3>1, <3>2
  <2>2. \A d \in Conns :
          /\ conn'[d].pc = "new" => conn'[d].claims = NoAccount
          /\ conn'[d].pc = "resolved" => conn'[d].claims \in Accounts
          /\ conn'[d].pc = "closing" => conn'[d].victim \in Conns
          /\ conn'[d].pc # "closing" => conn'[d].victim = NoConn
    BY <1>5, <1>6, <1>8 DEF SocketsInv, TicketsInv
  <2> QED  BY <1>4, <1>7, <1>8, <2>1, <2>2 DEF SocketsInv, TicketsInv
<1>10. TabsStay
  BY <1>4, NewTab DEF SocketsInv
<1>11. ListsInv'
  <2>1. Victims' = Victims
    <3>1. \A d \in Conns : conn'[d].victim = conn[d].victim
      BY <1>6, <1>8
    <3> QED  BY <3>1 DEF Victims
  <2>2. \A k \in Keys : \A d \in ToSet(wsClients[k]) : IsTab(d, k)'
    BY <1>10, TabStays DEF SocketsInv, ListsInv
  <2>3. ASSUME NEW d \in Conns, conn'[d].pc \in {"open", "closing"}
        PROVE  /\ IsTab(d, KeyOf(d))' /\ KeyOf(d)' \in Keys
               /\ conn'[d].closed \/ d \in Victims' \/ d \in ToSet(wsClients[KeyOf(d)'])
    <3>1. d # c /\ conn'[d] = conn[d]
      BY <1>5, <1>6, <1>8, <2>3
    <3>2. KeyOf(d)' = KeyOf(d) /\ IsTab(d, KeyOf(d))
      BY <2>3, <3>1 DEF KeyOf, SocketsInv, ListsInv
    <3> QED  BY <1>10, <2>1, <2>3, <3>1, <3>2, TabStays DEF SocketsInv, ListsInv
  <2> QED  BY <1>4, <2>2, <2>3 DEF SocketsInv, ListsInv
<1> QED  BY <1>4, <1>9, <1>10, <1>11, NewsStays DEF SocketsInv

\* A connection goes on; its ticket and claims stay.
LEMMA TicketsKept ==
  ASSUME TicketsInv, NEW c \in Conns, NEW q \in Connections, conn' = [conn EXCEPT ![c] = q],
         UNCHANGED <<ticketOf, spent>>, q.by = conn[c].by, q.claims = conn[c].claims,
         q.pc \notin {"new", "resolved"}, q.pc = "closing" => q.victim \in Conns,
         q.pc # "closing" => q.victim = NoConn
  PROVE  TicketsInv' /\ conn'[c] = q /\ \A d \in Conns : d # c => conn'[d] = conn[d]
<1>1. conn' \in [Conns -> Connections] /\ conn'[c] = q /\ \A d \in Conns : d # c => conn'[d] = conn[d]
  BY DEF TicketsInv
<1>2. \A d \in Conns : conn'[d].by = conn[d].by /\ conn'[d].claims = conn[d].claims
  BY <1>1
<1>3. \A d \in Conns :
        /\ conn'[d].pc = "new" => conn'[d].claims = NoAccount
        /\ conn'[d].pc = "resolved" => conn'[d].claims \in Accounts
        /\ conn'[d].pc = "closing" => conn'[d].victim \in Conns
        /\ conn'[d].pc # "closing" => conn'[d].victim = NoConn
  BY <1>1 DEF TicketsInv
<1> QED  BY <1>1, <1>2, <1>3 DEF TicketsInv

LEMMA IdsAreNumbers == Ids \subseteq Nat
  BY SocketAssumption DEF Ids

LEMMA RegisteredKeeps ==
  ASSUME SocketsInv, NEW c \in Conns, NEW id \in Ids, RegisterWSConn(c, id)
  PROVE  SocketsInv'
<1>1. PICK key : key = KeyForClaims(conn[c].claims, id)
  OBVIOUS
<1>2. PICK conns : conns = Append(wsClients[key], c)
  OBVIOUS
<1>3. /\ conn[c].pc = "resolved" /\ conn[c] \in Connections /\ conn[c].claims \in Accounts /\ conn[c].victim = NoConn
      /\ UNCHANGED <<ticketOf, spent, news, heard>>
  BY DEF RegisterWSConn, SocketsInv, TicketsInv
<1>4. key \in Keys
  BY <1>1, <1>3 DEF Keys
<1>5. \A k \in Keys : c \notin ToSet(wsClients[k])
  BY <1>3 DEF SocketsInv, ListsInv, IsTab
<1>6. CASE ~UserIDMatches(conn[c].claims, id)
  <2>1. PICK q : q = [conn[c] EXCEPT !.pc = "gone"]
    OBVIOUS
  <2>2. conn' = [conn EXCEPT ![c] = q] /\ UNCHANGED wsClients
    BY <1>6, <2>1 DEF RegisterWSConn
  <2>3. /\ q \in Connections /\ q.pc = "gone" /\ q.by = conn[c].by /\ q.claims = conn[c].claims
        /\ q.victim = NoConn
    BY <1>3, <2>1 DEF Connections
  <2>4. TicketsInv' /\ conn'[c] = q /\ \A d \in Conns : d # c => conn'[d] = conn[d]
    BY <1>3, <2>2, <2>3, TicketsKept DEF SocketsInv
  <2>5. TabsStay
    BY <1>3, <2>2, NewTab DEF SocketsInv
  <2>6. ListsInv'
    <3>1. \A d \in Conns : conn'[d].victim = conn[d].victim
      BY <1>3, <2>3, <2>4
    <3>2. Victims' = Victims
      BY <3>1 DEF Victims
    <3>3. \A k \in Keys : \A d \in ToSet(wsClients[k]) : IsTab(d, k)'
      BY <2>5, TabStays DEF SocketsInv, ListsInv
    <3>4. ASSUME NEW d \in Conns, conn'[d].pc \in {"open", "closing"}
          PROVE  /\ IsTab(d, KeyOf(d))' /\ KeyOf(d)' \in Keys
                 /\ conn'[d].closed \/ d \in Victims' \/ d \in ToSet(wsClients[KeyOf(d)'])
      <4>1. d # c /\ conn'[d] = conn[d]
        BY <2>3, <2>4, <3>4
      <4>2. KeyOf(d)' = KeyOf(d) /\ IsTab(d, KeyOf(d))
        BY <3>4, <4>1 DEF KeyOf, SocketsInv, ListsInv
      <4> QED  BY <2>5, <3>2, <3>4, <4>1, <4>2, TabStays DEF SocketsInv, ListsInv
    <3> QED  BY <2>2, <3>3, <3>4 DEF SocketsInv, ListsInv
  <2> QED  BY <1>3, <2>4, <2>5, <2>6, NewsStays DEF SocketsInv
<1>7. CASE UserIDMatches(conn[c].claims, id)
  <2>1. PICK to : to = IF TooMany(conns) THEN "closing" ELSE "open"
    OBVIOUS
  <2>2. PICK victim : victim = IF TooMany(conns) THEN Head(conns) ELSE NoConn
    OBVIOUS
  <2>3. PICK list : list = IF TooMany(conns) THEN Tail(conns) ELSE conns
    OBVIOUS
  <2>4. PICK q : q = [[[conn[c] EXCEPT !.pc = to] EXCEPT !.url = id] EXCEPT !.victim = victim]
    OBVIOUS
  <2>5. conn' = [conn EXCEPT ![c] = q] /\ wsClients' = [wsClients EXCEPT ![key] = list]
    BY <1>1, <1>2, <1>7, <2>1, <2>2, <2>3, <2>4 DEF RegisterWSConn
  <2>6. wsClients[key] \in Seq(Conns) /\ IsInjective(wsClients[key]) /\ Len(wsClients[key]) <= MaxWSConnsPerKey
    BY <1>4 DEF SocketsInv, ListsInv
  <2>7. /\ conns \in Seq(Conns) /\ Len(conns) = Len(wsClients[key]) + 1 /\ IsInjective(conns)
        /\ ToSet(conns) = ToSet(wsClients[key]) \cup {c}
    BY <1>2, <1>4, <1>5, <2>6, ListAppended
  <2>8. conns # <<>> /\ Len(wsClients[key]) \in Nat /\ MaxWSConnsPerKey \in Nat
    BY <2>6, <2>7, SocketAssumption
  <2>9. /\ Head(conns) \in Conns /\ Tail(conns) \in Seq(Conns) /\ Len(Tail(conns)) = Len(conns) - 1
        /\ ToSet(conns) = ToSet(Tail(conns)) \cup {Head(conns)} /\ IsInjective(Tail(conns))
    BY <2>7, <2>8, ListTail
  <2>10. /\ list \in Seq(Conns) /\ IsInjective(list) /\ Len(list) <= MaxWSConnsPerKey
         /\ ToSet(list) \subseteq ToSet(conns) /\ ToSet(conns) \subseteq ToSet(list) \cup {victim}
    <3>1. CASE TooMany(conns)
      BY <2>2, <2>3, <2>6, <2>7, <2>8, <2>9, <3>1
    <3>2. CASE ~TooMany(conns)
      BY <2>2, <2>3, <2>7, <2>8, <3>2 DEF TooMany
    <3> QED  BY <3>1, <3>2
  <2>11. /\ to \in {"closing", "open"} /\ (to = "closing" => victim \in Conns) /\ (to = "open" => victim = NoConn)
    BY <2>1, <2>2, <2>9
  <2>12. id \in Nat /\ conn[c].claims.id = id
    BY <1>7, IdsAreNumbers DEF UserIDMatches
  <2>13. /\ q \in Connections /\ q.pc = to /\ q.url = id /\ q.victim = victim /\ q.claims = conn[c].claims
         /\ q.by = conn[c].by
    BY <1>3, <2>4, <2>11, <2>12 DEF Connections
  <2>14. TicketsInv' /\ conn'[c] = q /\ \A d \in Conns : d # c => conn'[d] = conn[d]
    BY <1>3, <2>5, <2>11, <2>13, TicketsKept DEF SocketsInv
  <2>15. TabsStay
    BY <1>3, <2>5, NewTab DEF SocketsInv
  <2>16. IsTab(c, key)' /\ KeyOf(c)' = key
    BY <1>1, <1>3, <2>11, <2>12, <2>13, <2>14 DEF IsTab, KeyOf
  <2>17. /\ wsClients' \in [Keys -> Seq(Conns)] /\ wsClients'[key] = list
         /\ \A k \in Keys : k # key => wsClients'[k] = wsClients[k]
    BY <1>4, <2>5, <2>10 DEF SocketsInv, ListsInv
  <2>18. ASSUME NEW k \in Keys
         PROVE  /\ IsInjective(wsClients'[k]) /\ Len(wsClients'[k]) <= MaxWSConnsPerKey
                /\ \A d \in ToSet(wsClients'[k]) : IsTab(d, k)'
    <3>1. \A d \in ToSet(wsClients[k]) : IsTab(d, k)'
      BY <2>15, TabStays DEF SocketsInv, ListsInv
    <3>2. CASE k = key
      BY <2>7, <2>10, <2>16, <2>17, <3>1, <3>2
    <3>3. CASE k # key
      BY <2>17, <3>1, <3>3 DEF SocketsInv, ListsInv
    <3> QED  BY <3>2, <3>3
  <2>19. \A d \in Conns : d \in Victims => d \in Victims'
    <3>1. \A d \in Conns : \A e \in Conns : conn[e].victim = d => conn'[e].victim = d
      BY <1>3, <2>14 DEF Conns, NoConn
    <3> QED  BY <3>1 DEF Victims
  <2>20. ASSUME NEW d \in Conns, conn'[d].pc \in {"open", "closing"}
         PROVE  /\ IsTab(d, KeyOf(d))' /\ KeyOf(d)' \in Keys
                /\ conn'[d].closed \/ d \in Victims' \/ d \in ToSet(wsClients'[KeyOf(d)'])
    <3>1. \A x \in ToSet(conns) : x \in ToSet(list) \/ x \in Victims'
      <4>1. victim \in Victims'
        BY <2>13, <2>14 DEF Victims
      <4> QED  BY <2>10, <4>1
    <3>2. CASE d = c
      <4>1. c \in ToSet(conns)
        BY <2>7
      <4> QED  BY <1>4, <2>16, <2>17, <3>1, <3>2, <4>1
    <3>3. CASE d # c
      <4>1. conn'[d] = conn[d] /\ KeyOf(d)' = KeyOf(d) /\ IsTab(d, KeyOf(d)) /\ KeyOf(d) \in Keys
            /\ (conn[d].closed \/ d \in Victims \/ d \in ToSet(wsClients[KeyOf(d)]))
        BY <2>14, <2>20, <3>3 DEF KeyOf, SocketsInv, ListsInv
      <4>2. d \in ToSet(wsClients[KeyOf(d)]) => d \in Victims' \/ d \in ToSet(wsClients'[KeyOf(d)])
        BY <2>7, <2>17, <3>1, <4>1
      <4>3. IsTab(d, KeyOf(d))'
        BY <2>15, <4>1, TabStays
      <4> QED  BY <2>19, <4>1, <4>2, <4>3
    <3> QED  BY <3>2, <3>3
  <2>21. ListsInv'
    BY <2>17, <2>18, <2>20 DEF ListsInv
  <2> QED  BY <1>3, <2>14, <2>15, <2>21, NewsStays DEF SocketsInv
<1> QED  BY <1>6, <1>7

LEMMA ClosedKeeps ==
  ASSUME SocketsInv, NEW c \in Conns, CloseVictim(c)
  PROVE  SocketsInv'
<1>1. PICK v : v = conn[c].victim
  OBVIOUS
<1>2. PICK q : q = [[conn[c] EXCEPT !.pc = "open"] EXCEPT !.victim = NoConn]
  OBVIOUS
<1>3. PICK mid : mid = [conn EXCEPT ![c] = q]
  OBVIOUS
<1>4. PICK p : p = [mid[v] EXCEPT !.closed = TRUE]
  OBVIOUS
<1>5. /\ conn' = [mid EXCEPT ![v] = p] /\ conn[c].pc = "closing"
      /\ UNCHANGED <<ticketOf, spent, wsClients, news, heard>>
  BY <1>1, <1>2, <1>3, <1>4 DEF CloseVictim
<1>6. conn \in [Conns -> Connections] /\ v \in Conns
  BY <1>1, <1>5 DEF SocketsInv, TicketsInv
<1>7. /\ q \in Connections /\ q.pc = "open" /\ q.victim = NoConn /\ q.by = conn[c].by /\ q.claims = conn[c].claims
      /\ q.url = conn[c].url /\ q.closed = conn[c].closed /\ q.broken = conn[c].broken
  BY <1>2, <1>6 DEF Connections, Conns, NoConn
<1>8. mid \in [Conns -> Connections] /\ mid[c] = q /\ \A d \in Conns : d # c => mid[d] = conn[d]
  BY <1>3, <1>6, <1>7
<1>9. /\ p \in Connections /\ p.closed /\ p.pc = mid[v].pc /\ p.victim = mid[v].victim /\ p.by = mid[v].by
      /\ p.claims = mid[v].claims /\ p.url = mid[v].url /\ p.broken = mid[v].broken
  BY <1>4, <1>6, <1>8 DEF Connections
<1>10. /\ conn' \in [Conns -> Connections] /\ conn'[v].closed
       /\ \A d \in Conns : d # v => conn'[d] = mid[d]
       /\ \A d \in Conns : conn'[d].pc = mid[d].pc /\ conn'[d].victim = mid[d].victim /\ conn'[d].by = mid[d].by
            /\ conn'[d].claims = mid[d].claims /\ conn'[d].url = mid[d].url /\ conn'[d].broken = mid[d].broken
  BY <1>5, <1>6, <1>8, <1>9
<1>11. \A d \in Conns :
         /\ conn'[d].claims = conn[d].claims /\ conn'[d].url = conn[d].url /\ conn'[d].by = conn[d].by
         /\ conn'[d].broken = conn[d].broken
         /\ d # c => conn'[d].pc = conn[d].pc /\ conn'[d].victim = conn[d].victim
  BY <1>7, <1>8, <1>10
<1>12. conn'[c].pc = "open" /\ conn'[c].victim = NoConn
  BY <1>7, <1>8, <1>10
<1>13. \A d \in Conns : conn[d].closed => conn'[d].closed
  BY <1>7, <1>8, <1>10
<1>14. TabsStay
  BY <1>5, <1>11, <1>12, <1>13 DEF TabsStay, Alive
<1>15. TicketsInv'
  <2>1. \A d \in Conns :
          /\ conn'[d].pc = "new" => conn'[d].claims = NoAccount
          /\ conn'[d].pc = "resolved" => conn'[d].claims \in Accounts
          /\ conn'[d].pc = "closing" => conn'[d].victim \in Conns
          /\ conn'[d].pc # "closing" => conn'[d].victim = NoConn
    BY <1>11, <1>12 DEF SocketsInv, TicketsInv
  <2> QED  BY <1>5, <1>10, <1>11, <2>1 DEF SocketsInv, TicketsInv
<1>16. ListsInv'
  <2>1. \A k \in Keys : \A d \in ToSet(wsClients[k]) : IsTab(d, k)'
    BY <1>14, TabStays DEF SocketsInv, ListsInv
  <2>2. ASSUME NEW d \in Conns, conn'[d].pc \in {"open", "closing"}
        PROVE  /\ IsTab(d, KeyOf(d))' /\ KeyOf(d)' \in Keys
               /\ conn'[d].closed \/ d \in Victims' \/ d \in ToSet(wsClients[KeyOf(d)'])
    <3>1. conn[d].pc \in {"open", "closing"} /\ KeyOf(d)' = KeyOf(d)
      BY <1>5, <1>11, <1>12, <2>2 DEF KeyOf
    <3>2. /\ IsTab(d, KeyOf(d)) /\ KeyOf(d) \in Keys
          /\ conn[d].closed \/ d \in Victims \/ d \in ToSet(wsClients[KeyOf(d)])
      BY <3>1 DEF SocketsInv, ListsInv
    <3>3. d \in Victims => d = v \/ d \in Victims'
      BY <1>1, <1>11 DEF Victims
    <3> QED  BY <1>10, <1>13, <1>14, <3>1, <3>2, <3>3, TabStays
  <2> QED  BY <1>5, <2>1, <2>2 DEF SocketsInv, ListsInv
<1> QED  BY <1>5, <1>14, <1>15, <1>16, NewsStays DEF SocketsInv

LEMMA BrokenKeeps ==
  ASSUME SocketsInv, NEW c \in Conns, BreakConn(c)
  PROVE  SocketsInv'
<1>1. PICK q : q = [conn[c] EXCEPT !.broken = TRUE]
  OBVIOUS
<1>2. /\ conn' = [conn EXCEPT ![c] = q] /\ conn[c].pc \in {"open", "closing"} /\ conn[c] \in Connections
      /\ UNCHANGED <<ticketOf, spent, wsClients, news, heard>>
  BY <1>1 DEF BreakConn, SocketsInv, TicketsInv
<1>3. /\ q \in Connections /\ q.pc = conn[c].pc /\ q.victim = conn[c].victim /\ q.by = conn[c].by
      /\ q.claims = conn[c].claims /\ q.url = conn[c].url /\ q.closed = conn[c].closed /\ q.broken
  BY <1>1, <1>2 DEF Connections
<1>4. TicketsInv' /\ conn'[c] = q /\ \A d \in Conns : d # c => conn'[d] = conn[d]
  BY <1>2, <1>3, TicketsKept DEF SocketsInv, TicketsInv
<1>5. TabsStay
  BY <1>2, <1>3, NewTab DEF SocketsInv
<1>6. \A d \in Conns : conn'[d].pc = conn[d].pc /\ conn'[d].victim = conn[d].victim /\ KeyOf(d)' = KeyOf(d)
        /\ conn'[d].closed = conn[d].closed
  BY <1>3, <1>4 DEF KeyOf
<1>7. Victims' = Victims
  BY <1>6 DEF Victims
<1>8. \A d, k : IsTab(d, k) => IsTab(d, k)'
  BY <1>5, TabStays
<1>9. ListsInv'
  BY <1>2, <1>6, <1>7, <1>8 DEF SocketsInv, ListsInv
<1> QED  BY <1>2, <1>4, <1>5, <1>9, NewsStays DEF SocketsInv

LEMMA LeftKeeps ==
  ASSUME SocketsInv, NEW c \in Conns, LeaveSocket(c)
  PROVE  SocketsInv'
<1>1. PICK q : q = [conn[c] EXCEPT !.pc = "gone"]
  OBVIOUS
<1>2. PICK key : key = KeyOf(c)
  OBVIOUS
<1>3. PICK list : list = WithoutConn(wsClients[key], c)
  OBVIOUS
<1>4. /\ conn' = [conn EXCEPT ![c] = q] /\ conn[c].pc = "open" /\ conn[c] \in Connections
      /\ conn[c].victim = NoConn /\ key \in Keys
      /\ wsClients' = [wsClients EXCEPT ![key] = list] /\ UNCHANGED <<ticketOf, spent, news, heard>>
  BY <1>1, <1>2, <1>3 DEF LeaveSocket, UnregisterWSConn, SocketsInv, TicketsInv, ListsInv
<1>5. /\ q \in Connections /\ q.pc = "gone" /\ q.victim = NoConn /\ q.by = conn[c].by
      /\ q.claims = conn[c].claims /\ q.url = conn[c].url /\ q.closed = conn[c].closed /\ q.broken = conn[c].broken
  BY <1>1, <1>4 DEF Connections
<1>6. TicketsInv' /\ conn'[c] = q /\ \A d \in Conns : d # c => conn'[d] = conn[d]
  BY <1>4, <1>5, TicketsKept DEF SocketsInv
<1>7. TabsStay
  BY <1>4, <1>5, NewTab DEF SocketsInv
<1>8. \A d \in Conns : conn'[d].victim = conn[d].victim
  BY <1>4, <1>5, <1>6
<1>9. Victims' = Victims
  BY <1>8 DEF Victims
<1>10. /\ list \in Seq(Conns) /\ IsInjective(list) /\ Len(list) <= MaxWSConnsPerKey
       /\ ToSet(list) = ToSet(wsClients[key]) \ {c}
  <2>1. wsClients[key] \in Seq(Conns) /\ IsInjective(wsClients[key]) /\ Len(wsClients[key]) <= MaxWSConnsPerKey
    BY <1>4 DEF SocketsInv, ListsInv
  <2>2. /\ list \in Seq(Conns) /\ IsInjective(list) /\ Len(list) <= Len(wsClients[key])
        /\ ToSet(list) = ToSet(wsClients[key]) \ {c}
    BY <1>3, <2>1, WithoutOne
  <2>3. Len(list) \in Nat /\ Len(wsClients[key]) \in Nat /\ MaxWSConnsPerKey \in Nat
    BY <2>1, <2>2, SocketAssumption
  <2> QED  BY <2>1, <2>2, <2>3
<1>11. /\ wsClients' \in [Keys -> Seq(Conns)] /\ wsClients'[key] = list
       /\ \A k \in Keys : k # key => wsClients'[k] = wsClients[k]
  BY <1>4, <1>10 DEF SocketsInv, ListsInv
<1>12. \A d, k : IsTab(d, k) => IsTab(d, k)'
  BY <1>7, TabStays
<1>13. ASSUME NEW k \in Keys
       PROVE  /\ IsInjective(wsClients'[k]) /\ Len(wsClients'[k]) <= MaxWSConnsPerKey
              /\ \A d \in ToSet(wsClients'[k]) : IsTab(d, k)'
  <2>1. CASE k = key
    BY <1>4, <1>10, <1>11, <1>12, <2>1 DEF SocketsInv, ListsInv
  <2>2. CASE k # key
    BY <1>11, <1>12, <2>2 DEF SocketsInv, ListsInv
  <2> QED  BY <2>1, <2>2
<1>14. ASSUME NEW d \in Conns, conn'[d].pc \in {"open", "closing"}
       PROVE  /\ IsTab(d, KeyOf(d))' /\ KeyOf(d)' \in Keys
              /\ conn'[d].closed \/ d \in Victims' \/ d \in ToSet(wsClients'[KeyOf(d)'])
  <2>1. d # c /\ conn'[d] = conn[d]
    BY <1>5, <1>6, <1>14
  <2>2. /\ KeyOf(d)' = KeyOf(d) /\ IsTab(d, KeyOf(d)) /\ KeyOf(d) \in Keys
        /\ (conn[d].closed \/ d \in Victims \/ d \in ToSet(wsClients[KeyOf(d)]))
    BY <1>14, <2>1 DEF KeyOf, SocketsInv, ListsInv
  <2>3. d \in ToSet(wsClients[KeyOf(d)]) => d \in ToSet(wsClients'[KeyOf(d)])
    BY <1>10, <1>11, <2>1, <2>2
  <2> QED  BY <1>9, <1>12, <2>1, <2>2, <2>3
<1>15. ListsInv'
  BY <1>11, <1>13, <1>14 DEF ListsInv
<1> QED  BY <1>4, <1>6, <1>7, <1>15, NewsStays DEF SocketsInv

\* An event moves on and no connection does.
LEMMA NewsMoves ==
  ASSUME SocketsInv, NEW e \in Events, NEW n, UNCHANGED <<ticketOf, spent, conn, wsClients>>,
         news' = [news EXCEPT ![e] = n], heard' \in [Conns -> SUBSET Events],
         \A c \in Conns : heard[c] \subseteq heard'[c],
         \A c \in Conns : \A x \in heard'[c] : x \in heard[c] \/ (x = e /\ IsTab(c, Recipient(e))),
         IsNews(n), \A c \in ToSet(n.todo) : IsTab(c, Recipient(e)),
         \A c \in n.present : conn[c].pc \notin {"new", "resolved"},
         n.pc \in {"write", "sent"} => \A c \in n.present : Alive(c) => e \in heard'[c] \/ c \in ToSet(n.todo)
  PROVE  SocketsInv'
<1>1. TicketsInv' /\ ListsInv'
  BY DEF SocketsInv, TicketsInv, ListsInv, IsTab, KeyOf, Victims
<1>2. /\ \A c, k : IsTab(c, k)' <=> IsTab(c, k)
      /\ \A c : Alive(c)' <=> Alive(c)
  BY DEF IsTab, KeyOf, Alive
<1>3. /\ news' = [x \in Events |-> news'[x]] /\ news'[e] = n /\ \A x \in Events : x # e => news'[x] = news[x]
  BY DEF SocketsInv, NewsInv
<1>4. NewsOK(e)'
  BY <1>2, <1>3 DEF NewsOK, Recipient
<1>5. ASSUME NEW x \in Events, x # e PROVE NewsOK(x)'
  <2>1. NewsOK(x) /\ news'[x] = news[x]
    BY <1>3, <1>5 DEF SocketsInv, NewsInv
  <2>2. \A c \in news[x].present : c \in Conns
    BY <2>1 DEF NewsOK, IsNews
  <2> QED  BY <1>2, <2>1, <2>2 DEF NewsOK, Recipient
<1>6. \A c \in Conns : \A x \in heard'[c] : IsTab(c, Recipient(x))'
  BY <1>2 DEF SocketsInv, NewsInv, Recipient
<1> QED  BY <1>1, <1>3, <1>4, <1>5, <1>6 DEF SocketsInv, NewsInv

LEMMA TakenKeeps ==
  ASSUME SocketsInv, NEW e \in Events, TakeNews(e)
  PROVE  SocketsInv'
<1>1. PICK k : k = Recipient(e)
  OBVIOUS
<1>2. PICK conns : conns = wsClients[k]
  OBVIOUS
<1>3. PICK to : to = IF conns = <<>> THEN "sent" ELSE "write"
  OBVIOUS
<1>4. PICK present : present = {c \in Conns : Alive(c) /\ c \notin Victims /\ KeyOf(c) = k}
  OBVIOUS
<1>5. PICK n : n = [pc |-> to, todo |-> conns, err |-> FALSE, tries |-> news[e].tries + 1, present |-> present]
  OBVIOUS
<1>6. news' = [news EXCEPT ![e] = n] /\ news[e].pc = "new" /\ UNCHANGED <<ticketOf, spent, conn, wsClients, heard>>
  BY <1>1, <1>2, <1>3, <1>4, <1>5 DEF TakeNews
<1>7. k \in Keys
  BY <1>1 DEF Keys
<1>8. conns \in Seq(Conns) /\ \A c \in ToSet(conns) : IsTab(c, k)
  BY <1>2, <1>7 DEF SocketsInv, ListsInv
<1>9. \A c \in present : c \in ToSet(conns) /\ conn[c].pc \in {"open", "closing"}
  BY <1>2, <1>4 DEF SocketsInv, ListsInv, Alive
<1>10. news[e].tries + 1 \in 0..MaxTries
  BY <1>6, SocketAssumption DEF SocketsInv, NewsInv, NewsOK, IsNews
<1>11. present \subseteq Conns /\ (to = "write" <=> conns # <<>>) /\ to \in {"sent", "write"}
  BY <1>3, <1>4
<1>12. IsNews(n)
  BY <1>5, <1>8, <1>10, <1>11 DEF IsNews
<1>13. heard' \in [Conns -> SUBSET Events]
  BY <1>6 DEF SocketsInv, NewsInv
<1>14. n.todo = conns /\ n.present = present
  BY <1>5
<1> QED  BY <1>1, <1>6, <1>8, <1>9, <1>12, <1>13, <1>14, NewsMoves

LEMMA WrittenNewsKeeps ==
  ASSUME SocketsInv, NEW e \in Events, NEW fails \in BOOLEAN, WriteNews(e, fails)
  PROVE  SocketsInv'
<1>1. PICK c : c = Head(news[e].todo)
  OBVIOUS
<1>2. PICK rest : rest = Tail(news[e].todo)
  OBVIOUS
<1>3. PICK to : to = IF rest = <<>> THEN "sent" ELSE "write"
  OBVIOUS
<1>4. PICK err : err = (news[e].err \/ fails)
  OBVIOUS
<1>5. PICK n : n = [[[news[e] EXCEPT !.todo = rest] EXCEPT !.err = err] EXCEPT !.pc = to]
  OBVIOUS
<1>6. /\ news[e].pc = "write" /\ (conn[c].closed => fails) /\ (fails => conn[c].closed \/ conn[c].broken)
      /\ heard' = IF fails \/ conn[c].broken THEN heard ELSE [heard EXCEPT ![c] = @ \cup {e}]
      /\ UNCHANGED <<ticketOf, spent, conn, wsClients>>
  BY <1>1 DEF WriteNews
<1>7. news' = [news EXCEPT ![e] = n]
  BY <1>1, <1>2, <1>3, <1>4, <1>5 DEF WriteNews, LeftToWrite
<1>8. NewsOK(e) /\ IsNews(news[e]) /\ heard \in [Conns -> SUBSET Events]
  BY DEF SocketsInv, NewsInv, NewsOK
<1>9. news[e].todo \in Seq(Conns) /\ news[e].todo # <<>>
  BY <1>6, <1>8 DEF IsNews
<1>10. c \in Conns /\ rest \in Seq(Conns) /\ ToSet(news[e].todo) = ToSet(rest) \cup {c}
  BY <1>1, <1>2, <1>9, ListTail
<1>11. n = [pc |-> to, todo |-> rest, present |-> news[e].present, err |-> err, tries |-> news[e].tries]
  BY <1>5, <1>8 DEF IsNews
<1>12. to \in {"sent", "write"} /\ (to = "write" <=> rest # <<>>)
  BY <1>3
<1>13. IsNews(n)
  BY <1>8, <1>10, <1>11, <1>12 DEF IsNews
<1>14. IsTab(c, Recipient(e)) /\ \A d \in ToSet(rest) : IsTab(d, Recipient(e))
  BY <1>8, <1>10 DEF NewsOK
<1>15. /\ heard' \in [Conns -> SUBSET Events] /\ \A d \in Conns : heard[d] \subseteq heard'[d]
       /\ \A d \in Conns : \A x \in heard'[d] : x \in heard[d] \/ (x = e /\ IsTab(d, Recipient(e)))
  BY <1>6, <1>8, <1>10, <1>14
<1>16. Alive(c) => e \in heard'[c]
  BY <1>6, <1>8, <1>10 DEF Alive
<1>17. \A d \in news[e].present : conn[d].pc \notin {"new", "resolved"}
  BY <1>8 DEF NewsOK
<1>18. \A d \in news[e].present : Alive(d) => e \in heard'[d] \/ d \in ToSet(rest)
  <2>1. \A d \in news[e].present : d \in Conns
    BY <1>8 DEF IsNews
  <2>2. \A d \in news[e].present : Alive(d) => e \in heard[d] \/ d \in ToSet(news[e].todo)
    BY <1>6, <1>8 DEF NewsOK
  <2> QED  BY <1>10, <1>15, <1>16, <2>1, <2>2
<1>19. n.todo = rest /\ n.present = news[e].present
  BY <1>11
<1> QED  BY <1>6, <1>7, <1>13, <1>14, <1>15, <1>17, <1>18, <1>19, NewsMoves

LEMMA BroughtAgainKeeps ==
  ASSUME SocketsInv, NEW e \in Events, BringAgain(e)
  PROVE  SocketsInv'
<1>1. PICK to : to = IF news[e].tries < MaxTries THEN "new" ELSE "gone"
  OBVIOUS
<1>2. PICK n : n = [news[e] EXCEPT !.pc = to]
  OBVIOUS
<1>3. news[e].pc = "sent" /\ UNCHANGED <<ticketOf, spent, conn, wsClients, heard>> /\ news' = [news EXCEPT ![e] = n]
  BY <1>1, <1>2 DEF BringAgain
<1>4. NewsOK(e) /\ IsNews(news[e]) /\ heard' \in [Conns -> SUBSET Events]
  BY <1>3 DEF SocketsInv, NewsInv, NewsOK
<1>5. n = [pc |-> to, todo |-> news[e].todo, present |-> news[e].present, err |-> news[e].err, tries |-> news[e].tries]
  BY <1>2, <1>4 DEF IsNews
<1>6. to \in {"new", "gone"} /\ (to = "new" => news[e].tries < MaxTries)
  BY <1>1
<1>7. IsNews(n) /\ n.todo = news[e].todo /\ n.present = news[e].present /\ n.pc \notin {"write", "sent"}
  BY <1>3, <1>4, <1>5, <1>6 DEF IsNews
<1>8. /\ \A c \in ToSet(n.todo) : IsTab(c, Recipient(e))
      /\ \A c \in n.present : conn[c].pc \notin {"new", "resolved"}
  BY <1>4, <1>7 DEF NewsOK
<1> QED  BY <1>3, <1>4, <1>7, <1>8, NewsMoves

LEMMA SocketsInitial == SocketsInit => SocketsInv
<1> SUFFICES ASSUME SocketsInit PROVE SocketsInv
  OBVIOUS
<1>1. ToSet(<<>>) = {} /\ IsInjective(<<>>) /\ <<>> \in Seq(Conns) /\ Len(<<>>) = 0
  BY DEF ToSet, IsInjective
<1>2. MaxTries \in Nat /\ 0 < MaxTries /\ MaxWSConnsPerKey \in Nat /\ 0 <= MaxWSConnsPerKey
  BY SocketAssumption
<1>3. TicketsInv
  BY DEF SocketsInit, TicketsInv, Connections, NoAccount, Tickets, NoTicket, NoConn
<1>4. ListsInv
  <2>1. /\ wsClients \in [Keys -> Seq(Conns)] /\ \A k \in Keys : wsClients[k] = <<>>
    BY <1>1 DEF SocketsInit
  <2>2. \A c \in Conns : conn[c].pc = "new"
    BY DEF SocketsInit
  <2> QED  BY <1>1, <1>2, <2>1, <2>2 DEF ListsInv
<1>5. NewsInv
  <2>1. PICK n : n = [pc |-> "new", todo |-> <<>>, present |-> {}, err |-> FALSE, tries |-> 0]
    OBVIOUS
  <2>2. IsNews(n) /\ n.todo = <<>> /\ n.present = {} /\ n.pc = "new"
    BY <1>1, <1>2, <2>1 DEF IsNews
  <2>3. news = [e \in Events |-> n]
    BY <2>1 DEF SocketsInit
  <2>4. \A e \in Events : NewsOK(e)
    BY <1>1, <2>2, <2>3 DEF NewsOK
  <2> QED  BY <2>3, <2>4 DEF SocketsInit, NewsInv
<1> QED  BY <1>3, <1>4, <1>5 DEF SocketsInv

LEMMA SocketsStep == SocketsInv /\ [SocketsNext]_socketVars => SocketsInv'
<1> SUFFICES ASSUME SocketsInv, [SocketsNext]_socketVars PROVE SocketsInv'
  OBVIOUS
<1>1. ASSUME NEW t \in Tickets, NEW a \in Accounts, IssueWSTicket(t, a) PROVE SocketsInv'
  BY <1>1, IssuedKeeps
<1>2. ASSUME CleanupTickets \/ \E t \in Tickets : SpendTicket(t) PROVE SocketsInv'
  BY <1>2, AgedKeeps
<1>3. ASSUME NEW c \in Conns, NEW t \in Tickets, ResolveWSTicket(c, t) PROVE SocketsInv'
  BY <1>3, ResolvedTicketKeeps
<1>4. ASSUME NEW c \in Conns, NEW id \in Ids, RegisterWSConn(c, id) PROVE SocketsInv'
  BY <1>4, RegisteredKeeps
<1>5. ASSUME NEW c \in Conns, CloseVictim(c) PROVE SocketsInv'
  BY <1>5, ClosedKeeps
<1>6. ASSUME NEW c \in Conns, BreakConn(c) PROVE SocketsInv'
  BY <1>6, BrokenKeeps
<1>7. ASSUME NEW c \in Conns, LeaveSocket(c) PROVE SocketsInv'
  BY <1>7, LeftKeeps
<1>8. ASSUME NEW e \in Events, TakeNews(e) PROVE SocketsInv'
  BY <1>8, TakenKeeps
<1>9. ASSUME NEW e \in Events, BringAgain(e) PROVE SocketsInv'
  BY <1>9, BroughtAgainKeeps
<1>10. ASSUME NEW e \in Events, NEW fails \in BOOLEAN, WriteNews(e, fails) PROVE SocketsInv'
  BY <1>10, WrittenNewsKeeps
<1>11. CASE UNCHANGED socketVars
  <2>1. UNCHANGED <<ticketOf, spent, conn, wsClients, news, heard>>
    BY <1>11 DEF socketVars
  <2>2. TabsStay
    BY <2>1 DEF TabsStay, Alive
  <2>3. TicketsInv' /\ ListsInv'
    BY <2>1 DEF SocketsInv, TicketsInv, ListsInv, IsTab, KeyOf, Victims
  <2> QED  BY <2>1, <2>2, <2>3, NewsStays DEF SocketsInv
<1> QED
  BY <1>1, <1>2, <1>3, <1>4, <1>5, <1>6, <1>7, <1>8, <1>9, <1>10, <1>11 DEF SocketsNext

\* A key is of one kind of account, so an event has no tab but its owner's.
LEMMA KeysApart ==
  ASSUME NEW e, NEW a \in Accounts, KeyForClaims(a, a.id) = Recipient(e)
  PROVE  IsAbout(e, a)
<1>1. a.type \in {"user", "client", "delivery_man"} /\ a.id \in Nat /\ a.est \in Nat
  BY SocketAssumption
<1> QED  BY <1>1 DEF KeyForClaims, Recipient, IsAbout

LEMMA SocketsImplied == SocketsInv => NewsKept
<1> SUFFICES ASSUME SocketsInv PROVE NewsKept
  OBVIOUS
<1>1. SocketTypeOK
  <2>1. \A k \in Keys : ToSet(wsClients[k]) \subseteq Conns
    BY DEF SocketsInv, ListsInv, IsTab
  <2> QED  BY <2>1 DEF SocketsInv, TicketsInv, ListsInv, NewsInv, NewsOK, IsNews, SocketTypeOK
<1>2. OneConnectionPerTicket
  BY DEF SocketsInv, TicketsInv, OneConnectionPerTicket
<1>3. NewsReachesEveryTab
  <2>1. ToSet(<<>>) = {}
    BY DEF ToSet
  <2> QED  BY <2>1 DEF SocketsInv, NewsInv, NewsOK, IsNews, NewsReachesEveryTab
<1>4. OnlyOwnNews
  BY KeysApart DEF SocketsInv, NewsInv, IsTab, KeyOf, OnlyOwnNews
<1> QED  BY <1>1, <1>2, <1>3, <1>4 DEF NewsKept

\* A ticket opens one connection, and news of an order reaches every tab its owner
\* has open, and nobody else's, with any number of tickets, tabs and events.
THEOREM NewsIsKept == SocketsSpec => []NewsKept
<1> QED  BY SocketsInitial, SocketsStep, SocketsImplied, PTL DEF SocketsSpec

-----------------------------------------------------------------------------
(* The position of a courier.  A viewer that watches has seen the last one, or  *)
(* it is on its way to him: the request that stored it has not copied the list  *)
(* yet, and he is on it, or has him left to write to.                           *)

Coming(v, d) ==
  \E p \in Posts : /\ post[p].of = d /\ post[p].n = position[d].n
                   /\ post[p].pc = "copy" \/ (post[p].pc = "write" /\ v \in post[p].todo)

IsViewer(w) == w \in [pc : {"out", "register", "snapshot", "watch", "gone"}, who : People \cup {Nobody},
                      of : Deliveries \cup {NoOrder}, seen : SUBSET Nat]
IsPost(x)   == x \in [pc : {"idle", "store", "copy", "write", "done"}, of : Deliveries \cup {NoOrder},
                      n : Nat, todo : SUBSET Viewers]

PositionsInv ==
  /\ courierOf \in [Deliveries -> {0} \cup CourierIds] /\ drove \in [Deliveries -> SUBSET ({0} \cup CourierIds)]
  /\ \A d \in Deliveries : courierOf[d] # 0 => courierOf[d] \in drove[d]
  /\ position \in [Deliveries -> [n : Nat, old : BOOLEAN]] /\ posted \in [Deliveries -> Nat]
  /\ \A d \in Deliveries : position[d].n \in 0..posted[d]

Listed == {"snapshot", "watch"}

ViewersInv ==
  /\ viewer \in [Viewers -> [pc : {"out", "register", "snapshot", "watch", "gone"}, who : People \cup {Nobody},
                             of : Deliveries \cup {NoOrder}, seen : SUBSET Nat]]
  /\ listeners \in [Deliveries -> SUBSET Viewers]
  /\ \A v \in Viewers :
       /\ viewer[v].pc \in {"register"} \cup Listed => viewer[v].of \in Deliveries /\ IsParty(viewer[v].who, viewer[v].of)
       /\ viewer[v].pc \in Listed => v \in listeners[viewer[v].of]
       /\ viewer[v].pc = "out" => viewer[v].seen = {}
       /\ viewer[v].seen # {} => viewer[v].of \in Deliveries /\ IsParty(viewer[v].who, viewer[v].of)
  /\ \A d \in Deliveries : \A v \in listeners[d] : viewer[v].of = d /\ viewer[v].pc \in Listed

PostsInv ==
  /\ post \in [Posts -> [pc : {"idle", "store", "copy", "write", "done"}, of : Deliveries \cup {NoOrder},
                         n : Nat, todo : SUBSET Viewers]]
  /\ \A p \in Posts : post[p].pc \in {"store", "copy", "write"} => post[p].of \in Deliveries
  /\ \A p \in Posts : \A v \in post[p].todo : viewer[v].pc \in Listed \cup {"gone"}

SeenInv ==
  \A v \in Viewers : \A d \in Deliveries :
    viewer[v].pc = "watch" /\ viewer[v].of = d /\ position[d].n # 0 =>
      position[d].n \in viewer[v].seen \/ Coming(v, d)

TrackInv == PositionsInv /\ ViewersInv /\ PostsInv /\ SeenInv

\* Who may access an order is a party of it.
LEMMA AccessIsForParties ==
  ASSUME PositionsInv, NEW who \in People, NEW d \in Deliveries, CanAccessOrder(who, d)
  PROVE  IsParty(who, d)
<1>1. who.type \in {"none", "user", "client", "delivery_man"}
  BY TrackingAssumption
<1>2. AccountTypeFromClaims(who) \in {"user", "client", "delivery_man"}
  BY <1>1 DEF AccountTypeFromClaims
<1>3. courierOf[d] # 0 => courierOf[d] \in drove[d]
  BY DEF PositionsInv
<1> QED  BY <1>2, <1>3 DEF CanAccessOrder, ClaimsParticipate, IsParty

\* Pruning forgets positions, none of the last two hours.
LEMMA PruningForgets ==
  ASSUME NEW pl \in [Deliveries -> [n : Nat, old : BOOLEAN]], NEW after \in Pruned(pl)
  PROVE  /\ after \in [Deliveries -> [n : Nat, old : BOOLEAN]]
         /\ \A d \in Deliveries : after[d] = pl[d] \/ (after[d] = Unset /\ pl[d].old)
<1>1. CASE after = pl
  BY <1>1
<1>2. CASE after # pl
  <2>1. PICK R \in SUBSET TwoHoursOld(pl) : after = Dropped(pl, R)
    BY <1>2 DEF Pruned
  <2>2. Unset \in [n : Nat, old : BOOLEAN]
    BY DEF Unset
  <2>3. \A d \in R : d \in Deliveries /\ pl[d].old
    BY <2>1 DEF TwoHoursOld, Kept
  <2> QED  BY <2>1, <2>2, <2>3 DEF Dropped
<1> QED  BY <1>1, <1>2

LEMMA TrackInitial == TrackInit => TrackInv
<1> SUFFICES ASSUME TrackInit PROVE TrackInv
  OBVIOUS
<1>1. Unset \in [n : Nat, old : BOOLEAN] /\ Unset.n = 0 /\ 0 \in 0..0
  BY DEF Unset
<1>2. PositionsInv
  BY <1>1 DEF TrackInit, PositionsInv
<1>3. ViewersInv
  BY DEF TrackInit, ViewersInv, Listed
<1>4. PostsInv
  BY DEF TrackInit, PostsInv
<1>5. SeenInv
  BY DEF TrackInit, SeenInv
<1> QED  BY <1>2, <1>3, <1>4, <1>5 DEF TrackInv

-----------------------------------------------------------------------------
(* The steps of a viewer, and of the order he watches.                          *)

LEMMA HandedOverKeeps ==
  ASSUME TrackInv, NEW d \in Deliveries, NEW courier \in {0} \cup CourierIds, ChangeCourier(d, courier)
  PROVE  TrackInv'
<1>1. /\ courierOf' = [courierOf EXCEPT ![d] = courier] /\ drove' = [drove EXCEPT ![d] = @ \cup {courier}]
      /\ UNCHANGED <<position, posted, viewer, listeners, post>>
  BY DEF ChangeCourier
<1>2. \A x \in Deliveries : drove[x] \subseteq drove'[x]
  BY <1>1 DEF TrackInv, PositionsInv
<1>3. PositionsInv'
  BY <1>1 DEF TrackInv, PositionsInv
<1>4. \A v \in Viewers : viewer[v].of \in Deliveries /\ IsParty(viewer[v].who, viewer[v].of) => IsParty(viewer[v].who, viewer[v].of)'
  BY <1>1, <1>2 DEF IsParty
<1>5. ViewersInv'
  BY <1>1, <1>4 DEF TrackInv, ViewersInv, Listed
<1>6. PostsInv' /\ SeenInv'
  BY <1>1 DEF TrackInv, PostsInv, SeenInv, Coming
<1> QED  BY <1>3, <1>5, <1>6 DEF TrackInv

\* A step of one viewer that leaves the positions, and the requests, alone.
LEMMA ViewerMoves ==
  ASSUME TrackInv, NEW v \in Viewers, NEW w, IsViewer(w), viewer' = [viewer EXCEPT ![v] = w],
         UNCHANGED <<courierOf, position, posted, post, drove>>,
         listeners' \in [Deliveries -> SUBSET Viewers],
         \A d \in Deliveries : \A x \in Viewers \ {v} : x \in listeners'[d] <=> x \in listeners[d],
         \A d \in Deliveries : v \in listeners'[d] <=> (w.pc \in Listed /\ w.of = d),
         w.pc \in {"register"} \cup Listed => w.of \in Deliveries,
         w.of \in Deliveries /\ (w.pc \in {"register"} \cup Listed \/ w.seen # {}) => IsParty(w.who, w.of),
         w.pc = "out" => w.seen = {},
         w.seen # {} => w.of \in Deliveries,
         viewer[v].pc \in Listed \cup {"gone"} => w.pc \in Listed \cup {"gone"},
         \A d \in Deliveries : w.pc = "watch" /\ w.of = d /\ position[d].n # 0 => position[d].n \in w.seen \/ Coming(v, d)
  PROVE  TrackInv'
<1>1. viewer'[v] = w /\ \A x \in Viewers \ {v} : viewer'[x] = viewer[x]
  BY DEF TrackInv, ViewersInv
<1>2. PositionsInv'
  BY DEF TrackInv, PositionsInv
<1>3. \A who, d : IsParty(who, d)' <=> IsParty(who, d)
  BY DEF IsParty
<1>4. viewer' \in [Viewers -> [pc : {"out", "register", "snapshot", "watch", "gone"}, who : People \cup {Nobody},
                               of : Deliveries \cup {NoOrder}, seen : SUBSET Nat]]
  BY DEF TrackInv, ViewersInv, IsViewer
<1>5. ViewersInv'
  <2>1. ASSUME NEW x \in Viewers
        PROVE  /\ viewer'[x].pc \in {"register"} \cup Listed => viewer'[x].of \in Deliveries /\ IsParty(viewer'[x].who, viewer'[x].of)
               /\ viewer'[x].pc \in Listed => x \in listeners'[viewer'[x].of]
               /\ viewer'[x].pc = "out" => viewer'[x].seen = {}
               /\ viewer'[x].seen # {} => viewer'[x].of \in Deliveries /\ IsParty(viewer'[x].who, viewer'[x].of)
    <3>1. CASE x = v
      BY <1>1, <3>1
    <3>2. CASE x # v
      BY <1>1, <3>2 DEF TrackInv, ViewersInv, Listed
    <3> QED  BY <3>1, <3>2
  <2>2. ASSUME NEW d \in Deliveries, NEW x \in listeners'[d] PROVE viewer'[x].of = d /\ viewer'[x].pc \in Listed
    <3>1. x \in Viewers
      OBVIOUS
    <3>2. CASE x = v
      BY <1>1, <3>2
    <3>3. CASE x # v
      BY <1>1, <3>1, <3>3 DEF TrackInv, ViewersInv
    <3> QED  BY <3>2, <3>3
  <2> QED  BY <1>3, <1>4, <2>1, <2>2 DEF ViewersInv
<1>6. PostsInv'
  <2>1. ASSUME NEW p \in Posts, NEW x \in post[p].todo PROVE viewer'[x].pc \in Listed \cup {"gone"}
    <3>1. x \in Viewers /\ viewer[x].pc \in Listed \cup {"gone"}
      BY DEF TrackInv, PostsInv
    <3> QED  BY <1>1, <3>1
  <2> QED  BY <2>1 DEF TrackInv, PostsInv
<1>7. SeenInv'
  BY <1>1 DEF TrackInv, SeenInv, Coming
<1> QED  BY <1>2, <1>5, <1>6, <1>7 DEF TrackInv

LEMMA EnteredKeeps ==
  ASSUME TrackInv, NEW v \in Viewers, NEW who \in People, NEW d \in Deliveries, EnterTracking(v, who, d)
  PROVE  TrackInv'
<1>1. PICK to : to = IF CanAccessOrder(who, d) THEN AfterStep("out") ELSE "gone"
  OBVIOUS
<1>2. PICK w : w = [viewer[v] EXCEPT !.pc = to, !.who = who, !.of = d]
  OBVIOUS
<1>3. viewer[v].pc = "out" /\ viewer' = [viewer EXCEPT ![v] = w] /\ UNCHANGED <<courierOf, position, posted, listeners, post, drove>>
  BY <1>1, <1>2 DEF EnterTracking
<1>4. IsViewer(viewer[v]) /\ viewer[v].seen = {}
  BY <1>3 DEF TrackInv, ViewersInv, IsViewer
<1>5. w = [pc |-> to, who |-> who, of |-> d, seen |-> viewer[v].seen]
  BY <1>2, <1>4 DEF IsViewer
<1>6. to \in {"register", "gone"} /\ (to = "register" => IsParty(who, d))
  <2>1. TrackInv => PositionsInv
    BY DEF TrackInv
  <2> QED  BY <1>1, <2>1, AccessIsForParties DEF AfterStep
<1>7. IsViewer(w)
  BY <1>4, <1>5, <1>6 DEF IsViewer
<1>8. \A x \in Deliveries : v \notin listeners[x]
  BY <1>3 DEF TrackInv, ViewersInv, Listed
<1>9. listeners' \in [Deliveries -> SUBSET Viewers]
  BY <1>3 DEF TrackInv, ViewersInv
<1> QED  BY <1>3, <1>4, <1>5, <1>6, <1>7, <1>8, <1>9, ViewerMoves DEF Listed

LEMMA ListedKeeps ==
  ASSUME TrackInv, NEW v \in Viewers, RegisterViewer(v)
  PROVE  TrackInv'
<1>1. PICK w : w = [viewer[v] EXCEPT !.pc = "snapshot"]
  OBVIOUS
<1>2. PICK d : d = viewer[v].of
  OBVIOUS
<1>3. /\ viewer[v].pc = "register" /\ viewer' = [viewer EXCEPT ![v] = w]
      /\ listeners' = [listeners EXCEPT ![d] = @ \cup {v}] /\ UNCHANGED <<courierOf, position, posted, post, drove>>
  BY <1>1, <1>2 DEF RegisterViewer, AfterStep
<1>4. /\ IsViewer(viewer[v]) /\ d \in Deliveries /\ IsParty(viewer[v].who, d) /\ listeners \in [Deliveries -> SUBSET Viewers]
      /\ \A x \in Deliveries : v \notin listeners[x]
  BY <1>2, <1>3 DEF TrackInv, ViewersInv, IsViewer, Listed
<1>5. w = [pc |-> "snapshot", who |-> viewer[v].who, of |-> d, seen |-> viewer[v].seen]
  BY <1>1, <1>2, <1>4 DEF IsViewer
<1>6. IsViewer(w)
  BY <1>2, <1>4, <1>5 DEF IsViewer
<1>7. listeners' \in [Deliveries -> SUBSET Viewers]
  BY <1>3, <1>4
<1> QED  BY <1>3, <1>4, <1>5, <1>6, <1>7, ViewerMoves DEF Listed

LEMMA ShownKeeps ==
  ASSUME TrackInv, NEW v \in Viewers, SnapshotForViewer(v)
  PROVE  TrackInv'
<1>1. PICK d : d = viewer[v].of
  OBVIOUS
<1>2. PICK n : n = position[d].n
  OBVIOUS
<1>3. PICK seen : seen = viewer[v].seen \cup {m \in {n} : m # 0}
  OBVIOUS
<1>4. PICK w : w = [viewer[v] EXCEPT !.pc = "watch", !.seen = seen]
  OBVIOUS
<1>5. /\ viewer[v].pc = "snapshot" /\ viewer' = [viewer EXCEPT ![v] = w]
      /\ UNCHANGED <<courierOf, position, posted, listeners, post, drove>>
  BY <1>1, <1>2, <1>3, <1>4 DEF SnapshotForViewer, AfterStep
<1>6. /\ IsViewer(viewer[v]) /\ d \in Deliveries /\ IsParty(viewer[v].who, d) /\ listeners \in [Deliveries -> SUBSET Viewers]
      /\ \A x \in Deliveries : v \in listeners[x] <=> x = d
  BY <1>1, <1>5 DEF TrackInv, ViewersInv, IsViewer, Listed
<1>7. n \in Nat
  BY <1>2, <1>6 DEF TrackInv, PositionsInv
<1>8. w = [pc |-> "watch", who |-> viewer[v].who, of |-> d, seen |-> seen]
  BY <1>1, <1>4, <1>6 DEF IsViewer
<1>9. seen \in SUBSET Nat /\ (n # 0 => n \in seen)
  BY <1>3, <1>6, <1>7 DEF IsViewer
<1>10. IsViewer(w)
  BY <1>1, <1>6, <1>8, <1>9 DEF IsViewer
<1> QED  BY <1>2, <1>5, <1>6, <1>8, <1>9, <1>10, ViewerMoves DEF Listed

LEMMA WentKeeps ==
  ASSUME TrackInv, NEW v \in Viewers, LeaveTracking(v)
  PROVE  TrackInv'
<1>1. PICK w : w = [viewer[v] EXCEPT !.pc = "gone"]
  OBVIOUS
<1>2. PICK d : d = viewer[v].of
  OBVIOUS
<1>3. /\ viewer[v].pc = "watch" /\ viewer' = [viewer EXCEPT ![v] = w]
      /\ listeners' = [listeners EXCEPT ![d] = @ \ {v}] /\ UNCHANGED <<courierOf, position, posted, post, drove>>
  BY <1>1, <1>2 DEF LeaveTracking
<1>4. /\ IsViewer(viewer[v]) /\ d \in Deliveries /\ IsParty(viewer[v].who, d) /\ listeners \in [Deliveries -> SUBSET Viewers]
      /\ \A x \in Deliveries : v \in listeners[x] <=> x = d
  BY <1>2, <1>3 DEF TrackInv, ViewersInv, IsViewer, Listed
<1>5. w = [pc |-> "gone", who |-> viewer[v].who, of |-> d, seen |-> viewer[v].seen]
  BY <1>1, <1>2, <1>4 DEF IsViewer
<1>6. IsViewer(w)
  BY <1>2, <1>4, <1>5 DEF IsViewer
<1>7. /\ listeners' \in [Deliveries -> SUBSET Viewers] /\ \A x \in Deliveries : v \notin listeners'[x]
      /\ \A x \in Deliveries : \A y \in Viewers \ {v} : y \in listeners'[x] <=> y \in listeners[x]
  BY <1>3, <1>4
<1> QED  BY <1>3, <1>4, <1>5, <1>6, <1>7, ViewerMoves DEF Listed

-----------------------------------------------------------------------------
(* The steps of a request of the courier.                                       *)

\* A step of one request that leaves the positions and the lists alone.
LEMMA PostMoves ==
  ASSUME TrackInv, NEW p \in Posts, NEW x, IsPost(x), post' = [post EXCEPT ![p] = x],
         UNCHANGED <<courierOf, position, posted, viewer, listeners, drove>>,
         x.pc \in {"store", "copy", "write"} => x.of \in Deliveries,
         \A v \in x.todo : viewer[v].pc \in Listed \cup {"gone"},
         post[p].pc \notin {"copy", "write"} \/ (x.of = post[p].of /\ x.n = post[p].n),
         post[p].pc = "copy" => x.pc = "write" /\ \A v \in Viewers : viewer[v].pc = "watch" /\ viewer[v].of = x.of => v \in x.todo,
         post[p].pc = "write" => post[p].todo = {}
  PROVE  TrackInv'
<1>1. post'[p] = x /\ \A q \in Posts \ {p} : post'[q] = post[q]
  BY DEF TrackInv, PostsInv
<1>2. PositionsInv' /\ ViewersInv'
  BY DEF TrackInv, PositionsInv, ViewersInv, IsParty, Listed
<1>3. PostsInv'
  BY <1>1 DEF TrackInv, PostsInv, IsPost
<1>4. ASSUME NEW v \in Viewers, NEW d \in Deliveries, viewer[v].pc = "watch", viewer[v].of = d, Coming(v, d) PROVE Coming(v, d)'
  <2>1. PICK q \in Posts : /\ post[q].of = d /\ post[q].n = position[d].n
                           /\ post[q].pc = "copy" \/ (post[q].pc = "write" /\ v \in post[q].todo)
    BY <1>4 DEF Coming
  <2>2. CASE q = p
    <3>1. post[p].pc = "copy" /\ x.pc = "write" /\ x.of = d /\ x.n = position[d].n /\ v \in x.todo
      BY <1>4, <2>1, <2>2
    <3> QED  BY <1>1, <3>1 DEF Coming
  <2>3. CASE q # p
    BY <1>1, <2>1, <2>3 DEF Coming
  <2> QED  BY <2>2, <2>3
<1>5. SeenInv'
  BY <1>4 DEF TrackInv, SeenInv
<1> QED  BY <1>2, <1>3, <1>5 DEF TrackInv

LEMMA PostedKeeps ==
  ASSUME TrackInv, NEW p \in Posts, NEW d \in Deliveries, PostLocation(p, d)
  PROVE  TrackInv'
<1>1. PICK x : x = [post[p] EXCEPT !.pc = "store", !.of = d]
  OBVIOUS
<1>2. post[p].pc = "idle" /\ post' = [post EXCEPT ![p] = x] /\ UNCHANGED <<courierOf, position, posted, viewer, listeners, drove>>
  BY <1>1 DEF PostLocation
<1>3. IsPost(post[p]) /\ \A v \in post[p].todo : viewer[v].pc \in Listed \cup {"gone"}
  BY DEF TrackInv, PostsInv, IsPost
<1>4. x = [pc |-> "store", of |-> d, n |-> post[p].n, todo |-> post[p].todo]
  BY <1>1, <1>3 DEF IsPost
<1>5. IsPost(x)
  BY <1>3, <1>4 DEF IsPost
<1> QED  BY <1>2, <1>3, <1>4, <1>5, PostMoves

LEMMA CopiedKeeps ==
  ASSUME TrackInv, NEW p \in Posts, CopyListeners(p)
  PROVE  TrackInv'
<1>1. PICK d : d = post[p].of
  OBVIOUS
<1>2. PICK x : x = [post[p] EXCEPT !.pc = "write", !.todo = listeners[d]]
  OBVIOUS
<1>3. post[p].pc = "copy" /\ post' = [post EXCEPT ![p] = x] /\ UNCHANGED <<courierOf, position, posted, viewer, listeners, drove>>
  BY <1>1, <1>2 DEF CopyListeners
<1>4. IsPost(post[p]) /\ d \in Deliveries
  BY <1>1, <1>3 DEF TrackInv, PostsInv, IsPost
<1>5. x = [pc |-> "write", of |-> d, n |-> post[p].n, todo |-> listeners[d]]
  BY <1>1, <1>2, <1>4 DEF IsPost
<1>6. /\ listeners[d] \subseteq Viewers /\ \A v \in listeners[d] : viewer[v].pc \in Listed
      /\ \A v \in Viewers : viewer[v].pc = "watch" /\ viewer[v].of = d => v \in listeners[d]
  BY <1>4 DEF TrackInv, ViewersInv, Listed
<1>7. IsPost(x)
  BY <1>1, <1>4, <1>5, <1>6 DEF IsPost
<1> QED  BY <1>1, <1>3, <1>4, <1>5, <1>6, <1>7, PostMoves

LEMMA StoredKeeps ==
  ASSUME TrackInv, NEW p \in Posts, StoreLocation(p)
  PROVE  TrackInv'
<1>1. PICK d : d = post[p].of
  OBVIOUS
<1>2. PICK n : n = posted[d] + 1
  OBVIOUS
<1>3. PICK fresh : fresh = [n |-> n, old |-> FALSE]
  OBVIOUS
<1>4. PICK pl : pl = [position EXCEPT ![d] = fresh]
  OBVIOUS
<1>5. PICK x : x = [post[p] EXCEPT !.pc = "copy", !.n = n]
  OBVIOUS
<1>6. /\ post[p].pc = "store" /\ position' \in Pruned(pl) /\ posted' = [posted EXCEPT ![d] = n]
      /\ post' = [post EXCEPT ![p] = x] /\ UNCHANGED <<courierOf, viewer, listeners, drove>>
  BY <1>1, <1>2, <1>3, <1>4, <1>5 DEF StoreLocation
<1>7. IsPost(post[p]) /\ d \in Deliveries
  BY <1>1, <1>6 DEF TrackInv, PostsInv, IsPost
<1>8. posted \in [Deliveries -> Nat] /\ n \in Nat /\ n # 0 /\ position \in [Deliveries -> [n : Nat, old : BOOLEAN]]
  BY <1>2, <1>7 DEF TrackInv, PositionsInv
<1>9. /\ pl \in [Deliveries -> [n : Nat, old : BOOLEAN]] /\ pl[d] = fresh /\ ~fresh.old /\ fresh.n = n
      /\ \A y \in Deliveries \ {d} : pl[y] = position[y]
  BY <1>3, <1>4, <1>7, <1>8
<1>10. /\ position' \in [Deliveries -> [n : Nat, old : BOOLEAN]] /\ position'[d] = fresh
       /\ \A y \in Deliveries \ {d} : position'[y] = position[y] \/ position'[y] = Unset
  BY <1>6, <1>7, <1>9, PruningForgets
<1>11. Unset.n = 0
  BY DEF Unset
<1>12. PositionsInv'
  <2>1. posted' \in [Deliveries -> Nat] /\ posted'[d] = n /\ \A y \in Deliveries \ {d} : posted'[y] = posted[y]
    BY <1>6, <1>7, <1>8
  <2>2. ASSUME NEW y \in Deliveries PROVE position'[y].n \in 0..posted'[y]
    <3>1. CASE y = d
      BY <1>8, <1>9, <1>10, <2>1, <3>1
    <3>2. CASE y # d
      <4>1. position[y].n \in 0..posted[y] /\ posted[y] \in Nat
        BY <1>8 DEF TrackInv, PositionsInv
      <4> QED  BY <1>10, <1>11, <2>1, <3>2, <4>1
    <3> QED  BY <3>1, <3>2
  <2> QED  BY <1>6, <1>10, <2>1, <2>2 DEF TrackInv, PositionsInv
<1>13. ViewersInv'
  BY <1>6 DEF TrackInv, ViewersInv, IsParty, Listed
<1>14. x = [pc |-> "copy", of |-> d, n |-> n, todo |-> post[p].todo]
  BY <1>1, <1>5, <1>7 DEF IsPost
<1>15. post'[p] = x /\ (\A q \in Posts \ {p} : post'[q] = post[q]) /\ IsPost(x)
  BY <1>1, <1>6, <1>7, <1>8, <1>14 DEF TrackInv, PostsInv, IsPost
<1>16. PostsInv'
  BY <1>6, <1>7, <1>14, <1>15 DEF TrackInv, PostsInv, IsPost
<1>17. SeenInv'
  <2> SUFFICES ASSUME NEW v \in Viewers, NEW y \in Deliveries, viewer[v].pc = "watch", viewer[v].of = y, position'[y].n # 0
               PROVE  position'[y].n \in viewer[v].seen \/ Coming(v, y)'
    BY <1>6 DEF SeenInv
  <2>1. CASE y = d
    BY <1>9, <1>10, <1>14, <1>15, <2>1 DEF Coming
  <2>2. CASE y # d
    <3>1. position'[y] = position[y]
      BY <1>10, <1>11, <2>2
    <3>2. CASE position[y].n \in viewer[v].seen
      BY <3>1, <3>2
    <3>3. CASE Coming(v, y)
      <4>1. PICK q \in Posts : /\ post[q].of = y /\ post[q].n = position[y].n
                               /\ post[q].pc = "copy" \/ (post[q].pc = "write" /\ v \in post[q].todo)
        BY <3>3 DEF Coming
      <4>2. q # p
        BY <1>6, <4>1
      <4> QED  BY <1>15, <3>1, <4>1, <4>2 DEF Coming
    <3> QED  BY <3>1, <3>2, <3>3 DEF TrackInv, SeenInv
  <2> QED  BY <2>1, <2>2
<1> QED  BY <1>12, <1>13, <1>16, <1>17 DEF TrackInv

LEMMA SentKeeps ==
  ASSUME TrackInv, NEW p \in Posts, WriteLocation(p)
  PROVE  TrackInv'
<1>1. post[p].pc = "write" /\ UNCHANGED <<courierOf, position, posted, listeners, drove>>
  BY DEF WriteLocation
<1>2. IsPost(post[p]) /\ post[p].of \in Deliveries /\ \A v \in post[p].todo : viewer[v].pc \in Listed \cup {"gone"}
  BY <1>1 DEF TrackInv, PostsInv, IsPost
<1>3. ASSUME post[p].todo = {}, post' = [post EXCEPT ![p].pc = "done"], UNCHANGED viewer PROVE TrackInv'
  <2>1. PICK x : x = [post[p] EXCEPT !.pc = "done"]
    OBVIOUS
  <2>2. x = [pc |-> "done", of |-> post[p].of, n |-> post[p].n, todo |-> post[p].todo]
    BY <1>2, <2>1 DEF IsPost
  <2>3. IsPost(x)
    BY <1>2, <2>2 DEF IsPost
  <2>4. post' = [post EXCEPT ![p] = x]
    BY <1>3, <2>1
  <2> QED  BY <1>1, <1>2, <1>3, <2>2, <2>3, <2>4, PostMoves
<1>4. ASSUME NEW v \in post[p].todo, post' = [post EXCEPT ![p].todo = @ \ {v}],
             IF viewer[v].pc = "gone" THEN UNCHANGED viewer ELSE Sees({v}, post[p].n)
      PROVE  TrackInv'
  <2>1. PICK x : x = [post[p] EXCEPT !.todo = post[p].todo \ {v}]
    OBVIOUS
  <2>2. PICK n : n = post[p].n
    OBVIOUS
  <2>3. x = [pc |-> "write", of |-> post[p].of, n |-> n, todo |-> post[p].todo \ {v}]
    BY <1>1, <1>2, <2>1, <2>2 DEF IsPost
  <2>4. IsPost(x) /\ v \in Viewers /\ n \in Nat
    BY <1>2, <2>2, <2>3 DEF IsPost
  <2>5. post' = [post EXCEPT ![p] = x]
    BY <1>4, <2>1
  <2>6. post'[p] = x /\ (\A q \in Posts \ {p} : post'[q] = post[q])
    BY <2>5 DEF TrackInv, PostsInv
  <2>7. /\ viewer' \in [Viewers -> [pc : {"out", "register", "snapshot", "watch", "gone"}, who : People \cup {Nobody},
                                    of : Deliveries \cup {NoOrder}, seen : SUBSET Nat]]
        /\ \A w \in Viewers \ {v} : viewer'[w] = viewer[w]
        /\ viewer'[v].pc = viewer[v].pc /\ viewer'[v].who = viewer[v].who /\ viewer'[v].of = viewer[v].of
        /\ viewer[v].pc = "gone" => viewer'[v] = viewer[v]
        /\ viewer[v].pc # "gone" => viewer'[v].seen = viewer[v].seen \cup {n}
    <3>1. viewer \in [Viewers -> [pc : {"out", "register", "snapshot", "watch", "gone"}, who : People \cup {Nobody},
                                  of : Deliveries \cup {NoOrder}, seen : SUBSET Nat]]
      BY DEF TrackInv, ViewersInv
    <3>2. CASE viewer[v].pc = "gone"
      BY <1>4, <3>1, <3>2
    <3>3. CASE viewer[v].pc # "gone"
      <4>1. PICK w : w = [viewer[v] EXCEPT !.seen = viewer[v].seen \cup {n}]
        OBVIOUS
      <4>2. viewer' = [y \in Viewers |-> IF y \in {v} THEN [viewer[y] EXCEPT !.seen = @ \cup {n}] ELSE viewer[y]]
        BY <1>4, <2>2, <3>3 DEF Sees
      <4>3. viewer'[v] = w /\ \A y \in Viewers \ {v} : viewer'[y] = viewer[y]
        BY <2>4, <4>1, <4>2
      <4>4. w = [pc |-> viewer[v].pc, who |-> viewer[v].who, of |-> viewer[v].of, seen |-> viewer[v].seen \cup {n}]
        BY <2>4, <3>1, <4>1
      <4>5. w \in [pc : {"out", "register", "snapshot", "watch", "gone"}, who : People \cup {Nobody},
                   of : Deliveries \cup {NoOrder}, seen : SUBSET Nat]
        BY <2>4, <3>1, <4>4
      <4>6. viewer' = [y \in Viewers |-> viewer'[y]]
        BY <4>2
      <4>7. \A y \in Viewers : viewer'[y] \in [pc : {"out", "register", "snapshot", "watch", "gone"}, who : People \cup {Nobody},
                   of : Deliveries \cup {NoOrder}, seen : SUBSET Nat]
        BY <3>1, <4>3, <4>5
      <4> QED  BY <3>3, <4>3, <4>4, <4>6, <4>7
    <3> QED  BY <3>2, <3>3
  <2>8. PositionsInv'
    BY <1>1 DEF TrackInv, PositionsInv
  <2>9. \A y \in Viewers : viewer'[y].pc = viewer[y].pc /\ viewer'[y].who = viewer[y].who /\ viewer'[y].of = viewer[y].of
                           /\ viewer[y].seen \subseteq viewer'[y].seen
    BY <2>7
  <2>10. ViewersInv'
    <3>1. \A who, d : IsParty(who, d)' <=> IsParty(who, d)
      BY <1>1 DEF IsParty
    <3>2. viewer[v].pc \in Listed \cup {"gone"}
      BY <1>2
    <3>3. ASSUME NEW y \in Viewers
          PROVE  /\ viewer'[y].pc \in {"register"} \cup Listed => viewer'[y].of \in Deliveries /\ IsParty(viewer'[y].who, viewer'[y].of)
                 /\ viewer'[y].pc \in Listed => y \in listeners[viewer'[y].of]
                 /\ viewer'[y].pc = "out" => viewer'[y].seen = {}
                 /\ viewer'[y].seen # {} => viewer'[y].of \in Deliveries /\ IsParty(viewer'[y].who, viewer'[y].of)
      <4>1. CASE y = v
        BY <2>7, <3>2, <4>1 DEF TrackInv, ViewersInv, Listed
      <4>2. CASE y # v
        BY <2>7, <4>2 DEF TrackInv, ViewersInv, Listed
      <4> QED  BY <4>1, <4>2
    <3>4. listeners \in [Deliveries -> SUBSET Viewers] /\ \A d \in Deliveries : \A y \in listeners[d] : viewer'[y].of = d /\ viewer'[y].pc \in Listed
      BY <2>9 DEF TrackInv, ViewersInv
    <3> QED  BY <1>1, <2>7, <3>1, <3>3, <3>4 DEF ViewersInv
  <2>11. PostsInv'
    <3>1. post' \in [Posts -> [pc : {"idle", "store", "copy", "write", "done"}, of : Deliveries \cup {NoOrder},
                               n : Nat, todo : SUBSET Viewers]]
      BY <2>4, <2>5 DEF TrackInv, PostsInv, IsPost
    <3>2. \A q \in Posts : post'[q].pc \in {"store", "copy", "write"} => post'[q].of \in Deliveries
      BY <1>2, <2>3, <2>6 DEF TrackInv, PostsInv
    <3>3. ASSUME NEW q \in Posts, NEW y \in post'[q].todo PROVE viewer'[y].pc \in Listed \cup {"gone"}
      <4>1. y \in post[q].todo
        BY <2>3, <2>6
      <4>2. y \in Viewers /\ viewer[y].pc \in Listed \cup {"gone"}
        BY <4>1 DEF TrackInv, PostsInv
      <4> QED  BY <2>9, <4>2
    <3> QED  BY <3>1, <3>2, <3>3 DEF PostsInv
  <2>12. SeenInv'
    <3> SUFFICES ASSUME NEW y \in Viewers, NEW d \in Deliveries, viewer'[y].pc = "watch", viewer'[y].of = d, position[d].n # 0
                 PROVE  position[d].n \in viewer'[y].seen \/ Coming(y, d)'
      BY <1>1 DEF SeenInv
    <3>1. CASE position[d].n \in viewer[y].seen
      BY <2>9, <3>1
    <3>2. CASE Coming(y, d)
      <4>1. PICK q \in Posts : /\ post[q].of = d /\ post[q].n = position[d].n
                               /\ post[q].pc = "copy" \/ (post[q].pc = "write" /\ y \in post[q].todo)
        BY <3>2 DEF Coming
      <4>2. CASE q # p
        BY <1>1, <2>6, <4>1, <4>2 DEF Coming
      <4>3. CASE q = p /\ y # v
        <5>1. post'[p].pc = "write" /\ post'[p].of = d /\ post'[p].n = position[d].n /\ y \in post'[p].todo
          BY <1>1, <2>2, <2>3, <2>6, <4>1, <4>3
        <5> QED  BY <1>1, <5>1 DEF Coming
      <4>4. CASE q = p /\ y = v
        BY <2>2, <2>7, <4>1, <4>4
      <4> QED  BY <4>2, <4>3, <4>4
    <3> QED  BY <2>9, <3>1, <3>2 DEF TrackInv, SeenInv
  <2> QED  BY <2>8, <2>10, <2>11, <2>12 DEF TrackInv
<1> QED  BY <1>3, <1>4 DEF WriteLocation

LEMMA AgedPositionKeeps ==
  ASSUME TrackInv, NEW d \in Deliveries, GrowOld(d)
  PROVE  TrackInv'
<1>1. PICK q : q = [position[d] EXCEPT !.old = TRUE]
  OBVIOUS
<1>2. position' = [position EXCEPT ![d] = q] /\ UNCHANGED <<courierOf, posted, viewer, listeners, post, drove>>
  BY <1>1 DEF GrowOld
<1>3. position[d] \in [n : Nat, old : BOOLEAN]
  BY DEF TrackInv, PositionsInv
<1>4. q = [n |-> position[d].n, old |-> TRUE]
  BY <1>1, <1>3
<1>5. \A y \in Deliveries : position'[y].n = position[y].n
  BY <1>2, <1>4 DEF TrackInv, PositionsInv
<1>6. position' \in [Deliveries -> [n : Nat, old : BOOLEAN]]
  BY <1>2, <1>3, <1>4 DEF TrackInv, PositionsInv
<1>7. PositionsInv'
  BY <1>2, <1>5, <1>6 DEF TrackInv, PositionsInv
<1>8. ViewersInv' /\ PostsInv'
  BY <1>2 DEF TrackInv, ViewersInv, PostsInv, IsParty, Listed
<1>9. SeenInv'
  BY <1>2, <1>5 DEF TrackInv, SeenInv, Coming
<1> QED  BY <1>7, <1>8, <1>9 DEF TrackInv

LEMMA TrackStep == TrackInv /\ [TrackNext]_trackVars => TrackInv'
<1> SUFFICES ASSUME TrackInv, [TrackNext]_trackVars PROVE TrackInv'
  OBVIOUS
<1>1. ASSUME NEW d \in Deliveries, GrowOld(d) PROVE TrackInv'
  BY <1>1, AgedPositionKeeps
<1>2. ASSUME NEW d \in Deliveries, NEW p \in Posts, PostLocation(p, d) PROVE TrackInv'
  BY <1>2, PostedKeeps
<1>3. ASSUME NEW d \in Deliveries, NEW c \in {0} \cup CourierIds, ChangeCourier(d, c) PROVE TrackInv'
  BY <1>3, HandedOverKeeps
<1>4. ASSUME NEW d \in Deliveries, NEW v \in Viewers, NEW who \in People, EnterTracking(v, who, d) PROVE TrackInv'
  BY <1>4, EnteredKeeps
<1>5. ASSUME NEW v \in Viewers, RegisterViewer(v) \/ SnapshotForViewer(v) \/ LeaveTracking(v) PROVE TrackInv'
  BY <1>5, ListedKeeps, ShownKeeps, WentKeeps
<1>6. ASSUME NEW p \in Posts, StoreLocation(p) \/ CopyListeners(p) \/ WriteLocation(p) PROVE TrackInv'
  BY <1>6, StoredKeeps, CopiedKeeps, SentKeeps
<1>7. CASE UNCHANGED trackVars
  <2>1. UNCHANGED <<courierOf, position, posted, viewer, listeners, post, drove>>
    BY <1>7 DEF trackVars
  <2> QED  BY <2>1 DEF TrackInv, PositionsInv, ViewersInv, PostsInv, SeenInv, Coming, IsParty
<1> QED  BY <1>1, <1>2, <1>3, <1>4, <1>5, <1>6, <1>7 DEF TrackNext

LEMMA TrackImplied == TrackInv => TrackingKept
<1> SUFFICES ASSUME TrackInv PROVE TrackingKept
  OBVIOUS
<1>1. TrackTypeOK
  BY DEF TrackInv, PositionsInv, ViewersInv, PostsInv, TrackTypeOK
<1>2. NoViewerMissesPosition
  BY DEF TrackInv, SeenInv, Coming, NoViewerMissesPosition
<1>3. OnlyPartiesSee
  BY DEF TrackInv, ViewersInv, OnlyPartiesSee
<1> QED  BY <1>1, <1>2, <1>3 DEF TrackingKept

\* Whoever watches an order sees where it is as soon as no position is on its way,
\* and only the order's own people see anything, with any number of viewers,
\* requests, orders and changes of hands.
THEOREM TrackingIsKept == TrackSpec => []TrackingKept
<1> QED  BY TrackInitial, TrackStep, TrackImplied, PTL DEF TrackSpec

-----------------------------------------------------------------------------
(* The chat.  Whoever writes to a connection holds its mutex; what is being said *)
(* was saved before.                                                            *)

ChatInv ==
  /\ ChatTypeOK
  /\ mine \in [Chatters -> Rooms \cup {NoRoom}] /\ look \in [Goroutines -> Rooms \cup {NoRoom}]
  /\ writing \in [Chatters -> SUBSET Goroutines] /\ todo \in [Goroutines -> SUBSET Chatters]
  /\ target \in [Goroutines -> Chatters \cup {NoHolder}]
  /\ \A g \in Goroutines : stepOf[g] \in {"lock", "turn", "write"} => look[g] \in Rooms
  /\ \A c \in Chatters : \A g \in writing[c] : connMu[c] = g
  /\ \A g \in Goroutines : says[g] <= saved
  /\ \A c \in Chatters : \A n \in heardOf[c] : n <= saved

\* Goroutines are numbered from 1, so that none is taken for nobody.
LEMMA ChatNumbers ==
  /\ Chatters \subseteq Goroutines /\ \A g \in Goroutines : g \in Nat /\ g # NoHolder
  /\ MaxRooms \in Nat /\ MaxMessages \in Nat /\ NoRoom \notin Rooms
<1>1. NumChatters \in Nat /\ NumChatPosts \in Nat /\ MaxRooms \in Nat /\ MaxMessages \in Nat
  BY ChatAssumption
<1>2. \A g \in Chatters : g \in Nat /\ g # 0
  BY <1>1 DEF Chatters
<1>3. \A g \in ChatPosts : g \in Nat /\ g # 0
  BY <1>1 DEF ChatPosts
<1> QED  BY <1>1, <1>2, <1>3 DEF Goroutines, NoHolder, NoRoom, Rooms

LEMMA ChatInitial == ChatInit => ChatInv
<1> SUFFICES ASSUME ChatInit PROVE ChatInv
  OBVIOUS
<1>1. ChatTypeOK
  BY ChatNumbers DEF ChatInit, ChatTypeOK, ChatSteps, Typing
<1> QED  BY <1>1, ChatNumbers DEF ChatInit, ChatInv, Typing

\* A goroutine's place moves, and nothing else of what the invariant speaks about.
LEMMA StepIs ==
  ASSUME ChatInv, NEW g \in Goroutines, NEW from, NEW to \in ChatSteps, Moves(g, from, to)
  PROVE  /\ stepOf[g] = from /\ stepOf' \in [Goroutines -> ChatSteps] /\ stepOf'[g] = to
         /\ \A x \in Goroutines \ {g} : stepOf'[x] = stepOf[x]
BY DEF Moves, ChatInv, ChatTypeOK

LEMMA CameKeeps ==
  ASSUME ChatInv, NEW c \in Chatters, GetOrCreateRoom(c)
  PROVE  ChatInv'
<1>1. /\ Moves(c, "out", "enter")
      /\ UNCHANGED <<clients, roomsMu, roomMu, connMu, writing, peer, look, todo, target, says, saved, heardOf>>
  BY DEF GetOrCreateRoom
<1>2. c \in Goroutines /\ "enter" \in ChatSteps
  BY ChatNumbers DEF ChatSteps
<1>3. /\ stepOf' \in [Goroutines -> ChatSteps] /\ stepOf'[c] = "enter"
      /\ \A x \in Goroutines \ {c} : stepOf'[x] = stepOf[x]
  BY <1>1, <1>2, StepIs
<1>4. rooms' \in Rooms \cup {NoRoom} /\ made' \in 0..MaxRooms /\ mine' \in [Chatters -> Rooms \cup {NoRoom}]
  <2>1. made \in 0..MaxRooms /\ MaxRooms \in Nat /\ rooms \in Rooms \cup {NoRoom} /\ mine \in [Chatters -> Rooms \cup {NoRoom}]
    BY ChatNumbers DEF ChatInv, ChatTypeOK
  <2>2. CASE rooms # NoRoom
    BY <2>1, <2>2 DEF GetOrCreateRoom
  <2>3. CASE rooms = NoRoom
    <3>1. made < MaxRooms /\ made' = made + 1 /\ rooms' = made + 1 /\ mine' = [mine EXCEPT ![c] = made + 1]
      BY <2>3 DEF GetOrCreateRoom
    <3>2. made + 1 \in 0..MaxRooms /\ made + 1 \in Rooms
      BY <2>1, <3>1 DEF Rooms
    <3> QED  BY <2>1, <3>1, <3>2
  <2> QED  BY <2>2, <2>3
<1> QED  BY <1>1, <1>3, <1>4 DEF ChatInv, ChatTypeOK

\* A step that only moves a goroutine, and perhaps mutexes of rooms, the sets of
\* clients, or what is left to write to.
LEMMA ChatMoves ==
  ASSUME ChatInv, NEW g \in Goroutines, NEW from, NEW to \in ChatSteps, Moves(g, from, to),
         UNCHANGED <<made, connMu, writing, mine, target, says, saved, heardOf>>,
         rooms' \in Rooms \cup {NoRoom}, clients' \in [Rooms -> SUBSET Chatters],
         roomsMu' \in Goroutines \cup {NoHolder}, roomMu' \in [Rooms -> Goroutines \cup {NoHolder}],
         look' \in [Goroutines -> Rooms \cup {NoRoom}], todo' \in [Goroutines -> SUBSET Chatters],
         \A x \in Goroutines \ {g} : look'[x] = look[x],
         to \in {"lock", "turn", "write"} => look'[g] \in Rooms
  PROVE  ChatInv'
<1>1. /\ stepOf' \in [Goroutines -> ChatSteps] /\ stepOf'[g] = to
      /\ \A x \in Goroutines \ {g} : stepOf'[x] = stepOf[x]
  BY StepIs
<1>2. ChatTypeOK'
  BY <1>1 DEF ChatInv, ChatTypeOK
<1>3. ASSUME NEW x \in Goroutines, stepOf'[x] \in {"lock", "turn", "write"} PROVE look'[x] \in Rooms
  <2>1. CASE x = g
    BY <1>1, <1>3, <2>1
  <2>2. CASE x # g
    BY <1>1, <1>3, <2>2 DEF ChatInv
  <2> QED  BY <2>1, <2>2
<1> QED  BY <1>2, <1>3 DEF ChatInv

LEMMA WalkedKeeps ==
  ASSUME ChatInv, NEW c \in Chatters,
         EnterRoom(c) \/ LookUpToLeave(c) \/ RemoveClient(c) \/ LockMapToDrop(c) \/ DropRoom(c)
  PROVE  ChatInv'
<1>1. c \in Goroutines /\ {"out", "enter", "read", "gone", "remove", "drop", "drop.map"} \subseteq ChatSteps
  BY ChatNumbers DEF ChatSteps
<1>2. /\ rooms \in Rooms \cup {NoRoom} /\ clients \in [Rooms -> SUBSET Chatters]
      /\ roomsMu \in Goroutines \cup {NoHolder} /\ roomMu \in [Rooms -> Goroutines \cup {NoHolder}]
      /\ look \in [Goroutines -> Rooms \cup {NoRoom}] /\ todo \in [Goroutines -> SUBSET Chatters]
  BY DEF ChatInv, ChatTypeOK
<1>3. CASE EnterRoom(c)
  <2>1. /\ clients' = [clients EXCEPT ![mine[c]] = @ \cup {c}] /\ Moves(c, "enter", "read")
        /\ UNCHANGED <<rooms, made, roomsMu, roomMu, connMu, writing, mine, look, todo, target, says, saved, heardOf>>
    BY <1>3 DEF EnterRoom
  <2>2. clients' \in [Rooms -> SUBSET Chatters]
    BY <1>2, <2>1
  <2> QED  BY <1>1, <1>2, <2>1, <2>2, ChatMoves
<1>4. CASE LookUpToLeave(c)
  <2>1. PICK to : to = IF rooms = NoRoom THEN "gone" ELSE "remove"
    OBVIOUS
  <2>2. /\ look' = [look EXCEPT ![c] = rooms] /\ Moves(c, "read", to)
        /\ UNCHANGED <<rooms, clients, made, roomsMu, roomMu, connMu, writing, mine, todo, target, says, saved, heardOf>>
    BY <1>4, <2>1 DEF LookUpToLeave
  <2>3. look' \in [Goroutines -> Rooms \cup {NoRoom}] /\ \A x \in Goroutines \ {c} : look'[x] = look[x]
    BY <1>1, <1>2, <2>2
  <2>4. to \in ChatSteps /\ to \notin {"lock", "turn", "write"}
    BY <1>1, <2>1
  <2> QED  BY <1>1, <1>2, <2>2, <2>3, <2>4, ChatMoves
<1>5. CASE RemoveClient(c)
  <2>1. PICK left : left = clients[look[c]] \ {c}
    OBVIOUS
  <2>2. PICK to : to = IF left = {} THEN "drop" ELSE "gone"
    OBVIOUS
  <2>3. /\ clients' = [clients EXCEPT ![look[c]] = left] /\ Moves(c, "remove", to)
        /\ UNCHANGED <<rooms, made, roomsMu, roomMu, connMu, writing, mine, look, todo, target, says, saved, heardOf>>
    BY <1>5, <2>1, <2>2 DEF RemoveClient
  <2>4. clients' \in [Rooms -> SUBSET Chatters]
    BY <1>1, <1>2, <2>1, <2>3
  <2>5. to \in ChatSteps /\ to \notin {"lock", "turn", "write"}
    BY <1>1, <2>2
  <2> QED  BY <1>1, <1>2, <2>3, <2>4, <2>5, ChatMoves
<1>6. CASE LockMapToDrop(c)
  BY <1>1, <1>2, <1>6, ChatMoves DEF LockMapToDrop
<1>7. CASE DropRoom(c)
  <2>1. rooms' \in Rooms \cup {NoRoom}
    BY <1>2, <1>7 DEF DropRoom
  <2> QED  BY <1>1, <1>2, <1>7, <2>1, ChatMoves DEF DropRoom
<1> QED  BY <1>3, <1>4, <1>5, <1>6, <1>7

LEMMA BroadcastKeeps ==
  ASSUME ChatInv, NEW g \in Goroutines, FindRoom(g) \/ LockRoom(g) \/ UnlockRoom(g)
  PROVE  ChatInv'
<1>1. {"read", "gone", "ack", "lock", "turn"} \subseteq ChatSteps
  BY DEF ChatSteps
<1>2. /\ rooms \in Rooms \cup {NoRoom} /\ clients \in [Rooms -> SUBSET Chatters]
      /\ roomsMu \in Goroutines \cup {NoHolder} /\ roomMu \in [Rooms -> Goroutines \cup {NoHolder}]
      /\ look \in [Goroutines -> Rooms \cup {NoRoom}] /\ todo \in [Goroutines -> SUBSET Chatters]
  BY DEF ChatInv, ChatTypeOK
<1>3. AfterBroadcast(g) \in {"read", "gone", "ack"}
  BY DEF AfterBroadcast
<1>4. CASE FindRoom(g)
  <2>1. PICK to : to = IF rooms = NoRoom THEN AfterBroadcast(g) ELSE "lock"
    OBVIOUS
  <2>2. /\ look' = [look EXCEPT ![g] = rooms] /\ Moves(g, "find", to)
        /\ UNCHANGED <<rooms, clients, made, roomsMu, roomMu, connMu, writing, mine, todo, target, says, saved, heardOf>>
    BY <1>4, <2>1 DEF FindRoom
  <2>3. /\ look' \in [Goroutines -> Rooms \cup {NoRoom}] /\ look'[g] = rooms
        /\ \A x \in Goroutines \ {g} : look'[x] = look[x]
    BY <1>2, <2>2
  <2>4. to \in ChatSteps /\ (to \in {"lock", "turn", "write"} => rooms \in Rooms)
    BY <1>1, <1>2, <1>3, <2>1
  <2> QED  BY <1>2, <2>2, <2>3, <2>4, ChatMoves
<1>5. CASE LockRoom(g)
  <2>1. /\ roomMu' = [roomMu EXCEPT ![look[g]] = g] /\ todo' = [todo EXCEPT ![g] = clients[look[g]] \ {g}]
        /\ Moves(g, "lock", "turn")
        /\ UNCHANGED <<rooms, clients, made, roomsMu, connMu, writing, mine, look, target, says, saved, heardOf>>
    BY <1>5 DEF LockRoom
  <2>2. look[g] \in Rooms
    BY <2>1 DEF ChatInv, Moves
  <2>3. roomMu' \in [Rooms -> Goroutines \cup {NoHolder}] /\ todo' \in [Goroutines -> SUBSET Chatters]
    BY <1>2, <2>1, <2>2
  <2> QED  BY <1>1, <1>2, <2>1, <2>2, <2>3, ChatMoves
<1>6. CASE UnlockRoom(g)
  <2>1. /\ roomMu' = [roomMu EXCEPT ![look[g]] = NoHolder] /\ Moves(g, "turn", AfterBroadcast(g))
        /\ UNCHANGED <<rooms, clients, made, roomsMu, connMu, writing, mine, look, todo, target, says, saved, heardOf>>
    BY <1>6 DEF UnlockRoom
  <2>2. roomMu' \in [Rooms -> Goroutines \cup {NoHolder}]
    BY <1>2, <2>1
  <2> QED  BY <1>1, <1>2, <1>3, <2>1, <2>2, ChatMoves
<1> QED  BY <1>4, <1>5, <1>6

\* Only who finds the connection's mutex free takes it, so nobody else is writing.
LEMMA WriterKeeps ==
  ASSUME ChatInv, NEW g \in Goroutines, NEW c \in Chatters, NEW from, NEW to \in ChatSteps, Moves(g, from, to),
         connMu[c] = NoHolder, to \in {"lock", "turn", "write"} => look[g] \in Rooms,
         connMu' = [connMu EXCEPT ![c] = g], writing' = [writing EXCEPT ![c] = @ \cup {g}],
         UNCHANGED <<rooms, clients, made, roomsMu, roomMu, mine, look, says, saved, heardOf>>,
         todo' \in [Goroutines -> SUBSET Chatters], target' \in [Goroutines -> Chatters \cup {NoHolder}]
  PROVE  ChatInv'
<1>1. /\ stepOf' \in [Goroutines -> ChatSteps] /\ stepOf'[g] = to
      /\ \A x \in Goroutines \ {g} : stepOf'[x] = stepOf[x]
  BY StepIs
<1>2. /\ connMu \in [Chatters -> Goroutines \cup {NoHolder}] /\ writing \in [Chatters -> SUBSET Goroutines]
      /\ \A d \in Chatters : \A x \in writing[d] : connMu[d] = x
  BY DEF ChatInv, ChatTypeOK
<1>3. connMu' \in [Chatters -> Goroutines \cup {NoHolder}] /\ writing' \in [Chatters -> SUBSET Goroutines]
  BY <1>2
<1>4. writing[c] = {}
  <2>1. \A x \in writing[c] : x \in Goroutines /\ x = NoHolder
    BY <1>2
  <2> QED  BY <2>1, ChatNumbers
<1>5. ASSUME NEW d \in Chatters, NEW x \in writing'[d] PROVE connMu'[d] = x
  <2>1. CASE d = c
    BY <1>2, <1>4, <1>5, <2>1
  <2>2. CASE d # c
    BY <1>2, <1>5, <2>2
  <2> QED  BY <2>1, <2>2
<1>6. ChatTypeOK'
  BY <1>1, <1>3 DEF ChatInv, ChatTypeOK
<1>7. \A x \in Goroutines : stepOf'[x] \in {"lock", "turn", "write"} => look[x] \in Rooms
  BY <1>1 DEF ChatInv
<1> QED  BY <1>3, <1>5, <1>6, <1>7 DEF ChatInv

LEMMA WroteKeeps ==
  ASSUME ChatInv, NEW g \in Goroutines, NEW c \in Chatters, WriteTo(g, c)
  PROVE  ChatInv'
<1>1. /\ connMu[c] = NoHolder /\ Moves(g, "turn", "write") /\ connMu' = [connMu EXCEPT ![c] = g]
      /\ writing' = [writing EXCEPT ![c] = @ \cup {g}]
      /\ todo' = [todo EXCEPT ![g] = @ \ {c}] /\ target' = [target EXCEPT ![g] = c]
      /\ UNCHANGED <<rooms, clients, made, roomsMu, roomMu, mine, look, says, saved, heardOf>>
  BY DEF WriteTo
<1>2. "write" \in ChatSteps /\ look[g] \in Rooms
  BY <1>1 DEF ChatSteps, ChatInv, Moves
<1>3. todo' \in [Goroutines -> SUBSET Chatters] /\ target' \in [Goroutines -> Chatters \cup {NoHolder}]
  BY <1>1 DEF ChatInv
<1> QED  BY <1>1, <1>2, <1>3, WriterKeeps

LEMMA AckKeeps ==
  ASSUME ChatInv, NEW c \in Chatters, AckSpeaker(c)
  PROVE  ChatInv'
<1>1. /\ connMu[c] = NoHolder /\ Moves(c, "ack", "acked") /\ connMu' = [connMu EXCEPT ![c] = c]
      /\ writing' = [writing EXCEPT ![c] = @ \cup {c}]
      /\ UNCHANGED <<rooms, clients, made, roomsMu, roomMu, mine, look, todo, target, says, saved, heardOf>>
  BY DEF AckSpeaker
<1>2. "acked" \in ChatSteps /\ c \in Goroutines
  BY ChatNumbers DEF ChatSteps
<1>3. todo' \in [Goroutines -> SUBSET Chatters] /\ target' \in [Goroutines -> Chatters \cup {NoHolder}]
  BY <1>1 DEF ChatInv
<1> QED  BY <1>1, <1>2, <1>3, WriterKeeps

\* A write ends: its goroutine lets go of the connection, and a peer that is there
\* has heard what it said.
LEMMA WrittenKeeps ==
  ASSUME ChatInv, NEW g \in Goroutines, NEW c, NEW from, NEW to \in ChatSteps, Moves(g, from, to), Written(g, c),
         clients' \in [Rooms -> SUBSET Chatters], to \in {"lock", "turn", "write"} => look[g] \in Rooms,
         UNCHANGED <<rooms, made, roomsMu, roomMu, mine, look, todo, target, says, saved>>
  PROVE  ChatInv'
<1>1. /\ stepOf' \in [Goroutines -> ChatSteps] /\ stepOf'[g] = to
      /\ \A x \in Goroutines \ {g} : stepOf'[x] = stepOf[x]
  BY StepIs
<1>2. /\ connMu \in [Chatters -> Goroutines \cup {NoHolder}] /\ writing \in [Chatters -> SUBSET Goroutines]
      /\ \A d \in Chatters : \A x \in writing[d] : connMu[d] = x
      /\ heardOf \in [Chatters -> SUBSET (1..MaxMessages)] /\ says[g] \in 0..MaxMessages /\ says[g] <= saved
      /\ \A d \in Chatters : \A n \in heardOf[d] : n <= saved
  BY DEF ChatInv, ChatTypeOK
<1>3. PICK mu : mu = IF connMu[c] = g THEN NoHolder ELSE connMu[c]
  OBVIOUS
<1>4. connMu' = [connMu EXCEPT ![c] = mu] /\ writing' = [writing EXCEPT ![c] = @ \ {g}]
  BY <1>3 DEF Written
<1>5. c \in Chatters => mu \in Goroutines \cup {NoHolder}
  BY <1>2, <1>3
<1>6. connMu' \in [Chatters -> Goroutines \cup {NoHolder}] /\ writing' \in [Chatters -> SUBSET Goroutines]
  BY <1>2, <1>4, <1>5
<1>7. ASSUME NEW d \in Chatters, NEW x \in writing'[d] PROVE connMu'[d] = x
  <2>1. CASE d = c
    BY <1>2, <1>3, <1>4, <1>7, <2>1
  <2>2. CASE d # c
    BY <1>2, <1>4, <1>7, <2>2
  <2> QED  BY <2>1, <2>2
<1>8. \A d \in Chatters : heardOf'[d] \subseteq heardOf[d] \cup ({says[g]} \ {Typing})
  BY <1>2 DEF Written
<1>9. heardOf' = [d \in Chatters |-> heardOf'[d]]
  BY <1>2 DEF Written
<1>10. says[g] # Typing => says[g] \in 1..MaxMessages
  <2>1. MaxMessages \in Nat
    BY ChatNumbers
  <2> QED  BY <1>2, <2>1 DEF Typing
<1>11. /\ heardOf' \in [Chatters -> SUBSET (1..MaxMessages)]
       /\ \A d \in Chatters : \A n \in heardOf'[d] : n <= saved
  <2>1. ASSUME NEW d \in Chatters, NEW n \in heardOf'[d] PROVE n \in 1..MaxMessages /\ n <= saved
    BY <1>2, <1>8, <1>10, <2>1
  <2> QED  BY <1>9, <2>1
<1>12. ChatTypeOK'
  BY <1>1, <1>6, <1>11 DEF ChatInv, ChatTypeOK
<1>13. \A x \in Goroutines : stepOf'[x] \in {"lock", "turn", "write"} => look[x] \in Rooms
  BY <1>1 DEF ChatInv
<1> QED  BY <1>6, <1>7, <1>11, <1>12, <1>13 DEF ChatInv

LEMMA EndedKeeps ==
  ASSUME ChatInv, NEW g \in Goroutines, EndWrite(g)
  PROVE  ChatInv'
<1>1. PICK c : c = target[g]
  OBVIOUS
<1>2. /\ Moves(g, "write", "turn") /\ Written(g, c)
      /\ clients' = clients \/ clients' = [clients EXCEPT ![look[g]] = @ \ {c}]
      /\ UNCHANGED <<rooms, made, roomsMu, roomMu, mine, look, todo, target, says, saved>>
  BY <1>1 DEF EndWrite, DropClient
<1>3. "turn" \in ChatSteps /\ look[g] \in Rooms
  BY <1>2 DEF ChatSteps, ChatInv, Moves
<1>4. clients' \in [Rooms -> SUBSET Chatters]
  BY <1>2 DEF ChatInv, ChatTypeOK
<1> QED  BY <1>2, <1>3, <1>4, WrittenKeeps

LEMMA EndedAckKeeps ==
  ASSUME ChatInv, NEW c \in Chatters, EndAck(c)
  PROVE  ChatInv'
<1>1. /\ Moves(c, "acked", "read") /\ Written(c, c)
      /\ UNCHANGED <<rooms, clients, made, roomsMu, roomMu, mine, look, todo, target, says, saved>>
  BY DEF EndAck
<1>2. "read" \in ChatSteps /\ c \in Goroutines
  BY ChatNumbers DEF ChatSteps
<1>3. clients' \in [Rooms -> SUBSET Chatters]
  BY <1>1 DEF ChatInv, ChatTypeOK
<1> QED  BY <1>1, <1>2, <1>3, WrittenKeeps

LEMMA SpokenKeeps ==
  ASSUME ChatInv, NEW g \in Goroutines, NEW from, NEW n \in Nat, Moves(g, from, "find"),
         says' = [says EXCEPT ![g] = n], saved' \in 0..MaxMessages, saved <= saved', n <= saved',
         UNCHANGED <<rooms, clients, made, roomsMu, roomMu, connMu, writing, mine, look, todo, target, heardOf>>
  PROVE  ChatInv'
<1>1. "find" \in ChatSteps
  BY DEF ChatSteps
<1>2. /\ stepOf' \in [Goroutines -> ChatSteps] /\ stepOf'[g] = "find"
      /\ \A x \in Goroutines \ {g} : stepOf'[x] = stepOf[x]
  BY <1>1, StepIs
<1>3. /\ says \in [Goroutines -> 0..MaxMessages] /\ MaxMessages \in Nat /\ saved \in 0..MaxMessages
      /\ \A x \in Goroutines : says[x] <= saved
      /\ heardOf \in [Chatters -> SUBSET (1..MaxMessages)] /\ \A c \in Chatters : \A m \in heardOf[c] : m <= saved
  BY ChatNumbers DEF ChatInv, ChatTypeOK
<1>4. n \in 0..MaxMessages
  BY <1>3
<1>5. says' \in [Goroutines -> 0..MaxMessages]
  BY <1>3, <1>4
<1>6. \A x \in Goroutines : says'[x] <= saved'
  <2>1. ASSUME NEW x \in Goroutines PROVE says'[x] <= saved'
    <3>1. CASE x = g
      BY <1>3, <3>1
    <3>2. CASE x # g
      <4>1. says'[x] = says[x] /\ says[x] <= saved /\ says[x] \in Nat /\ saved \in Nat /\ saved' \in Nat
        BY <1>3, <3>2
      <4> QED  BY <4>1
    <3> QED  BY <3>1, <3>2
  <2> QED  BY <2>1
<1>7. \A c \in Chatters : \A m \in heardOf[c] : m <= saved'
  <2>1. ASSUME NEW c \in Chatters, NEW m \in heardOf[c] PROVE m <= saved'
    <3>1. m \in Nat /\ m <= saved /\ saved \in Nat /\ saved' \in Nat
      BY <1>3
    <3> QED  BY <3>1
  <2> QED  BY <2>1
<1>8. ChatTypeOK'
  BY <1>2, <1>5 DEF ChatInv, ChatTypeOK
<1>9. \A x \in Goroutines : stepOf'[x] \in {"lock", "turn", "write"} => look[x] \in Rooms
  BY <1>2 DEF ChatInv
<1> QED  BY <1>6, <1>7, <1>8, <1>9 DEF ChatInv

LEMMA SpeechKeeps ==
  ASSUME ChatInv
  PROVE  /\ \A g \in Goroutines : Speak(g) => ChatInv'
         /\ \A c \in Chatters : Type(c) => ChatInv'
<1>1. saved \in 0..MaxMessages /\ MaxMessages \in Nat
  BY ChatNumbers DEF ChatInv, ChatTypeOK
<1>2. ASSUME NEW g \in Goroutines, Speak(g) PROVE ChatInv'
  <2>1. /\ saved < MaxMessages /\ saved' = saved + 1 /\ says' = [says EXCEPT ![g] = saved + 1] /\ Moves(g, Begin(g), "find")
        /\ UNCHANGED <<rooms, clients, made, roomsMu, roomMu, connMu, writing, mine, look, todo, target, heardOf>>
    BY <1>2 DEF Speak
  <2>2. saved + 1 \in Nat /\ saved' \in 0..MaxMessages /\ saved <= saved' /\ saved + 1 <= saved'
    BY <1>1, <2>1
  <2> QED  BY <2>1, <2>2, SpokenKeeps
<1>3. ASSUME NEW c \in Chatters, Type(c) PROVE ChatInv'
  <2>1. /\ says' = [says EXCEPT ![c] = 0] /\ Moves(c, "read", "find") /\ saved' = saved
        /\ UNCHANGED <<rooms, clients, made, roomsMu, roomMu, connMu, writing, mine, look, todo, target, heardOf>>
    BY <1>3 DEF Type, Typing
  <2>2. c \in Goroutines /\ saved' \in 0..MaxMessages /\ saved <= saved' /\ 0 <= saved'
    BY <1>1, <2>1, ChatNumbers
  <2> QED  BY <2>1, <2>2, SpokenKeeps
<1> QED  BY <1>2, <1>3

LEMMA ChatStep == ChatInv /\ [ChatNext]_chatVars => ChatInv'
<1> SUFFICES ASSUME ChatInv, [ChatNext]_chatVars PROVE ChatInv'
  OBVIOUS
<1>1. ASSUME NEW g \in Goroutines, Speak(g) PROVE ChatInv'
  BY <1>1, SpeechKeeps
<1>2. ASSUME NEW g \in Goroutines, Goes(g) PROVE ChatInv'
  <2>1. CASE FindRoom(g) \/ LockRoom(g) \/ UnlockRoom(g)
    BY <2>1, BroadcastKeeps
  <2>2. CASE EndWrite(g)
    BY <2>2, EndedKeeps
  <2>3. ASSUME NEW c \in Chatters, WriteTo(g, c) PROVE ChatInv'
    BY <2>3, WroteKeeps
  <2>4. CASE g \in Chatters /\ (EnterRoom(g) \/ RemoveClient(g) \/ LockMapToDrop(g) \/ DropRoom(g))
    BY <2>4, WalkedKeeps
  <2>5. CASE g \in Chatters /\ AckSpeaker(g)
    BY <2>5, AckKeeps
  <2>6. CASE g \in Chatters /\ EndAck(g)
    BY <2>6, EndedAckKeeps
  <2> QED  BY <1>2, <2>1, <2>2, <2>3, <2>4, <2>5, <2>6 DEF Goes
<1>3. ASSUME NEW c \in Chatters, GetOrCreateRoom(c) PROVE ChatInv'
  BY <1>3, CameKeeps
<1>4. ASSUME NEW c \in Chatters, PeerGoes(c) PROVE ChatInv'
  BY <1>4 DEF PeerGoes, ChatInv, ChatTypeOK
<1>5. ASSUME NEW c \in Chatters, Type(c) PROVE ChatInv'
  BY <1>5, SpeechKeeps
<1>6. ASSUME NEW c \in Chatters, LookUpToLeave(c) PROVE ChatInv'
  BY <1>6, WalkedKeeps
<1>7. CASE UNCHANGED chatVars
  BY <1>7 DEF chatVars, ChatInv, ChatTypeOK
<1> QED  BY <1>1, <1>2, <1>3, <1>4, <1>5, <1>6, <1>7 DEF ChatNext

\* Who holds what, and where he stands: a room while he broadcasts in it, a connection
\* while he writes to it, the map while he drops the room.
HoldersInv ==
  /\ \A g \in Goroutines : stepOf[g] # "stuck" /\ (stepOf[g] \in {"enter", "ack"} => g \in Chatters)
  /\ \A g \in Goroutines : stepOf[g] \in {"remove", "drop", "drop.map"} => look[g] \in Rooms
  /\ \A c \in Chatters : stepOf[c] = "enter" => mine[c] \in Rooms
  /\ \A g \in Goroutines, r \in Rooms : roomMu[r] = g => stepOf[g] \in {"turn", "write"} /\ look[g] = r
  /\ \A g \in Goroutines, c \in Chatters : connMu[c] = g =>
       (stepOf[g] = "write" /\ target[g] = c) \/ (stepOf[g] = "acked" /\ g = c)
  /\ \A g \in Goroutines : roomsMu = g => stepOf[g] = "drop.map"

LEMMA HoldersInitial == ChatInit => HoldersInv
BY ChatNumbers DEF ChatInit, HoldersInv

\* One goroutine moves; nobody else gets a mutex, and what it holds afterwards it
\* holds where it then stands.
LEMMA HolderMoves ==
  ASSUME ChatInv, HoldersInv, NEW g \in Goroutines, NEW from, NEW to \in ChatSteps, Moves(g, from, to),
         to # "stuck", to \in {"enter", "ack"} => g \in Chatters,
         \A x \in Goroutines \ {g} : look'[x] = look[x] /\ target'[x] = target[x],
         \A x \in Chatters \ {g} : mine'[x] = mine[x],
         to \in {"remove", "drop", "drop.map"} => look'[g] \in Rooms,
         to = "enter" => mine'[g] \in Rooms,
         \A r \in Rooms : roomMu'[r] \in {roomMu[r], g, NoHolder},
         \A r \in Rooms : roomMu'[r] = g => to \in {"turn", "write"} /\ look'[g] = r,
         \A c \in Chatters : connMu'[c] \in {connMu[c], g, NoHolder},
         \A c \in Chatters : connMu'[c] = g => (to = "write" /\ target'[g] = c) \/ (to = "acked" /\ g = c),
         roomsMu' \in {roomsMu, g, NoHolder}, roomsMu' = g => to = "drop.map"
  PROVE  HoldersInv'
<1>1. stepOf'[g] = to /\ \A x \in Goroutines \ {g} : stepOf'[x] = stepOf[x]
  BY StepIs
<1>2. Chatters \subseteq Goroutines /\ \A x \in Goroutines : x # NoHolder
  BY ChatNumbers
<1>3. ASSUME NEW x \in Goroutines
      PROVE  /\ stepOf'[x] # "stuck" /\ (stepOf'[x] \in {"enter", "ack"} => x \in Chatters)
             /\ stepOf'[x] \in {"remove", "drop", "drop.map"} => look'[x] \in Rooms
             /\ roomsMu' = x => stepOf'[x] = "drop.map"
  <2>1. CASE x = g
    BY <1>1, <2>1
  <2>2. CASE x # g
    BY <1>1, <1>2, <2>2 DEF HoldersInv
  <2> QED  BY <2>1, <2>2
<1>4. ASSUME NEW c \in Chatters, stepOf'[c] = "enter" PROVE mine'[c] \in Rooms
  BY <1>1, <1>2, <1>4 DEF HoldersInv
<1>5. ASSUME NEW x \in Goroutines, NEW r \in Rooms, roomMu'[r] = x
      PROVE  stepOf'[x] \in {"turn", "write"} /\ look'[x] = r
  <2>1. CASE x = g
    BY <1>1, <1>5, <2>1
  <2>2. CASE x # g
    <3>1. roomMu[r] = x
      BY <1>2, <1>5, <2>2
    <3> QED  BY <1>1, <2>2, <3>1 DEF HoldersInv
  <2> QED  BY <2>1, <2>2
<1>6. ASSUME NEW x \in Goroutines, NEW c \in Chatters, connMu'[c] = x
      PROVE  (stepOf'[x] = "write" /\ target'[x] = c) \/ (stepOf'[x] = "acked" /\ x = c)
  <2>1. CASE x = g
    BY <1>1, <1>6, <2>1
  <2>2. CASE x # g
    <3>1. connMu[c] = x
      BY <1>2, <1>6, <2>2
    <3> QED  BY <1>1, <2>2, <3>1 DEF HoldersInv
  <2> QED  BY <2>1, <2>2
<1> QED  BY <1>3, <1>4, <1>5, <1>6 DEF HoldersInv

\* Whoever is at a step without mutexes holds none.
LEMMA HoldsNothing ==
  ASSUME HoldersInv, NEW g \in Goroutines, stepOf[g] \notin {"turn", "write", "acked", "drop.map"}
  PROVE  /\ \A r \in Rooms : roomMu[r] # g
         /\ \A c \in Chatters : connMu[c] # g
         /\ roomsMu # g
BY DEF HoldersInv

LEMMA ComersHold ==
  ASSUME ChatInv, HoldersInv, NEW c \in Chatters, GetOrCreateRoom(c) \/ EnterRoom(c)
  PROVE  HoldersInv'
<1>1. c \in Goroutines /\ {"enter", "read"} \subseteq ChatSteps
  BY ChatNumbers DEF ChatSteps
<1>2. CASE GetOrCreateRoom(c)
  <2>1. Moves(c, "out", "enter") /\ UNCHANGED <<roomsMu, roomMu, connMu, look, target>>
    BY <1>2 DEF GetOrCreateRoom
  <2>2. \A r \in Rooms : roomMu[r] # c
    BY <1>1, <2>1, HoldsNothing DEF Moves
  <2>3. (\A d \in Chatters : connMu[d] # c) /\ roomsMu # c
    BY <1>1, <2>1, HoldsNothing DEF Moves
  <2>4. rooms \in Rooms \cup {NoRoom} /\ mine \in [Chatters -> Rooms \cup {NoRoom}] /\ made \in 0..MaxRooms /\ MaxRooms \in Nat
    BY ChatNumbers DEF ChatInv, ChatTypeOK
  <2>5. mine'[c] \in Rooms /\ \A x \in Chatters \ {c} : mine'[x] = mine[x]
    <3>1. CASE rooms # NoRoom
      BY <1>2, <2>4, <3>1 DEF GetOrCreateRoom
    <3>2. CASE rooms = NoRoom
      <4>1. made < MaxRooms /\ mine' = [mine EXCEPT ![c] = made + 1]
        BY <1>2, <3>2 DEF GetOrCreateRoom
      <4>2. made + 1 \in Rooms
        BY <2>4, <4>1 DEF Rooms
      <4> QED  BY <2>4, <4>1, <4>2
    <3> QED  BY <3>1, <3>2
  <2> QED  BY <1>1, <2>1, <2>2, <2>3, <2>5, HolderMoves
<1>3. CASE EnterRoom(c)
  <2>1. Moves(c, "enter", "read") /\ UNCHANGED <<roomsMu, roomMu, connMu, mine, look, target>>
    BY <1>3 DEF EnterRoom
  <2>2. \A r \in Rooms : roomMu[r] # c
    BY <1>1, <2>1, HoldsNothing DEF Moves
  <2>3. (\A d \in Chatters : connMu[d] # c) /\ roomsMu # c
    BY <1>1, <2>1, HoldsNothing DEF Moves
  <2> QED  BY <1>1, <2>1, <2>2, <2>3, HolderMoves
<1> QED  BY <1>2, <1>3

LEMMA LeaversHold ==
  ASSUME ChatInv, HoldersInv, NEW c \in Chatters,
         LookUpToLeave(c) \/ RemoveClient(c) \/ LockMapToDrop(c) \/ DropRoom(c)
  PROVE  HoldersInv'
<1>1. c \in Goroutines /\ {"gone", "remove", "drop", "drop.map"} \subseteq ChatSteps
  BY ChatNumbers DEF ChatSteps
<1>2. /\ rooms \in Rooms \cup {NoRoom} /\ look \in [Goroutines -> Rooms \cup {NoRoom}]
  BY DEF ChatInv, ChatTypeOK
<1>3. CASE LookUpToLeave(c)
  <2>1. PICK to : to = IF rooms = NoRoom THEN "gone" ELSE "remove"
    OBVIOUS
  <2>2. Moves(c, "read", to) /\ look' = [look EXCEPT ![c] = rooms] /\ UNCHANGED <<roomsMu, roomMu, connMu, mine, target>>
    BY <1>3, <2>1 DEF LookUpToLeave
  <2>3. \A r \in Rooms : roomMu[r] # c
    BY <1>1, <2>2, HoldsNothing DEF Moves
  <2>4. (\A d \in Chatters : connMu[d] # c) /\ roomsMu # c
    BY <1>1, <2>2, HoldsNothing DEF Moves
  <2>5. to \in {"gone", "remove"} /\ (to = "remove" => rooms \in Rooms)
    BY <1>2, <2>1
  <2>6. (\A x \in Goroutines \ {c} : look'[x] = look[x]) /\ look'[c] = rooms
    BY <1>1, <1>2, <2>2
  <2> QED  BY <1>1, <2>2, <2>3, <2>4, <2>5, <2>6, HolderMoves
<1>4. CASE RemoveClient(c)
  <2>1. PICK to : Moves(c, "remove", to) /\ to \in {"drop", "gone"}
    BY <1>4 DEF RemoveClient
  <2>2. UNCHANGED <<roomsMu, roomMu, connMu, mine, look, target>>
    BY <1>4 DEF RemoveClient
  <2>3. \A r \in Rooms : roomMu[r] # c
    BY <1>1, <2>1, HoldsNothing DEF Moves
  <2>4. (\A d \in Chatters : connMu[d] # c) /\ roomsMu # c
    BY <1>1, <2>1, HoldsNothing DEF Moves
  <2>5. look[c] \in Rooms
    BY <1>1, <2>1 DEF HoldersInv, Moves
  <2> QED  BY <1>1, <2>1, <2>2, <2>3, <2>4, <2>5, HolderMoves
<1>5. CASE LockMapToDrop(c)
  <2>1. Moves(c, "drop", "drop.map") /\ roomsMu' = c /\ UNCHANGED <<roomMu, connMu, mine, look, target>>
    BY <1>5 DEF LockMapToDrop
  <2>2. \A r \in Rooms : roomMu[r] # c
    BY <1>1, <2>1, HoldsNothing DEF Moves
  <2>3. \A d \in Chatters : connMu[d] # c
    BY <1>1, <2>1, HoldsNothing DEF Moves
  <2>4. look[c] \in Rooms
    BY <1>1, <2>1 DEF HoldersInv, Moves
  <2> QED  BY <1>1, <2>1, <2>2, <2>3, <2>4, HolderMoves
<1>6. CASE DropRoom(c)
  <2>1. Moves(c, "drop.map", "gone") /\ roomsMu' = NoHolder /\ UNCHANGED <<roomMu, connMu, mine, look, target>>
    BY <1>6 DEF DropRoom
  <2>2. (\A r \in Rooms : roomMu[r] # c) /\ \A d \in Chatters : connMu[d] # c
    BY <1>1, <2>1 DEF HoldersInv, Moves
  <2>3. NoHolder # c
    BY <1>1, ChatNumbers
  <2> QED  BY <1>1, <2>1, <2>2, <2>3, HolderMoves
<1> QED  BY <1>3, <1>4, <1>5, <1>6

LEMMA SpeakersHold ==
  ASSUME ChatInv, HoldersInv, NEW g \in Goroutines, NEW from, NEW to \in ChatSteps, Moves(g, from, to),
         from \in {"out", "read", "find"}, to \in {"find", "lock", "read", "gone", "ack"}, to = "ack" => g \in Chatters,
         \A x \in Goroutines \ {g} : look'[x] = look[x],
         UNCHANGED <<roomsMu, roomMu, connMu, mine, target>>
  PROVE  HoldersInv'
<1>1. \A r \in Rooms : roomMu[r] # g
  BY HoldsNothing DEF Moves
<1>2. (\A d \in Chatters : connMu[d] # g) /\ roomsMu # g
  BY HoldsNothing DEF Moves
<1> QED  BY <1>1, <1>2, HolderMoves

LEMMA FindersHold ==
  ASSUME ChatInv, HoldersInv, NEW g \in Goroutines, Speak(g) \/ (g \in Chatters /\ Type(g)) \/ FindRoom(g)
  PROVE  HoldersInv'
<1>1. {"find", "lock", "read", "gone", "ack"} \subseteq ChatSteps
  BY DEF ChatSteps
<1>2. CASE Speak(g)
  <2>1. PICK from : Moves(g, from, "find") /\ from \in {"out", "read"}
    BY <1>2 DEF Speak, Begin
  <2> QED  BY <1>1, <1>2, <2>1, SpeakersHold DEF Speak
<1>3. CASE g \in Chatters /\ Type(g)
  BY <1>1, <1>3, SpeakersHold DEF Type
<1>4. CASE FindRoom(g)
  <2>1. AfterBroadcast(g) \in {"read", "gone", "ack"} /\ (AfterBroadcast(g) = "ack" => g \in Chatters)
    BY DEF AfterBroadcast, Goroutines
  <2>2. PICK to : Moves(g, "find", to) /\ to \in {"lock", "read", "gone", "ack"} /\ (to = "ack" => g \in Chatters)
    BY <1>4, <2>1 DEF FindRoom
  <2>3. look' = [look EXCEPT ![g] = rooms] /\ UNCHANGED <<roomsMu, roomMu, connMu, mine, target>>
    BY <1>4 DEF FindRoom
  <2>4. \A x \in Goroutines \ {g} : look'[x] = look[x]
    BY <2>3 DEF ChatInv
  <2> QED  BY <1>1, <2>2, <2>3, <2>4, SpeakersHold
<1> QED  BY <1>2, <1>3, <1>4

\* Who takes a room, and who leaves it, stand before and behind the broadcast.
LEMMA BroadcastersHold ==
  ASSUME ChatInv, HoldersInv, NEW g \in Goroutines, LockRoom(g) \/ UnlockRoom(g)
  PROVE  HoldersInv'
<1>1. {"read", "gone", "ack", "turn"} \subseteq ChatSteps /\ g # NoHolder
  BY ChatNumbers DEF ChatSteps
<1>2. roomMu \in [Rooms -> Goroutines \cup {NoHolder}]
  BY DEF ChatInv, ChatTypeOK
<1>3. CASE LockRoom(g)
  <2>1. /\ Moves(g, "lock", "turn") /\ roomMu' = [roomMu EXCEPT ![look[g]] = g]
        /\ UNCHANGED <<roomsMu, connMu, mine, look, target>>
    BY <1>3 DEF LockRoom
  <2>2. \A r \in Rooms : roomMu[r] # g
    BY <2>1, HoldsNothing DEF Moves
  <2>3. (\A d \in Chatters : connMu[d] # g) /\ roomsMu # g
    BY <2>1, HoldsNothing DEF Moves
  <2>4. \A r \in Rooms : roomMu'[r] \in {roomMu[r], g} /\ (roomMu'[r] = g => look[g] = r)
    BY <1>2, <2>1, <2>2
  <2> QED  BY <1>1, <2>1, <2>3, <2>4, HolderMoves
<1>4. CASE UnlockRoom(g)
  <2>1. AfterBroadcast(g) \in {"read", "gone", "ack"} /\ (AfterBroadcast(g) = "ack" => g \in Chatters)
    BY DEF AfterBroadcast, Goroutines
  <2>2. PICK to : Moves(g, "turn", to) /\ to \in {"read", "gone", "ack"} /\ (to = "ack" => g \in Chatters)
    BY <1>4, <2>1 DEF UnlockRoom
  <2>3. roomMu' = [roomMu EXCEPT ![look[g]] = NoHolder] /\ UNCHANGED <<roomsMu, connMu, mine, look, target>>
    BY <1>4 DEF UnlockRoom
  <2>4. (\A d \in Chatters : connMu[d] # g) /\ roomsMu # g
    BY <2>2 DEF HoldersInv, Moves
  <2>5. ASSUME NEW r \in Rooms PROVE roomMu'[r] \in {roomMu[r], NoHolder} /\ roomMu'[r] # g
    <3>1. roomMu[r] = g => look[g] = r
      BY DEF HoldersInv
    <3> QED  BY <1>1, <1>2, <2>3, <3>1
  <2> QED  BY <1>1, <2>2, <2>3, <2>4, <2>5, HolderMoves
<1> QED  BY <1>3, <1>4

LEMMA WritersHold ==
  ASSUME ChatInv, HoldersInv, NEW g \in Goroutines, NEW c \in Chatters, WriteTo(g, c) \/ (g = c /\ AckSpeaker(c))
  PROVE  HoldersInv'
<1>1. {"write", "acked"} \subseteq ChatSteps /\ g # NoHolder
  BY ChatNumbers DEF ChatSteps
<1>2. connMu \in [Chatters -> Goroutines \cup {NoHolder}] /\ target \in [Goroutines -> Chatters \cup {NoHolder}]
  BY DEF ChatInv, ChatTypeOK
<1>3. CASE WriteTo(g, c)
  <2>1. /\ Moves(g, "turn", "write") /\ connMu' = [connMu EXCEPT ![c] = g] /\ target' = [target EXCEPT ![g] = c]
        /\ UNCHANGED <<roomsMu, roomMu, mine, look>>
    BY <1>3 DEF WriteTo
  <2>2. (\A d \in Chatters : connMu[d] # g) /\ roomsMu # g
    BY <2>1 DEF HoldersInv, Moves
  <2>3. \A r \in Rooms : roomMu[r] = g => look[g] = r
    BY DEF HoldersInv
  <2>4. \A d \in Chatters : connMu'[d] \in {connMu[d], g} /\ (connMu'[d] = g => d = c)
    BY <1>2, <2>1, <2>2
  <2>5. target'[g] = c /\ \A x \in Goroutines \ {g} : target'[x] = target[x]
    BY <1>2, <2>1
  <2> QED  BY <1>1, <2>1, <2>2, <2>3, <2>4, <2>5, HolderMoves
<1>4. CASE g = c /\ AckSpeaker(c)
  <2>1. /\ Moves(g, "ack", "acked") /\ connMu' = [connMu EXCEPT ![c] = c] /\ g = c
        /\ UNCHANGED <<roomsMu, roomMu, mine, look, target>>
    BY <1>4 DEF AckSpeaker
  <2>2. \A r \in Rooms : roomMu[r] # g
    BY <2>1, HoldsNothing DEF Moves
  <2>3. (\A d \in Chatters : connMu[d] # g) /\ roomsMu # g
    BY <2>1, HoldsNothing DEF Moves
  <2>4. \A d \in Chatters : connMu'[d] \in {connMu[d], g} /\ (connMu'[d] = g => d = c)
    BY <1>2, <2>1, <2>3
  <2> QED  BY <1>1, <2>1, <2>2, <2>3, <2>4, HolderMoves
<1> QED  BY <1>3, <1>4

\* Whoever has written holds no connection any more.
LEMMA EndersHold ==
  ASSUME ChatInv, HoldersInv, NEW g \in Goroutines, EndWrite(g) \/ (g \in Chatters /\ EndAck(g))
  PROVE  HoldersInv'
<1>1. {"turn", "read"} \subseteq ChatSteps /\ g # NoHolder
  BY ChatNumbers DEF ChatSteps
<1>2. connMu \in [Chatters -> Goroutines \cup {NoHolder}]
  BY DEF ChatInv, ChatTypeOK
<1>3. ASSUME NEW c, Written(g, c), \A d \in Chatters : connMu[d] = g => d = c
      PROVE  \A d \in Chatters : connMu'[d] \in {connMu[d], NoHolder} /\ connMu'[d] # g
  <2>1. PICK mu : mu = IF connMu[c] = g THEN NoHolder ELSE connMu[c]
    OBVIOUS
  <2>2. connMu' = [connMu EXCEPT ![c] = mu]
    BY <1>3, <2>1 DEF Written
  <2>3. mu \in {connMu[c], NoHolder} /\ mu # g
    BY <1>1, <2>1
  <2> QED  BY <1>2, <1>3, <2>2, <2>3
<1>4. CASE EndWrite(g)
  <2>1. PICK c : c = target[g]
    OBVIOUS
  <2>2. Moves(g, "write", "turn") /\ Written(g, c) /\ UNCHANGED <<roomsMu, roomMu, mine, look, target>>
    BY <1>4, <2>1 DEF EndWrite, DropClient
  <2>3. \A d \in Chatters : connMu[d] = g => d = c
    BY <2>1, <2>2 DEF HoldersInv, Moves
  <2>4. roomsMu # g /\ \A r \in Rooms : roomMu[r] = g => look[g] = r
    BY <2>2 DEF HoldersInv, Moves
  <2>5. \A d \in Chatters : connMu'[d] \in {connMu[d], NoHolder} /\ connMu'[d] # g
    BY <1>3, <2>2, <2>3
  <2> QED  BY <1>1, <2>2, <2>4, <2>5, HolderMoves
<1>5. CASE g \in Chatters /\ EndAck(g)
  <2>1. Moves(g, "acked", "read") /\ Written(g, g) /\ UNCHANGED <<roomsMu, roomMu, mine, look, target>>
    BY <1>5 DEF EndAck
  <2>2. \A d \in Chatters : connMu[d] = g => d = g
    BY <2>1 DEF HoldersInv, Moves
  <2>3. roomsMu # g /\ \A r \in Rooms : roomMu[r] # g
    BY <2>1 DEF HoldersInv, Moves
  <2>4. \A d \in Chatters : connMu'[d] \in {connMu[d], NoHolder} /\ connMu'[d] # g
    BY <1>3, <2>1, <2>2
  <2> QED  BY <1>1, <2>1, <2>3, <2>4, HolderMoves
<1> QED  BY <1>4, <1>5

LEMMA HoldersStep == ChatInv /\ HoldersInv /\ [ChatNext]_chatVars => HoldersInv'
<1> SUFFICES ASSUME ChatInv, HoldersInv, [ChatNext]_chatVars PROVE HoldersInv'
  OBVIOUS
<1>1. Chatters \subseteq Goroutines
  BY ChatNumbers
<1>2. ASSUME NEW g \in Goroutines, Speak(g) \/ Goes(g) PROVE HoldersInv'
  <2>1. CASE Speak(g) \/ FindRoom(g)
    BY <2>1, FindersHold
  <2>2. CASE LockRoom(g) \/ UnlockRoom(g)
    BY <2>2, BroadcastersHold
  <2>3. CASE EndWrite(g) \/ (g \in Chatters /\ EndAck(g))
    BY <2>3, EndersHold
  <2>4. ASSUME NEW c \in Chatters, WriteTo(g, c) PROVE HoldersInv'
    BY <2>4, WritersHold
  <2>5. CASE g \in Chatters /\ AckSpeaker(g)
    BY <2>5, WritersHold
  <2>6. CASE g \in Chatters /\ EnterRoom(g)
    BY <2>6, ComersHold
  <2>7. CASE g \in Chatters /\ (RemoveClient(g) \/ LockMapToDrop(g) \/ DropRoom(g))
    BY <2>7, LeaversHold
  <2> QED  BY <1>2, <2>1, <2>2, <2>3, <2>4, <2>5, <2>6, <2>7 DEF Goes
<1>3. ASSUME NEW c \in Chatters, GetOrCreateRoom(c) \/ Type(c) \/ LookUpToLeave(c) PROVE HoldersInv'
  BY <1>1, <1>3, ComersHold, FindersHold, LeaversHold
<1>4. ASSUME NEW c \in Chatters, PeerGoes(c) PROVE HoldersInv'
  BY <1>4 DEF PeerGoes, HoldersInv
<1>5. CASE UNCHANGED chatVars
  BY <1>5 DEF chatVars, HoldersInv
<1> QED  BY <1>2, <1>3, <1>4, <1>5 DEF ChatNext

\* Suppose nobody had what he waits for.  Then nobody writes, so every connection is
\* free; so nobody broadcasts, and every room is free; so nobody drops a room, and the
\* map is free: there is nothing left to wait for.
LEMMA SomebodyGoes == ChatInv /\ HoldersInv => SomebodyMayGo
<1> SUFFICES ASSUME ChatInv, HoldersInv, NEW g \in Goroutines, Busy(g), \A x \in Goroutines : ~MayGo(x)
             PROVE  FALSE
  BY DEF SomebodyMayGo
<1>1. /\ roomsMu \in Goroutines \cup {NoHolder} /\ roomMu \in [Rooms -> Goroutines \cup {NoHolder}]
      /\ connMu \in [Chatters -> Goroutines \cup {NoHolder}] /\ todo \in [Goroutines -> SUBSET Chatters]
      /\ stepOf \in [Goroutines -> ChatSteps] /\ Chatters \subseteq Goroutines
  BY ChatNumbers DEF ChatInv, ChatTypeOK
<1>2. \A x \in Goroutines : stepOf[x] \notin {"write", "acked"}
  BY DEF MayGo
<1>3. \A c \in Chatters : connMu[c] = NoHolder
  BY <1>1, <1>2 DEF HoldersInv
<1>4. ASSUME NEW x \in Goroutines PROVE stepOf[x] # "turn"
  <2>1. stepOf[x] = "turn" => todo[x] # {} /\ \A c \in todo[x] : connMu[c] # NoHolder
    BY DEF MayGo
  <2> QED  BY <1>1, <1>3, <2>1
<1>5. \A r \in Rooms : roomMu[r] = NoHolder
  BY <1>1, <1>2, <1>4 DEF HoldersInv
<1>6. \A x \in Goroutines : stepOf[x] \in {"lock", "remove", "drop.map"} => look[x] \in Rooms
  BY DEF ChatInv, HoldersInv
<1>7. \A x \in Goroutines : stepOf[x] \notin {"lock", "remove", "drop.map"}
  BY <1>5, <1>6 DEF MayGo, RoomFree
<1>8. \A x \in Goroutines : stepOf[x] \notin {"enter", "ack"}
  <2>1. \A x \in Goroutines : stepOf[x] = "enter" => x \in Chatters /\ mine[x] \in Rooms
    BY DEF HoldersInv
  <2>2. \A x \in Goroutines : stepOf[x] = "ack" => x \in Chatters
    BY DEF HoldersInv
  <2> QED  BY <1>3, <1>5, <2>1, <2>2 DEF MayGo, RoomFree
<1>9. roomsMu = NoHolder
  BY <1>1, <1>7 DEF HoldersInv
<1>10. \A x \in Goroutines : stepOf[x] \notin {"find", "drop"}
  BY <1>9 DEF MayGo, MapFree
<1>11. stepOf[g] # "stuck"
  BY DEF HoldersInv
<1> QED  BY <1>1, <1>2, <1>4, <1>7, <1>8, <1>10, <1>11 DEF Busy, ChatSteps

LEMMA ChatImplied == ChatInv /\ HoldersInv => ChatKept
<1> SUFFICES ASSUME ChatInv, HoldersInv PROVE ChatKept
  OBVIOUS
<1>1. ASSUME NEW c \in Chatters PROVE Cardinality(writing[c]) <= 1
  <2>1. writing[c] \subseteq {connMu[c]}
    BY DEF ChatInv
  <2>2. CASE writing[c] = {}
    BY <2>2, FS_EmptySet
  <2>3. CASE writing[c] = {connMu[c]}
    <3>1. Cardinality({connMu[c]}) = 1
      BY FS_Singleton
    <3> QED  BY <2>3, <3>1
  <2> QED  BY <2>1, <2>2, <2>3
<1> QED  BY <1>1, SomebodyGoes DEF ChatInv, OneWriterPerConnection, HeardWasSaved, ChatKept

\* Nobody writes to a connection while somebody else does, nobody hears what was not
\* saved, and the mutexes never wait for each other in a circle, with any number of
\* connections, requests and messages.
THEOREM ChatIsKept == ChatSpec => []ChatKept
<1> QED  BY ChatInitial, HoldersInitial, ChatStep, HoldersStep, ChatImplied, PTL DEF ChatSpec

-----------------------------------------------------------------------------
(* Request limits.  Within a window a route has let through no more than were     *)
(* counted, the one who is about to set its end included (WindowInv); a bucket    *)
(* holds at least what its idle time has refilled (BucketInv).                   *)

KeyOfRoute(r)   == KeyFor(r[1], r[2], r[3])
Waiting(r) == \E c \in LimitCalls : call[c].pc = "expire" /\ RouteOf(c) = r

WindowInv ==
  /\ \A c \in LimitCalls : call[c].pc = "expire" =>
       counter[KeyOfCall(c)].n >= 1 /\ counter[KeyOfCall(c)].ttl = NoTTL
  /\ \A c, d \in LimitCalls :
       call[c].pc = "expire" /\ call[d].pc = "expire" /\ KeyOfCall(c) = KeyOfCall(d) => c = d
  /\ \A k \in LimitKeys : counter[k].n = 0 => counter[k].ttl = NoTTL
  /\ \A r \in Routes : /\ let[r] <= counter[KeyOfRoute(r)].n /\ let[r] <= r[3]
                       /\ Waiting(r) => let[r] < counter[KeyOfRoute(r)].n /\ let[r] < r[3]
  /\ \A r \in Routes : r[1] = "ip" => asked[r] = counter[KeyOfRoute(r)].n
  /\ RefusedOnlyWhenUsedUp

PerTick(limit) == limit \div Minute
BucketInv == \A i \in Instances, k \in LimitKeys : bucket[i][k] # Full =>
               \/ bucket[i][k].tokens = bucket[i][k].limit
               \/ bucket[i][k].tokens >= bucket[i][k].idle * PerTick(bucket[i][k].limit)

LimitsInv == LimitTypeOK /\ WindowInv /\ BucketInv

LEMMA KeyFacts ==
  /\ \A r \in Routes : KeyOfRoute(r) \in LimitKeys
  /\ \A r, s \in Routes : r[1] = "ip" /\ KeyOfRoute(r) = KeyOfRoute(s) => r = s
<1>1. \A r \in Routes : r = <<r[1], r[2], r[3]>>
  BY DEF Routes
<1>2. ASSUME NEW r \in Routes, NEW s \in Routes, r[1] = "ip", KeyOfRoute(r) = KeyOfRoute(s) PROVE r = s
  <2>1. CASE s[1] = "ip"
    <3>1. <<"ip", r[2], r[3]>> = <<"ip", s[2], s[3]>>
      BY <1>2, <2>1 DEF KeyOfRoute, KeyFor, ByIP
    <3> QED  BY <1>1, <1>2, <2>1, <3>1
  <2>2. CASE s[1] # "ip"
    <3>1. <<"ip", r[2], r[3]>> = <<"id", s[2], 0>>
      BY <1>2, <2>2 DEF KeyOfRoute, KeyFor, ByIP, ByIdentifier
    <3> QED  BY <3>1
  <2> QED  BY <2>1, <2>2
<1> QED  BY <1>2 DEF KeyOfRoute, LimitKeys

\* A request under way and its route.
LEMMA CallFacts ==
  ASSUME LimitTypeOK, NEW c \in LimitCalls, call[c].pc # "idle"
  PROVE  /\ call[c] \in Asking /\ RouteOf(c) \in Routes /\ KeyOfCall(c) = KeyOfRoute(RouteOf(c))
         /\ KeyOfCall(c) \in LimitKeys /\ RouteOf(c)[3] = call[c].limit /\ call[c].inst \in Instances
         /\ call[c].limit \in Limits /\ call[c].limit \in Nat \ {0}
<1>1. call[c] \in Asking
  BY DEF LimitTypeOK, NoCall
<1>2. RouteOf(c) = <<call[c].kind, call[c].who, call[c].limit>>
  BY DEF RouteOf
<1>3. RouteOf(c) \in Routes
  BY <1>1, <1>2 DEF Asking, Routes
<1>4. RouteOf(c)[1] = call[c].kind /\ RouteOf(c)[2] = call[c].who /\ RouteOf(c)[3] = call[c].limit
  BY <1>2
<1>5. KeyOfCall(c) = KeyOfRoute(RouteOf(c))
  BY <1>4 DEF KeyOfCall, KeyOfRoute
<1> QED  BY <1>1, <1>3, <1>4, <1>5, KeyFacts, LimitAssumption DEF Asking

\* Nothing was counted, and no first request came or went.
LEMMA WindowsRest ==
  ASSUME WindowInv, UNCHANGED <<counter, asked, let, refused>>,
         \A c \in LimitCalls : call'[c].pc = "expire" <=> call[c].pc = "expire",
         \A c \in LimitCalls : call[c].pc = "expire" => call'[c] = call[c]
  PROVE  WindowInv'
<1>1. \A c \in LimitCalls : call[c].pc = "expire" =>
        KeyOfCall(c)' = KeyOfCall(c) /\ RouteOf(c)' = RouteOf(c)
  BY DEF KeyOfCall, RouteOf
<1>2. \A r \in Routes : Waiting(r)' <=> Waiting(r)
  BY <1>1 DEF Waiting
<1>3. RefusedOnlyWhenUsedUp'
  BY DEF WindowInv, RefusedOnlyWhenUsedUp
<1> QED  BY <1>1, <1>2, <1>3 DEF WindowInv, KeyOfRoute, RefusedOnlyWhenUsedUp

\* What a counted answer does to its route, and to no other.
LEMMA AnswerFacts ==
  ASSUME LimitTypeOK, NEW c \in LimitCalls, call[c].pc # "idle", NEW n \in Nat, WindowAnswers(c, n)
  PROVE  /\ refused' \subseteq Routes /\ let' \in [Routes -> Nat]
         /\ \A r \in Routes \ {RouteOf(c)} : let'[r] = let[r]
         /\ \/ n <= call[c].limit /\ let'[RouteOf(c)] = let[RouteOf(c)] + 1 /\ refused' = refused
            \/ n > call[c].limit /\ let' = let /\ refused' = refused \cup {RouteOf(c)}
<1>1. RouteOf(c) \in Routes /\ call[c].limit \in Nat /\ let \in [Routes -> Nat] /\ refused \subseteq Routes
  BY CallFacts DEF LimitTypeOK
<1>2. CASE n <= call[c].limit
  BY <1>1, <1>2 DEF WindowAnswers, Allowed
<1>3. CASE ~(n <= call[c].limit)
  BY <1>1, <1>3 DEF WindowAnswers, Allowed
<1> QED  BY <1>2, <1>3

LEMMA AskFacts ==
  ASSUME LimitTypeOK, NEW c \in LimitCalls, NEW i \in Instances, NEW r \in Routes, AskLimit(c, i, r)
  PROVE  call' \in [LimitCalls -> Asking \cup {NoCall}] /\ call'[c].pc = "incr"
<1>1. [pc |-> "incr", kind |-> r[1], who |-> r[2], limit |-> r[3], inst |-> i] \in Asking
  BY DEF Routes, Asking
<1> QED  BY <1>1 DEF AskLimit, LimitTypeOK

LEMMA StepFacts ==
  ASSUME LimitTypeOK, NEW c \in LimitCalls, call[c].pc # "idle",
         NEW step \in {"incr", "expire", "bucket"}, LimitStep(c, step)
  PROVE  /\ call' \in [LimitCalls -> Asking \cup {NoCall}]
         /\ call'[c].pc = step /\ KeyOfCall(c)' = KeyOfCall(c) /\ RouteOf(c)' = RouteOf(c)
         /\ \A d \in LimitCalls \ {c} : call'[d] = call[d]
<1>1. call[c] \in Asking /\ call \in [LimitCalls -> Asking \cup {NoCall}]
  BY CallFacts DEF LimitTypeOK
<1>2. PICK u : u = [call[c] EXCEPT !.pc = step]
  OBVIOUS
<1>3. /\ u \in Asking /\ u.pc = step /\ u.kind = call[c].kind /\ u.who = call[c].who
      /\ u.limit = call[c].limit
  BY <1>1, <1>2 DEF Asking
<1>4. call' = [call EXCEPT ![c] = u]
  BY <1>2 DEF LimitStep
<1> QED  BY <1>1, <1>3, <1>4 DEF KeyOfCall, RouteOf

LEMMA EndFacts ==
  ASSUME LimitTypeOK, NEW c \in LimitCalls, CallEnds(c)
  PROVE  /\ call' \in [LimitCalls -> Asking \cup {NoCall}] /\ call'[c].pc = "idle"
         /\ \A d \in LimitCalls \ {c} : call'[d] = call[d]
BY DEF LimitTypeOK, CallEnds, NoCall

\* INCR on the counter of a key.
LEMMA CountFacts ==
  ASSUME LimitTypeOK, NEW k \in LimitKeys, counter' = [counter EXCEPT ![k].n = @ + 1]
  PROVE  /\ counter' \in [LimitKeys -> [n : Nat, ttl : {NoTTL} \cup 1..Minute]]
         /\ counter[k].n \in Nat /\ counter'[k].n = counter[k].n + 1 /\ counter'[k].ttl = counter[k].ttl
         /\ \A j \in LimitKeys \ {k} : counter'[j] = counter[j]
BY DEF LimitTypeOK

LEMMA ExpireFacts ==
  ASSUME LimitTypeOK, NEW k \in LimitKeys,
         counter' = [counter EXCEPT ![k].ttl = IF counter[k].n = 0 THEN NoTTL ELSE Minute]
  PROVE  /\ counter' \in [LimitKeys -> [n : Nat, ttl : {NoTTL} \cup 1..Minute]]
         /\ counter'[k].n = counter[k].n /\ (counter[k].n = 0 => counter'[k].ttl = NoTTL)
         /\ \A j \in LimitKeys \ {k} : counter'[j] = counter[j]
<1>1. PICK t : t = IF counter[k].n = 0 THEN NoTTL ELSE Minute
  OBVIOUS
<1>2. t \in {NoTTL} \cup 1..Minute
  BY <1>1, LimitAssumption
<1>3. counter' = [counter EXCEPT ![k].ttl = t]
  BY <1>1
<1> QED  BY <1>1, <1>2, <1>3 DEF LimitTypeOK

\* Time over a counter: its window ends, or is one tick nearer to its end.
LEMMA TickFacts ==
  ASSUME LimitTypeOK, PassTime
  PROVE  /\ counter' \in [LimitKeys -> [n : Nat, ttl : {NoTTL} \cup 1..Minute]]
         /\ \A k \in LimitKeys :
              \/ k \in WindowsEnding /\ counter'[k].n = 0 /\ counter'[k].ttl = NoTTL
              \/ /\ k \notin WindowsEnding /\ counter'[k].n = counter[k].n
                 /\ counter[k].ttl = NoTTL => counter'[k].ttl = NoTTL
<1>0. Minute \in Nat \ {0} /\ NoTTL = -1
  BY LimitAssumption DEF NoTTL
<1>1. ASSUME NEW k \in LimitKeys
      PROVE  /\ counter'[k] \in [n : Nat, ttl : {NoTTL} \cup 1..Minute]
             /\ \/ k \in WindowsEnding /\ counter'[k].n = 0 /\ counter'[k].ttl = NoTTL
                \/ /\ k \notin WindowsEnding /\ counter'[k].n = counter[k].n
                   /\ counter[k].ttl = NoTTL => counter'[k].ttl = NoTTL
  <2>1. CASE k \in WindowsEnding
    <3>1. counter'[k] = [n |-> 0, ttl |-> NoTTL]
      BY <2>1 DEF PassTime
    <3> QED  BY <2>1, <3>1
  <2>2. CASE k \notin WindowsEnding
    <3>1. counter[k] \in [n : Nat, ttl : {NoTTL} \cup 1..Minute] /\ counter[k].ttl # 1
      BY <2>2 DEF LimitTypeOK, WindowsEnding
    <3>2. PICK t : t = IF counter[k].ttl = NoTTL THEN NoTTL ELSE counter[k].ttl - 1
      OBVIOUS
    <3>3. counter'[k] = [counter[k] EXCEPT !.ttl = t]
      BY <2>2, <3>1, <3>2 DEF PassTime
    <3>4. t \in {NoTTL} \cup 1..Minute
      <4>1. counter[k].ttl \in {NoTTL} \cup 1..Minute
        BY <3>1
      <4> QED  BY <1>0, <3>1, <3>2, <4>1
    <3> QED  BY <2>2, <3>1, <3>2, <3>3, <3>4
  <2> QED  BY <2>1, <2>2
<1>2. DOMAIN counter' = LimitKeys /\ counter' = [k \in LimitKeys |-> counter'[k]]
  BY DEF PassTime
<1> QED  BY <1>1, <1>2

\* A bucket as time passes.
LEMMA RefillFacts ==
  ASSUME NEW b \in Bucket, b.tokens <= b.limit,
         b.tokens = b.limit \/ b.tokens >= b.idle * PerTick(b.limit)
  PROVE  /\ Refilled(b) \in Bucket /\ Refilled(b).tokens <= Refilled(b).limit
         /\ \/ Refilled(b).tokens = Refilled(b).limit
            \/ Refilled(b).tokens >= Refilled(b).idle * PerTick(Refilled(b).limit)
<1>1. b # Full
  BY LimitAssumption
<1>2. b.tokens \in Nat /\ b.limit \in Nat /\ b.limit \in Limits /\ b.idle \in 0..IdleTicks /\ IdleTicks \in Nat
      /\ Minute \in Nat \ {0}
  BY LimitAssumption DEF Bucket
<1>3. PICK k : k = b.limit \div Minute
  OBVIOUS
<1>4. k \in Nat
  BY <1>2, <1>3
<1>5. PICK t : t = IF b.tokens + k > b.limit THEN b.limit ELSE b.tokens + k
  OBVIOUS
<1>6. PICK e : e = IF b.idle < IdleTicks THEN b.idle + 1 ELSE b.idle
  OBVIOUS
<1>7. t \in Nat /\ t <= b.limit /\ e \in 0..IdleTicks
  BY <1>2, <1>4, <1>5, <1>6
<1>8. PICK u : u = [[b EXCEPT !.tokens = t] EXCEPT !.idle = e]
  OBVIOUS
<1>9. Refilled(b) = u
  BY <1>1, <1>3, <1>5, <1>6, <1>8 DEF Refilled
<1>10. u \in Bucket /\ u.tokens = t /\ u.idle = e /\ u.limit = b.limit
  BY <1>7, <1>8 DEF Bucket
<1>11. t = b.limit \/ t >= e * k
  <2>1. CASE b.tokens = b.limit
    BY <1>2, <1>4, <1>5, <2>1
  <2>2. CASE b.tokens >= b.idle * k
    <3>1. b.idle \in Nat /\ (b.idle + 1) * k = b.idle * k + k
      BY <1>2, <1>4
    <3>2. b.idle * k \in Nat
      BY <1>4, <3>1
    <3>3. e = b.idle \/ e = b.idle + 1
      BY <1>6
    <3>4. PICK m : m = b.idle * k
      OBVIOUS
    <3>5. e * k = m \/ e * k = m + k
      BY <3>1, <3>3, <3>4
    <3>6. PICK x : x = e * k
      OBVIOUS
    <3>7. m \in Nat /\ (x = m \/ x = m + k) /\ b.tokens >= m
      BY <2>2, <3>2, <3>4, <3>5, <3>6
    <3>8. t = b.limit \/ t >= x
      BY ONLY <1>2, <1>4, <1>5, <3>7
    <3> QED  BY <3>6, <3>8
  <2> QED  BY <1>3, <2>1, <2>2 DEF PerTick
<1> QED  BY <1>3, <1>7, <1>9, <1>10, <1>11 DEF PerTick

\* Idle for ten minutes, a bucket is full.
LEMMA IdleIsFull ==
  ASSUME NEW b \in Bucket, b.tokens <= b.limit, b.idle >= IdleTicks,
         b.tokens = b.limit \/ b.tokens >= b.idle * PerTick(b.limit)
  PROVE  b.tokens = b.limit
<1>1. b.tokens \in Nat /\ b.limit \in Nat /\ b.idle \in Nat /\ IdleTicks \in Nat /\ Minute \in Nat \ {0}
      /\ IdleTicks > Minute /\ b.limit % Minute = 0
  BY LimitAssumption DEF Bucket
<1>2. PICK k : k = b.limit \div Minute
  OBVIOUS
<1>3. k \in Nat /\ b.limit = Minute * k
  BY <1>1, <1>2
<1>4. b.idle * k >= Minute * k
  <2>1. PICK d \in Nat : b.idle = Minute + d
    <3>1. b.idle - Minute \in Nat /\ b.idle = Minute + (b.idle - Minute)
      BY <1>1
    <3> QED  BY <3>1
  <2>2. (Minute + d) * k = Minute * k + d * k
    BY <1>1, <1>3, <2>1
  <2>3. d * k \in Nat /\ Minute * k \in Nat
    BY <1>1, <1>3, <2>1
  <2> QED  BY <2>1, <2>2, <2>3
<1>5. PICK x : x = b.idle * k
  OBVIOUS
<1>6. x \in Nat /\ x >= b.limit
  BY <1>1, <1>3, <1>4, <1>5
<1>7. b.tokens = b.limit \/ b.tokens >= x
  BY <1>2, <1>5 DEF PerTick
<1> QED  BY ONLY <1>1, <1>6, <1>7, b.tokens <= b.limit

LEMMA LostFacts ==
  ASSUME LimitTypeOK, Lost
  PROVE  lostCalls' \in 0..MaxLostCalls
BY LimitAssumption DEF LimitTypeOK, Lost

\* One more request of a route: counted on its key, it is answered at once or, the
\* first, goes on to set the end of the window.
LEMMA CountedKeeps ==
  ASSUME LimitTypeOK, WindowInv, NEW c \in LimitCalls, call[c].pc = "incr",
         counter' = [counter EXCEPT ![KeyOfCall(c)].n = @ + 1],
         asked' = [asked EXCEPT ![RouteOf(c)] = @ + 1],
         \A d \in LimitCalls \ {c} : call'[d] = call[d],
         \/ /\ call'[c].pc = "expire" /\ counter[KeyOfCall(c)].n = 0 /\ UNCHANGED <<let, refused>>
            /\ KeyOfCall(c)' = KeyOfCall(c) /\ RouteOf(c)' = RouteOf(c)
         \/ call'[c].pc # "expire" /\ UNCHANGED <<let, refused>>
         \/ call'[c].pc # "expire" /\ WindowAnswers(c, counter[KeyOfCall(c)].n + 1)
  PROVE  WindowInv'
<1> DEFINE k == KeyOfCall(c)
           q == RouteOf(c)
<1>0. /\ k \in LimitKeys /\ q \in Routes /\ k = KeyOfRoute(q) /\ q[3] = call[c].limit /\ q[3] \in Nat \ {0}
  BY CallFacts
<1>1. /\ counter[k].n \in Nat /\ counter'[k].n = counter[k].n + 1 /\ counter'[k].ttl = counter[k].ttl
      /\ \A j \in LimitKeys \ {k} : counter'[j] = counter[j]
  BY <1>0, CountFacts
<1>2. /\ asked'[q] = asked[q] + 1 /\ \A r \in Routes \ {q} : asked'[r] = asked[r]
      /\ \A r \in Routes : let[r] \in Nat /\ asked[r] \in Nat /\ r[3] \in Nat /\ KeyOfRoute(r) \in LimitKeys
  BY <1>0, KeyFacts, LimitAssumption DEF LimitTypeOK, Routes
<1>3. \A d \in LimitCalls \ {c} : KeyOfCall(d)' = KeyOfCall(d) /\ RouteOf(d)' = RouteOf(d)
  BY DEF KeyOfCall, RouteOf
<1>4. \A d \in LimitCalls : call[d].pc = "expire" =>
        KeyOfCall(d) \in LimitKeys /\ RouteOf(d) \in Routes /\ KeyOfCall(d) = KeyOfRoute(RouteOf(d))
  BY CallFacts
<1>5. \A j \in LimitKeys : counter[j].n \in Nat /\ counter'[j].n \in Nat /\ counter'[j].ttl = counter[j].ttl
        /\ counter'[j].n >= counter[j].n
  BY <1>1 DEF LimitTypeOK
\* Who waits now waited before, or is the first of this window.
<1>6. ASSUME NEW r \in Routes, Waiting(r)'
      PROVE  Waiting(r) \/ (r = q /\ counter[k].n = 0 /\ UNCHANGED <<let, refused>>)
  <2>1. PICK d \in LimitCalls : call'[d].pc = "expire" /\ RouteOf(d)' = r
    BY <1>6 DEF Waiting
  <2>2. CASE d = c
    BY <2>1, <2>2
  <2>3. CASE d # c
    BY <1>3, <2>1, <2>3 DEF Waiting
  <2> QED  BY <2>2, <2>3
<1>7. ASSUME NEW r \in Routes, r # q PROVE let'[r] = let[r]
  <2>1. ASSUME WindowAnswers(c, counter[k].n + 1) PROVE let'[r] = let[r]
    <3>1. counter[k].n + 1 \in Nat
      BY <1>1
    <3> QED  BY <1>7, <2>1, <3>1, AnswerFacts
  <2> QED  BY <2>1
\* The routes.
<1>8. ASSUME NEW r \in Routes
      PROVE  /\ let'[r] <= counter'[KeyOfRoute(r)].n /\ let'[r] <= r[3]
             /\ Waiting(r)' => let'[r] < counter'[KeyOfRoute(r)].n /\ let'[r] < r[3]
  <2>1. /\ let[r] <= counter[KeyOfRoute(r)].n /\ let[r] <= r[3]
        /\ Waiting(r) => let[r] < counter[KeyOfRoute(r)].n /\ let[r] < r[3]
    BY DEF WindowInv
  <2>2. let[r] \in Nat /\ r[3] \in Nat /\ counter[KeyOfRoute(r)].n \in Nat /\ counter'[KeyOfRoute(r)].n \in Nat
        /\ counter'[KeyOfRoute(r)].n >= counter[KeyOfRoute(r)].n
    BY <1>2, <1>5
  <2>3. CASE r # q
    <3>1. let'[r] = let[r] /\ (Waiting(r)' => Waiting(r))
      BY <1>6, <1>7, <2>3
    <3> QED  BY <2>1, <2>2, <3>1
  <2>4. CASE r = q /\ UNCHANGED <<let, refused>>
    <3>1. counter'[KeyOfRoute(r)].n = counter[KeyOfRoute(r)].n + 1
      BY <1>0, <1>1, <2>4
    <3>2. Waiting(r)' => Waiting(r) \/ counter[KeyOfRoute(r)].n = 0
      BY <1>0, <1>6
    <3>3. r[3] # 0 /\ let'[r] = let[r]
      BY <1>0, <2>4
    <3> QED  BY <2>1, <2>2, <3>1, <3>2, <3>3
  <2>5. CASE r = q /\ ~(UNCHANGED <<let, refused>>)
    <3>1. WindowAnswers(c, counter[k].n + 1) /\ (Waiting(r)' => Waiting(r)) /\ counter[k].n + 1 \in Nat
      BY <1>1, <1>6, <2>5
    <3>2. \/ counter[k].n + 1 <= r[3] /\ let'[r] = let[r] + 1
          \/ let' = let
      BY <1>0, <2>5, <3>1, AnswerFacts
    <3>3. counter'[KeyOfRoute(r)].n = counter[KeyOfRoute(r)].n + 1 /\ KeyOfRoute(r) = k
      BY <1>0, <1>1, <2>5
    <3> QED  BY <2>1, <2>2, <3>1, <3>2, <3>3
  <2> QED  BY <2>3, <2>4, <2>5
<1>9. ASSUME NEW r \in Routes, r[1] = "ip" PROVE asked'[r] = counter'[KeyOfRoute(r)].n
  <2>1. asked[r] = counter[KeyOfRoute(r)].n
    BY <1>9 DEF WindowInv
  <2>2. CASE r = q
    BY <1>0, <1>1, <1>2, <2>1, <2>2
  <2>3. CASE r # q
    <3>1. KeyOfRoute(r) # k
      BY <1>0, <1>9, <2>3, KeyFacts
    <3> QED  BY <1>1, <1>2, <2>1, <2>3, <3>1
  <2> QED  BY <2>2, <2>3
<1>10. RefusedOnlyWhenUsedUp'
  <2> SUFFICES ASSUME NEW r \in refused', r[1] = "ip" PROVE asked'[r] > r[3]
    BY DEF RefusedOnlyWhenUsedUp
  <2>1. CASE r \in refused
    <3>1. r \in Routes /\ asked[r] > r[3]
      BY <2>1 DEF WindowInv, RefusedOnlyWhenUsedUp, LimitTypeOK
    <3>2. asked'[r] >= asked[r]
      BY <1>2, <3>1
    <3> QED  BY <1>2, <3>1, <3>2
  <2>2. CASE r \notin refused
    <3>1. WindowAnswers(c, counter[k].n + 1) /\ counter[k].n + 1 \in Nat
      BY <1>1, <2>2
    <3>2. r = q /\ counter[k].n + 1 > q[3]
      BY <1>0, <2>2, <3>1, AnswerFacts
    <3>3. asked'[r] = counter[k].n + 1
      BY <1>0, <1>1, <1>9, <3>2
    <3> QED  BY <3>2, <3>3
  <2> QED  BY <2>1, <2>2
<1>11. ASSUME NEW d \in LimitCalls, call'[d].pc = "expire"
       PROVE  /\ counter'[KeyOfCall(d)'].n >= 1 /\ counter'[KeyOfCall(d)'].ttl = NoTTL
              /\ \A e \in LimitCalls : call'[e].pc = "expire" /\ KeyOfCall(d)' = KeyOfCall(e)' => d = e
  <2>1. CASE call'[c].pc = "expire"
    <3>1. counter[k].n = 0 /\ KeyOfCall(c)' = k /\ counter[k].ttl = NoTTL
      BY <1>0, <2>1 DEF WindowInv
    <3>2. \A e \in LimitCalls \ {c} : call'[e].pc = "expire" => KeyOfCall(e)' # k
      BY <1>3, <3>1 DEF WindowInv
    <3>3. CASE d = c
      BY <1>0, <1>1, <3>1, <3>2, <3>3
    <3>4. CASE d # c
      <4>1. /\ call[d].pc = "expire" /\ KeyOfCall(d)' = KeyOfCall(d) /\ KeyOfCall(d) \in LimitKeys
        BY <1>3, <1>4, <1>11, <3>4
      <4>2. counter[KeyOfCall(d)].n >= 1 /\ counter[KeyOfCall(d)].ttl = NoTTL
        BY <4>1 DEF WindowInv
      <4>3. \A e \in LimitCalls \ {c} : call'[e].pc = "expire" /\ KeyOfCall(d) = KeyOfCall(e)' => d = e
        BY <1>3, <4>1 DEF WindowInv
      <4> QED  BY <1>1, <3>1, <3>2, <3>4, <1>11, <4>1, <4>2, <4>3
    <3> QED  BY <3>3, <3>4
  <2>2. CASE call'[c].pc # "expire"
    <3>1. d # c /\ call[d].pc = "expire" /\ KeyOfCall(d)' = KeyOfCall(d) /\ KeyOfCall(d) \in LimitKeys
      BY <1>3, <1>4, <1>11, <2>2
    <3>2. counter[KeyOfCall(d)].n >= 1 /\ counter[KeyOfCall(d)].ttl = NoTTL
      BY <3>1 DEF WindowInv
    <3>3. \A e \in LimitCalls : call'[e].pc = "expire" /\ KeyOfCall(d) = KeyOfCall(e)' => d = e
      BY <1>3, <2>2, <3>1 DEF WindowInv
    <3> QED  BY <1>5, <3>1, <3>2, <3>3
  <2> QED  BY <2>1, <2>2
<1>12. \A j \in LimitKeys : counter'[j].n = 0 => counter'[j].ttl = NoTTL
  BY <1>1, <1>5 DEF WindowInv
<1> QED  BY <1>8, <1>9, <1>10, <1>11, <1>12 DEF WindowInv, KeyOfRoute, KeyFor, ByIP, ByIdentifier

\* The first of a window is let through, whether its end was set or not.
LEMMA ExpireKeeps ==
  ASSUME LimitTypeOK, WindowInv, NEW c \in LimitCalls, Expire(c)
  PROVE  WindowInv'
<1> DEFINE k == KeyOfCall(c)
           q == RouteOf(c)
<1>0. /\ call[c].pc = "expire" /\ CallEnds(c) /\ WindowAnswers(c, 1) /\ asked' = asked
      /\ \/ counter' = [counter EXCEPT ![k].ttl = IF counter[k].n = 0 THEN NoTTL ELSE Minute]
         \/ counter' = counter
  BY DEF Expire
<1>1. /\ k \in LimitKeys /\ q \in Routes /\ k = KeyOfRoute(q) /\ q[3] = call[c].limit /\ q[3] \in Nat \ {0}
  BY <1>0, CallFacts
<1>2. counter[k].n >= 1 /\ counter[k].ttl = NoTTL /\ Waiting(q)
  BY <1>0, <1>1 DEF WindowInv, Waiting
<1>3. /\ counter'[k].n = counter[k].n /\ \A j \in LimitKeys \ {k} : counter'[j] = counter[j]
      /\ counter[k].n \in Nat
  BY <1>0, <1>1, ExpireFacts DEF LimitTypeOK
<1>4. call'[c].pc = "idle" /\ \A d \in LimitCalls \ {c} : call'[d] = call[d]
  BY <1>0, EndFacts
<1>5. \A d \in LimitCalls \ {c} : KeyOfCall(d)' = KeyOfCall(d) /\ RouteOf(d)' = RouteOf(d)
  BY <1>4 DEF KeyOfCall, RouteOf
<1>6. let'[q] = let[q] + 1 /\ refused' = refused /\ \A r \in Routes \ {q} : let'[r] = let[r]
  <2>1. 1 \in Nat /\ ~(1 > call[c].limit)
    BY <1>1
  <2> QED  BY <1>0, <2>1, AnswerFacts
\* Whoever else waits, waits at another key.
<1>7. ASSUME NEW d \in LimitCalls, call'[d].pc = "expire"
      PROVE  d # c /\ call[d].pc = "expire" /\ KeyOfCall(d) # k /\ KeyOfCall(d) \in LimitKeys
  BY <1>0, <1>4, <1>7, CallFacts DEF WindowInv
<1>8. ASSUME NEW r \in Routes, Waiting(r)' PROVE Waiting(r) /\ r # q
  <2>1. PICK d \in LimitCalls : call'[d].pc = "expire" /\ RouteOf(d)' = r
    BY <1>8 DEF Waiting
  <2>2. call[d].pc = "expire" /\ RouteOf(d) = r /\ KeyOfCall(d) # k /\ KeyOfCall(d) = KeyOfRoute(r)
    BY <1>5, <1>7, <2>1, CallFacts
  <2> QED  BY <1>1, <2>2 DEF Waiting
<1>9. ASSUME NEW r \in Routes
      PROVE  /\ let'[r] <= counter'[KeyOfRoute(r)].n /\ let'[r] <= r[3]
             /\ Waiting(r)' => let'[r] < counter'[KeyOfRoute(r)].n /\ let'[r] < r[3]
  <2>1. /\ let[r] <= counter[KeyOfRoute(r)].n /\ let[r] <= r[3]
        /\ Waiting(r) => let[r] < counter[KeyOfRoute(r)].n /\ let[r] < r[3]
    BY DEF WindowInv
  <2>2. KeyOfRoute(r) \in LimitKeys
    BY KeyFacts
  <2>3. counter'[KeyOfRoute(r)].n = counter[KeyOfRoute(r)].n
    BY <1>3, <2>2
  <2>4. CASE r # q
    BY <1>6, <1>8, <2>1, <2>3, <2>4
  <2>5. CASE r = q
    <3>1. let[r] \in Nat /\ counter[KeyOfRoute(r)].n \in Nat /\ r[3] \in Nat
      BY <1>1, <1>3, <2>5 DEF LimitTypeOK
    <3> QED  BY <1>2, <1>6, <1>8, <2>1, <2>3, <2>5, <3>1
  <2> QED  BY <2>4, <2>5
<1>10. RefusedOnlyWhenUsedUp'
  BY <1>0, <1>6 DEF WindowInv, RefusedOnlyWhenUsedUp
<1>11. \A r \in Routes : r[1] = "ip" => asked'[r] = counter'[KeyOfRoute(r)].n
  BY <1>0, <1>3, KeyFacts DEF WindowInv
<1>12. ASSUME NEW d \in LimitCalls, call'[d].pc = "expire"
       PROVE  /\ counter'[KeyOfCall(d)'].n >= 1 /\ counter'[KeyOfCall(d)'].ttl = NoTTL
              /\ \A e \in LimitCalls : call'[e].pc = "expire" /\ KeyOfCall(d)' = KeyOfCall(e)' => d = e
  <2>1. KeyOfCall(d)' = KeyOfCall(d) /\ counter'[KeyOfCall(d)] = counter[KeyOfCall(d)] /\ call[d].pc = "expire"
    BY <1>3, <1>5, <1>7, <1>12
  <2>2. \A e \in LimitCalls : call'[e].pc = "expire" /\ KeyOfCall(d) = KeyOfCall(e)' => d = e
    BY <1>5, <1>7, <2>1 DEF WindowInv
  <2> QED  BY <2>1, <2>2 DEF WindowInv
<1>13. \A j \in LimitKeys : counter'[j].n = 0 => counter'[j].ttl = NoTTL
  BY <1>2, <1>3 DEF WindowInv
<1> QED  BY <1>9, <1>10, <1>11, <1>12, <1>13 DEF WindowInv, KeyOfRoute, KeyFor, ByIP, ByIdentifier

\* A window ends for all its routes at once, and never under one who waits.
LEMMA TickKeeps ==
  ASSUME LimitTypeOK, WindowInv, PassTime
  PROVE  WindowInv'
<1>1. \A k \in LimitKeys :
        \/ k \in WindowsEnding /\ counter'[k].n = 0 /\ counter'[k].ttl = NoTTL
        \/ /\ k \notin WindowsEnding /\ counter'[k].n = counter[k].n
           /\ counter[k].ttl = NoTTL => counter'[k].ttl = NoTTL
  BY TickFacts
<1>2. /\ \A r \in Routes : /\ KeyOfRoute(r) \in WindowsEnding => asked'[r] = 0 /\ let'[r] = 0
                           /\ KeyOfRoute(r) \notin WindowsEnding => asked'[r] = asked[r] /\ let'[r] = let[r]
      /\ \A r \in refused' : r \in refused /\ KeyOfRoute(r) \notin WindowsEnding
      /\ call' = call
  BY DEF PassTime, EndsWith, KeyOfRoute
<1>3. \A d \in LimitCalls : KeyOfCall(d)' = KeyOfCall(d) /\ RouteOf(d)' = RouteOf(d)
  BY <1>2 DEF KeyOfCall, RouteOf
<1>4. \A d \in LimitCalls : call[d].pc = "expire" => KeyOfCall(d) \in LimitKeys /\ KeyOfCall(d) \notin WindowsEnding
                                                   /\ KeyOfCall(d) = KeyOfRoute(RouteOf(d))
  BY CallFacts DEF WindowInv, WindowsEnding, NoTTL
<1>5. \A r \in Routes : Waiting(r)' <=> Waiting(r)
  BY <1>2, <1>3 DEF Waiting
<1>6. \A r \in Routes : Waiting(r) => KeyOfRoute(r) \notin WindowsEnding
  BY <1>4 DEF Waiting
<1>7. ASSUME NEW r \in Routes
      PROVE  /\ let'[r] <= counter'[KeyOfRoute(r)].n /\ let'[r] <= r[3]
             /\ Waiting(r)' => let'[r] < counter'[KeyOfRoute(r)].n /\ let'[r] < r[3]
  <2>1. KeyOfRoute(r) \in LimitKeys /\ r[3] \in Nat
    BY KeyFacts, LimitAssumption DEF Routes
  <2>2. /\ let[r] <= counter[KeyOfRoute(r)].n /\ let[r] <= r[3]
        /\ Waiting(r) => let[r] < counter[KeyOfRoute(r)].n /\ let[r] < r[3]
    BY DEF WindowInv
  <2> QED  BY <1>1, <1>2, <1>5, <1>6, <2>1, <2>2
<1>8. ASSUME NEW r \in Routes, r[1] = "ip" PROVE asked'[r] = counter'[KeyOfRoute(r)].n
  BY <1>1, <1>2, <1>8, KeyFacts DEF WindowInv
<1>9. RefusedOnlyWhenUsedUp'
  <2> SUFFICES ASSUME NEW r \in refused', r[1] = "ip" PROVE asked'[r] > r[3]
    BY DEF RefusedOnlyWhenUsedUp
  <2>1. r \in refused /\ r \in Routes /\ KeyOfRoute(r) \notin WindowsEnding
    BY <1>2 DEF LimitTypeOK
  <2>2. asked[r] > r[3]
    BY <2>1 DEF WindowInv, RefusedOnlyWhenUsedUp
  <2> QED  BY <1>2, <2>1, <2>2
<1>10. ASSUME NEW d \in LimitCalls, call[d].pc = "expire"
       PROVE  counter'[KeyOfCall(d)].n >= 1 /\ counter'[KeyOfCall(d)].ttl = NoTTL
  <2>1. counter[KeyOfCall(d)].n >= 1 /\ counter[KeyOfCall(d)].ttl = NoTTL
    BY <1>10 DEF WindowInv
  <2> QED  BY <1>1, <1>4, <1>10, <2>1
<1>11. \A k \in LimitKeys : counter'[k].n = 0 => counter'[k].ttl = NoTTL
  BY <1>1 DEF WindowInv
<1>12. \A c, d \in LimitCalls :
         call'[c].pc = "expire" /\ call'[d].pc = "expire" /\ KeyOfCall(c)' = KeyOfCall(d)' => c = d
  BY <1>2, <1>3 DEF WindowInv
<1>13. \A c \in LimitCalls : call'[c].pc = "expire" =>
         counter'[KeyOfCall(c)'].n >= 1 /\ counter'[KeyOfCall(c)'].ttl = NoTTL
  BY <1>2, <1>3, <1>10
<1> QED  BY <1>7, <1>8, <1>9, <1>11, <1>12, <1>13 DEF WindowInv, KeyOfRoute, KeyFor, ByIP, ByIdentifier

\* What a bucket may be.
BucketOK(b) == b # Full => /\ b \in Bucket /\ b.tokens <= b.limit
                           /\ b.tokens = b.limit \/ b.tokens >= b.idle * PerTick(b.limit)

LEMMA BucketsAreOK ==
  LimitTypeOK /\ BucketInv =>
    \A i \in Instances, k \in LimitKeys : BucketOK(bucket[i][k])
BY DEF LimitTypeOK, BucketInv, BucketOK

LEMMA BucketsBecome ==
  ASSUME bucket' \in [Instances -> [LimitKeys -> Bucket \cup {Full}]],
         \A i \in Instances, k \in LimitKeys : BucketOK(bucket'[i][k])
  PROVE  /\ BucketInv'
         /\ \A i \in Instances, k \in LimitKeys : bucket'[i][k] # Full => bucket'[i][k].tokens <= bucket'[i][k].limit
BY DEF BucketInv, BucketOK

\* The step of a bucket, and that none is deleted but when full.
LEMMA BucketStep ==
  ASSUME LimitTypeOK, BucketInv, [LimitsNext]_limitVars
  PROVE  /\ bucket' \in [Instances -> [LimitKeys -> Bucket \cup {Full}]]
         /\ \A i \in Instances, k \in LimitKeys :
              /\ BucketOK(bucket'[i][k])
              /\ bucket[i][k] # Full /\ bucket'[i][k] = Full => bucket[i][k].tokens = bucket[i][k].limit
<1>0. /\ bucket \in [Instances -> [LimitKeys -> Bucket \cup {Full}]]
      /\ \A i \in Instances, k \in LimitKeys : BucketOK(bucket[i][k])
  BY BucketsAreOK DEF LimitTypeOK
<1>1. CASE bucket' = bucket
  BY <1>0, <1>1
<1>2. ASSUME NEW c \in LimitCalls, TakeToken(c)
      PROVE  /\ bucket' \in [Instances -> [LimitKeys -> Bucket \cup {Full}]]
             /\ \A i \in Instances, k \in LimitKeys :
                  BucketOK(bucket'[i][k]) /\ (bucket'[i][k] = Full => bucket[i][k] = Full)
  <2>1. call[c].pc = "bucket"
    BY <1>2 DEF TakeToken
  <2>2. PICK i0 \in Instances : i0 = call[c].inst
    BY <2>1, CallFacts
  <2>3. PICK k0 \in LimitKeys : k0 = KeyOfCall(c)
    BY <2>1, CallFacts
  <2>4. call[c].limit \in Limits /\ call[c].limit \in Nat /\ IdleTicks \in Nat
    BY <2>1, CallFacts, LimitAssumption
  <2>5. PICK b : b = IF bucket[i0][k0] = Full THEN [tokens |-> call[c].limit, limit |-> call[c].limit, idle |-> 0]
                                              ELSE bucket[i0][k0]
    OBVIOUS
  <2>6. b \in Bucket /\ b.tokens \in Nat /\ b.tokens <= b.limit
    <3>1. CASE bucket[i0][k0] = Full
      BY <2>4, <2>5, <3>1 DEF Bucket
    <3>2. CASE bucket[i0][k0] # Full
      BY <1>0, <2>5, <3>2 DEF BucketOK, Bucket
    <3> QED  BY <3>1, <3>2
  <2>7. PICK t : t = IF b.tokens = 0 THEN 0 ELSE b.tokens - 1
    OBVIOUS
  <2>8. PICK u : u = [[b EXCEPT !.tokens = t] EXCEPT !.idle = 0]
    OBVIOUS
  <2>9. bucket' = [bucket EXCEPT ![i0][k0] = u]
    BY <1>2, <2>2, <2>3, <2>5, <2>7, <2>8 DEF TakeToken
  <2>10. t \in Nat /\ t <= b.tokens
    BY <2>6, <2>7
  <2>11. u \in Bucket /\ u.tokens = t /\ u.limit = b.limit /\ u.idle = 0
    <3>1. 0 \in 0..IdleTicks
      BY <2>4
    <3>2. b \in [tokens : Nat, limit : Limits, idle : 0..IdleTicks]
      BY <2>6 DEF Bucket
    <3>3. u \in [tokens : Nat, limit : Limits, idle : 0..IdleTicks]
      BY ONLY <2>8, <2>10, <3>1, <3>2
    <3>4. u.tokens = t /\ u.limit = b.limit /\ u.idle = 0
      BY ONLY <2>8, <3>2
    <3> QED  BY <3>3, <3>4 DEF Bucket
  <2>12. u # Full /\ BucketOK(u)
    <3>1. 0 * PerTick(u.limit) = 0
      <4>1. u.limit \in Nat /\ Minute \in Nat \ {0}
        BY <2>11, LimitAssumption DEF Bucket
      <4>2. PerTick(u.limit) \in Nat
        BY <4>1 DEF PerTick
      <4> QED  BY <4>2
    <3>2. u.tokens >= u.idle * PerTick(u.limit)
      BY <2>10, <2>11, <3>1
    <3>3. u.tokens <= u.limit
      <4>1. b.limit \in Nat
        BY <2>6, LimitAssumption DEF Bucket
      <4> QED  BY <2>6, <2>10, <2>11, <4>1
    <3> QED  BY <2>11, <3>2, <3>3, LimitAssumption DEF BucketOK
  <2> QED  BY <1>0, <2>9, <2>11, <2>12
<1>3. CASE PassTime
  <2>1. ASSUME NEW i \in Instances, NEW k \in LimitKeys
        PROVE  /\ bucket'[i][k] \in Bucket \cup {Full} /\ BucketOK(bucket'[i][k])
               /\ bucket'[i][k] = Full => bucket[i][k] = Full
    <3>1. bucket'[i][k] = Refilled(bucket[i][k])
      BY <1>3 DEF PassTime
    <3>2. CASE bucket[i][k] = Full
      BY <3>1, <3>2 DEF Refilled, BucketOK
    <3>3. CASE bucket[i][k] # Full
      <4>1. BucketOK(bucket[i][k])
        BY <1>0
      <4>2. /\ Refilled(bucket[i][k]) \in Bucket /\ BucketOK(Refilled(bucket[i][k]))
        BY <3>3, <4>1, RefillFacts DEF BucketOK
      <4> QED  BY <3>1, <4>2, LimitAssumption
    <3> QED  BY <3>2, <3>3
  <2>2. bucket' = [i \in Instances |-> [k \in LimitKeys |-> bucket'[i][k]]]
    BY <1>3 DEF PassTime
  <2>3. bucket' \in [Instances -> [LimitKeys -> Bucket \cup {Full}]]
    BY <2>1, <2>2
  <2> QED  BY <2>1, <2>3
<1>4. ASSUME NEW j \in Instances, CleanupLimiters(j)
      PROVE  /\ bucket' \in [Instances -> [LimitKeys -> Bucket \cup {Full}]]
             /\ \A i \in Instances, k \in LimitKeys :
                  /\ BucketOK(bucket'[i][k])
                  /\ bucket[i][k] # Full /\ bucket'[i][k] = Full => bucket[i][k].tokens = bucket[i][k].limit
  <2>1. PICK kept : kept = [k \in LimitKeys |-> IF k[1] = "ip" /\ Idle(bucket[j][k]) THEN Full ELSE bucket[j][k]]
    OBVIOUS
  <2>2. bucket' = [bucket EXCEPT ![j] = kept]
    BY <1>4, <2>1 DEF CleanupLimiters
  <2>3. kept \in [LimitKeys -> Bucket \cup {Full}]
    BY <1>0, <2>1
  <2>4. ASSUME NEW k \in LimitKeys
        PROVE  /\ BucketOK(kept[k])
               /\ bucket[j][k] # Full /\ kept[k] = Full => bucket[j][k].tokens = bucket[j][k].limit
    <3>1. CASE kept[k] = bucket[j][k]
      BY <1>0, <3>1
    <3>2. CASE kept[k] # bucket[j][k]
      <4>1. kept[k] = Full /\ Idle(bucket[j][k])
        BY <2>1, <3>2
      <4>2. bucket[j][k] # Full /\ bucket[j][k].idle >= IdleTicks /\ BucketOK(bucket[j][k])
        BY <1>0, <4>1 DEF Idle
      <4>3. bucket[j][k].tokens = bucket[j][k].limit
        BY <4>2, IdleIsFull DEF BucketOK
      <4> QED  BY <4>1, <4>3 DEF BucketOK
    <3> QED  BY <3>1, <3>2
  <2> QED  BY <1>0, <2>2, <2>3, <2>4
<1>5. CASE UNCHANGED limitVars \/ \E c \in LimitCalls :
             Incr(c) \/ Expire(c) \/ \E i \in Instances, r \in Routes : AskLimit(c, i, r)
  <2>1. bucket' = bucket
    BY <1>5 DEF limitVars, Incr, Expire, AskLimit
  <2> QED  BY <1>1, <2>1
<1> QED  BY <1>2, <1>3, <1>4, <1>5 DEF LimitsNext

LEMMA LimitTypeKept ==
  ASSUME LimitTypeOK, BucketInv, [LimitsNext]_limitVars
  PROVE  LimitTypeOK'
<1>0. /\ counter \in [LimitKeys -> [n : Nat, ttl : {NoTTL} \cup 1..Minute]]
      /\ call \in [LimitCalls -> Asking \cup {NoCall}]
      /\ asked \in [Routes -> Nat] /\ let \in [Routes -> Nat] /\ refused \subseteq Routes
      /\ asks \in 0..MaxAsked /\ lostCalls \in 0..MaxLostCalls
  BY DEF LimitTypeOK
<1>1. /\ bucket' \in [Instances -> [LimitKeys -> Bucket \cup {Full}]]
      /\ \A i \in Instances, k \in LimitKeys : bucket'[i][k] # Full => bucket'[i][k].tokens <= bucket'[i][k].limit
  BY BucketStep, BucketsBecome
<1> DEFINE Rest == /\ counter' \in [LimitKeys -> [n : Nat, ttl : {NoTTL} \cup 1..Minute]]
                   /\ call' \in [LimitCalls -> Asking \cup {NoCall}]
                   /\ asked' \in [Routes -> Nat] /\ let' \in [Routes -> Nat] /\ refused' \subseteq Routes
                   /\ asks' \in 0..MaxAsked /\ lostCalls' \in 0..MaxLostCalls
<1>2. ASSUME NEW c \in LimitCalls, Incr(c) PROVE Rest
  <2>0. call[c].pc = "incr" /\ asks' = asks
    BY <1>2 DEF Incr
  <2>1. KeyOfCall(c) \in LimitKeys /\ RouteOf(c) \in Routes
    BY <2>0, CallFacts
  <2>2. counter[KeyOfCall(c)].n + 1 \in Nat
    BY <1>0, <2>1
  <2>3. counter' \in [LimitKeys -> [n : Nat, ttl : {NoTTL} \cup 1..Minute]]
    BY <1>0, <1>2, <2>1, CountFacts DEF Incr
  <2>4. asked' \in [Routes -> Nat]
    BY <1>0, <1>2, <2>1 DEF Incr
  <2>5. call' \in [LimitCalls -> Asking \cup {NoCall}]
    BY <1>2, <2>0, StepFacts, EndFacts DEF Incr
  <2>6. let' \in [Routes -> Nat] /\ refused' \subseteq Routes
    BY <1>0, <1>2, <2>0, <2>2, AnswerFacts DEF Incr
  <2>7. lostCalls' \in 0..MaxLostCalls
    BY <1>0, <1>2, LostFacts DEF Incr
  <2> QED  BY <1>0, <2>0, <2>3, <2>4, <2>5, <2>6, <2>7
<1>3. ASSUME NEW c \in LimitCalls, Expire(c) PROVE Rest
  <2>0. call[c].pc = "expire" /\ CallEnds(c) /\ WindowAnswers(c, 1) /\ UNCHANGED <<asked, asks>> /\ 1 \in Nat
    BY <1>3 DEF Expire
  <2>1. KeyOfCall(c) \in LimitKeys
    BY <2>0, CallFacts
  <2>2. counter' \in [LimitKeys -> [n : Nat, ttl : {NoTTL} \cup 1..Minute]]
    BY <1>0, <1>3, <2>1, ExpireFacts DEF Expire
  <2>3. lostCalls' \in 0..MaxLostCalls
    BY <1>0, <1>3, LostFacts DEF Expire
  <2> QED  BY <1>0, <2>0, <2>2, <2>3, EndFacts, AnswerFacts
<1>4. ASSUME NEW c \in LimitCalls, TakeToken(c) PROVE Rest
  BY <1>0, <1>4, EndFacts DEF TakeToken
<1>5. ASSUME NEW c \in LimitCalls, NEW i \in Instances, NEW r \in Routes, AskLimit(c, i, r) PROVE Rest
  <2>1. call' \in [LimitCalls -> Asking \cup {NoCall}]
    BY <1>5, AskFacts
  <2> QED  BY <1>0, <1>5, <2>1, LimitAssumption DEF AskLimit
<1>6. ASSUME PassTime PROVE Rest
  <2>1. counter' \in [LimitKeys -> [n : Nat, ttl : {NoTTL} \cup 1..Minute]]
    BY <1>6, TickFacts
  <2> QED  BY <1>0, <1>6, <2>1 DEF PassTime
<1>7. ASSUME UNCHANGED limitVars \/ \E i \in Instances : CleanupLimiters(i) PROVE Rest
  BY <1>0, <1>7 DEF limitVars, CleanupLimiters
<1>8. Rest
  BY <1>2, <1>3, <1>4, <1>5, <1>6, <1>7 DEF LimitsNext
<1> QED  BY <1>1, <1>8 DEF LimitTypeOK

LEMMA WindowsKept ==
  ASSUME LimitTypeOK, WindowInv, [LimitsNext]_limitVars
  PROVE  WindowInv'
<1>1. ASSUME NEW c \in LimitCalls, Incr(c) PROVE WindowInv'
  <2>0. call[c].pc = "incr"
    BY <1>1 DEF Incr
  <2>1. KeyOfCall(c) \in LimitKeys /\ counter[KeyOfCall(c)].n \in Nat
    BY <2>0, CallFacts DEF LimitTypeOK
  <2>2. CASE /\ counter' = [counter EXCEPT ![KeyOfCall(c)].n = @ + 1]
             /\ asked' = [asked EXCEPT ![RouteOf(c)] = @ + 1]
    <3>1. \/ LimitStep(c, "expire") /\ counter[KeyOfCall(c)].n + 1 = 1 /\ UNCHANGED <<let, refused>>
          \/ LimitStep(c, "bucket") /\ UNCHANGED <<let, refused>>
          \/ CallEnds(c) /\ WindowAnswers(c, counter[KeyOfCall(c)].n + 1)
      BY <1>1 DEF Incr
    <3>2. CASE LimitStep(c, "expire") /\ counter[KeyOfCall(c)].n + 1 = 1 /\ UNCHANGED <<let, refused>>
      <4>1. counter[KeyOfCall(c)].n = 0
        BY <2>1, <3>2
      <4>2. /\ call'[c].pc = "expire" /\ KeyOfCall(c)' = KeyOfCall(c) /\ RouteOf(c)' = RouteOf(c)
            /\ \A d \in LimitCalls \ {c} : call'[d] = call[d]
        BY <2>0, <3>2, StepFacts
      <4> QED  BY <2>0, <2>2, <3>2, <4>1, <4>2, CountedKeeps
    <3>3. CASE LimitStep(c, "bucket") /\ UNCHANGED <<let, refused>>
      <4>1. /\ call'[c].pc # "expire" /\ \A d \in LimitCalls \ {c} : call'[d] = call[d]
        BY <2>0, <3>3, StepFacts
      <4> QED  BY <2>0, <2>2, <3>3, <4>1, CountedKeeps
    <3>4. CASE CallEnds(c) /\ WindowAnswers(c, counter[KeyOfCall(c)].n + 1)
      <4>1. /\ call'[c].pc # "expire" /\ \A d \in LimitCalls \ {c} : call'[d] = call[d]
        BY <3>4, EndFacts
      <4> QED  BY <2>0, <2>2, <3>4, <4>1, CountedKeeps
    <3> QED  BY <3>1, <3>2, <3>3, <3>4
  <2>3. CASE UNCHANGED <<counter, asked, let, refused>> /\ LimitStep(c, "bucket")
    <3>1. /\ call'[c].pc = "bucket" /\ \A d \in LimitCalls \ {c} : call'[d] = call[d]
      BY <2>0, <2>3, StepFacts
    <3> QED  BY <2>0, <2>3, <3>1, WindowsRest
  <2> QED  BY <1>1, <2>2, <2>3 DEF Incr
<1>2. ASSUME NEW c \in LimitCalls, TakeToken(c) PROVE WindowInv'
  <2>1. /\ call[c].pc = "bucket" /\ call'[c].pc = "idle" /\ \A d \in LimitCalls \ {c} : call'[d] = call[d]
    BY <1>2, EndFacts DEF TakeToken
  <2> QED  BY <1>2, <2>1, WindowsRest DEF TakeToken
<1>3. ASSUME NEW c \in LimitCalls, NEW i \in Instances, NEW r \in Routes, AskLimit(c, i, r) PROVE WindowInv'
  <2>1. /\ call[c].pc # "expire" /\ call'[c].pc = "incr" /\ \A d \in LimitCalls \ {c} : call'[d] = call[d]
    BY <1>3, AskFacts DEF AskLimit, NoCall, LimitTypeOK
  <2> QED  BY <1>3, <2>1, WindowsRest DEF AskLimit
<1>4. CASE UNCHANGED limitVars \/ \E i \in Instances : CleanupLimiters(i)
  <2>1. UNCHANGED <<counter, asked, let, refused, call>>
    BY <1>4 DEF limitVars, CleanupLimiters
  <2> QED  BY <2>1, WindowsRest
<1> QED  BY <1>1, <1>2, <1>3, <1>4, ExpireKeeps, TickKeeps DEF LimitsNext

LEMMA LimitsStart == LimitsInit => LimitsInv
<1> SUFFICES ASSUME LimitsInit PROVE LimitsInv
  OBVIOUS
<1>1. \A c \in LimitCalls : call[c] = NoCall /\ call[c].pc = "idle"
  BY DEF LimitsInit, NoCall
<1>2. \A i \in Instances, k \in LimitKeys : bucket[i][k] = Full
  BY DEF LimitsInit
<1>3. LimitTypeOK
  BY <1>2, LimitAssumption DEF LimitsInit, LimitTypeOK
<1>4. \A k \in LimitKeys : counter[k].n = 0 /\ counter[k].ttl = NoTTL
  BY DEF LimitsInit
<1>5. \A r \in Routes : let[r] = 0 /\ asked[r] = 0 /\ r[3] \in Nat /\ KeyOfRoute(r) \in LimitKeys
  BY KeyFacts, LimitAssumption DEF LimitsInit, Routes
<1>6. WindowInv
  BY <1>1, <1>4, <1>5 DEF WindowInv, Waiting, LimitsInit, RefusedOnlyWhenUsedUp
<1> QED  BY <1>2, <1>3, <1>6 DEF LimitsInv, BucketInv

\* Whatever processes, requests and lost Redis calls: no window lets through more
\* than its limit, no address is refused before it used it up, and a bucket that
\* is deleted was full (rate_limit_redis.go:22-23, 173-175; ratelimit.go).
THEOREM LimitsAreKept == LimitsSpec => LimitsKept
<1>1. LimitsInv /\ [LimitsNext]_limitVars => LimitsInv'
  BY LimitTypeKept, WindowsKept, BucketStep, BucketsBecome DEF LimitsInv
<1>2. LimitsInv => LimitTypeOK /\ WindowHolds /\ RefusedOnlyWhenUsedUp
  BY DEF LimitsInv, WindowInv, WindowHolds
<1>3. LimitsInv /\ [LimitsNext]_limitVars =>
        \A i \in Instances, k \in LimitKeys :
          bucket[i][k] # Full /\ bucket'[i][k] = Full => bucket[i][k].tokens = bucket[i][k].limit
  BY BucketStep DEF LimitsInv
<1>4. LimitsSpec => [](LimitTypeOK /\ WindowHolds /\ RefusedOnlyWhenUsedUp)
  BY LimitsStart, <1>1, <1>2, PTL DEF LimitsSpec
<1>5. LimitsSpec => CleanupGivesNothing
  BY LimitsStart, <1>1, <1>3, PTL DEF LimitsSpec, CleanupGivesNothing
<1> QED  BY <1>4, <1>5, PTL DEF LimitsKept
=============================================================================
