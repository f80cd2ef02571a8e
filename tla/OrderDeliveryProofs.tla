------------------------- MODULE OrderDeliveryProofs -------------------------
(***************************************************************************)
(* Proofs about OrderDelivery: the order and its row in the queue fit        *)
(* together, both status machines are kept, and on a quiet day the two sides  *)
(* show the same and nobody claims a dead order, for any orders, couriers,    *)
(* request goroutines, crashes and failed calls.                             *)
(***************************************************************************)
EXTENDS OrderDelivery, TLAPS

CourierSteps == {"claim", "ready", "advance", "courier.read", "courier.patch"}
Announcing   == {"courier.read", "courier.patch"}
Away         == {"IN_ROUTE_DELIVERY", "FINISHED"}

\* The store made the order ready; it never becomes unready, but for a pickup code
\* that puts an older status back.
Ready(o) == o \in undone \/ order[o].status \in {"DONE", "IN_ROUTE_DELIVERY", "FINISHED"}

\* What a job that is between two calls may rely on.
JobOK(w) ==
  LET j == job[w]  o == job[w].order
  IN /\ j \in Job
     /\ j.step # "idle" => o \in Orders /\ order[o] # NoRow
     /\ j.step \in CourierSteps =>
          sol[o] # NoRow /\ j.courier \in Couriers /\ j.want \in courierStatuses
     /\ j.step = "claim" => j.want = "IN_ROUTE_COLECT"
     /\ j.step = "patch" => j.want \in Statuses
     /\ j.step \in {"sync", "ready", "advance", "courier.patch"} => j.seen \in Row
     /\ j.step \in {"sync", "ready"}
          /\ j.seen.status \in {"DONE", "IN_ROUTE_DELIVERY", "FINISHED"} => Ready(o)
     /\ j.step \in {"ready", "advance"} => validCourierTransition(j.seen.stage, j.want)
     /\ j.step = "advance" /\ j.want \in Away => Ready(o)
     /\ j.step \in Announcing => sol[o].courier = j.courier
     /\ j.step = "code.save" => j.seen \in Row /\ j.seen.courier \in {Nobody, sol[o].courier}

\* Alone, what the job read is still so, and what it announces is so.
JobAlone(w) ==
  LET j == job[w]  o == job[w].order
  IN alone => /\ j.step \in {"courier.patch", "code.save"} => j.seen = order[o]
              /\ j.step = "sync" => j.seen.status = order[o].status
              /\ j.step \in Announcing => j.want = sol[o].stage

\* An order and its row in the queue.
OrderOK(o) ==
  /\ order[o] \in Row \cup {NoRow} /\ sol[o] \in Row \cup {NoRow}
  /\ sol[o] # NoRow => order[o] # NoRow
  /\ order[o].courier \in {Nobody, sol[o].courier}
  /\ sol[o].courier = Nobody => sol[o].stage = ""
  /\ sol[o].stage \in Away => Ready(o)
  /\ sol[o].status \in {"DONE", "IN_ROUTE_DELIVERY", "FINISHED"} => Ready(o)

\* Alone, the two sides differ only while a job is about to tell the other.
OrderAlone(o) ==
  alone /\ sol[o] # NoRow =>
    /\ sol[o].status = order[o].status \/ \E w \in Workers : At(w, "sync") /\ job[w].order = o
    /\ sol[o].courier # Nobody =>
         \/ order[o].stage = sol[o].stage
         \/ \E w \in Workers : job[w].step \in Announcing /\ job[w].order = o

OneAtATime == alone => \A v, w \in Workers : At(v, "idle") \/ At(w, "idle") \/ v = w

Shape == /\ order \in [Orders -> Row \cup {NoRow}] /\ sol \in [Orders -> Row \cup {NoRow}]
         /\ job \in [Workers -> Job]
         /\ crashes \in 0..MaxCrashes /\ dbErrors \in 0..MaxDbErrors /\ alone \in BOOLEAN
         /\ undone \subseteq Orders

\* What a step may do to an order others work on.
Grows(o) == /\ Ready(o) => Ready(o)'
            /\ order[o] # NoRow => order'[o] # NoRow
            /\ sol[o] # NoRow => sol'[o] # NoRow
            /\ sol[o].courier \in Couriers => sol'[o].courier = sol[o].courier

DeliveryInv == /\ Shape /\ OneAtATime
               /\ \A w \in Workers : JobOK(w) /\ JobAlone(w)
               /\ \A o \in Orders : OrderOK(o) /\ OrderAlone(o)

-----------------------------------------------------------------------------
LEMMA RowFacts ==
  /\ NoRow \notin Row /\ Idle \in Job
  /\ NoRow.status = "none" /\ NoRow.courier = Nobody /\ NoRow.stage = ""
  /\ \A r \in Row : r.status \in Statuses /\ r.courier \in Couriers \cup {Nobody}
                   /\ r.stage \in courierStatuses \cup {""}
BY DEF NoRow, Row, Idle, Job, Steps, Statuses, courierStatuses

LEMMA StageFacts ==
  \A from :
    /\ nextCourierStatus(from) = "FINISHED" => from = "IN_ROUTE_DELIVERY"
    /\ nextCourierStatus(from) = "IN_ROUTE_COLECT" => from = ""
BY Zenon DEF nextCourierStatus

\* A step of w leaves the jobs of the others as good as they were.
LEMMA OthersKeep ==
  ASSUME DeliveryInv, NEW w \in Workers,
         \A v \in Workers : v # w => job'[v] = job[v],
         UNCHANGED alone,
         alone => \A v \in Workers : v # w => At(v, "idle"),
         \A o \in Orders : Grows(o)
  PROVE  \A v \in Workers : v # w => JobOK(v)' /\ JobAlone(v)'
<1> SUFFICES ASSUME NEW v \in Workers, v # w PROVE JobOK(v)' /\ JobAlone(v)'
  OBVIOUS
<1>1. job'[v] = job[v] /\ JobOK(v) /\ JobAlone(v) /\ alone' = alone
  BY DEF DeliveryInv
<1>2. CASE job[v].step = "idle"
  BY <1>1, <1>2 DEF JobOK, JobAlone, CourierSteps, Announcing
<1>3. CASE job[v].step # "idle"
  <2>1. job[v].order \in Orders /\ order[job[v].order] # NoRow /\ ~alone
    BY <1>1, <1>3 DEF JobOK, At
  <2>2. Grows(job[v].order)
    BY <2>1
  <2>3. JobAlone(v)'
    BY <1>1, <2>1 DEF JobAlone
  <2>4. sol[job[v].order].courier \in Couriers \cup {Nobody}
    BY <2>1, RowFacts DEF DeliveryInv, OrderOK
  <2>5. JobOK(v)'
    BY <1>1, <1>3, <2>1, <2>2, <2>4 DEF JobOK, Grows, CourierSteps, Announcing, Away
  <2> QED BY <2>3, <2>5
<1> QED BY <1>2, <1>3

\* While a job of w runs, or w is free to start one, nobody else runs alone.
LEMMA NobodyElse ==
  ASSUME DeliveryInv, NEW w \in Workers, ~At(w, "idle") \/ Free(w)
  PROVE  alone => \A v \in Workers : v # w => At(v, "idle")
BY DEF DeliveryInv, OneAtATime, Free

\* One goroutine took a step: what is left to show is its own job and the orders.
LEMMA OneStep ==
  ASSUME DeliveryInv, NEW w \in Workers, ~At(w, "idle") \/ Free(w), Shape',
         UNCHANGED alone,
         \A v \in Workers : v # w => job'[v] = job[v],
         \A o \in Orders : Grows(o),
         JobOK(w)', JobAlone(w)',
         \A o \in Orders : OrderOK(o)' /\ OrderAlone(o)'
  PROVE  DeliveryInv'
<1>1. alone => \A v \in Workers : v # w => At(v, "idle")
  BY NobodyElse
<1>2. \A v \in Workers : v # w => JobOK(v)' /\ JobAlone(v)'
  BY <1>1, OthersKeep
<1>3. OneAtATime'
  BY <1>1 DEF OneAtATime, At
<1> QED BY <1>2, <1>3 DEF DeliveryInv
-----------------------------------------------------------------------------
\* Steps that only change the job: a request starts, a check, a read, a failure.
LEMMA JobOnly ==
  ASSUME DeliveryInv, NEW w \in Workers, ~At(w, "idle") \/ Free(w),
         UNCHANGED <<order, sol, faults>>,
         NEW j \in Job, job' = [job EXCEPT ![w] = j],
         job[w].step \notin Announcing \cup {"sync"}
           \/ (job[w].step \in Announcing /\ j.step \in Announcing /\ j.order = job[w].order),
         JobOK(w)', JobAlone(w)'
  PROVE  DeliveryInv'
<1>1. Shape'
  BY DEF DeliveryInv, Shape, faults
<1>2. /\ \A v \in Workers : v # w => job'[v] = job[v]
      /\ job'[w] = j
  BY DEF DeliveryInv, Shape
<1>3. \A o \in Orders : Grows(o)
  BY DEF Grows, Ready, faults
<1>4. ASSUME NEW o \in Orders PROVE OrderOK(o)' /\ OrderAlone(o)'
  <2>1. OrderOK(o) /\ OrderAlone(o)
    BY DEF DeliveryInv
  <2>2. OrderOK(o)'
    BY <2>1 DEF OrderOK, Ready, faults
  <2>3. \A v \in Workers : At(v, "sync") => At(v, "sync")' /\ job'[v] = job[v]
    BY <1>2 DEF At, Announcing
  <2>4. \A v \in Workers : job[v].step \in Announcing =>
          job'[v].step \in Announcing /\ job'[v].order = job[v].order
    BY <1>2
  <2> QED BY <2>1, <2>2, <2>3, <2>4 DEF OrderAlone, faults
<1> QED BY <1>1, <1>2, <1>3, <1>4, OneStep DEF faults

LEMMA IdleIsFine ==
  ASSUME NEW w \in Workers, job'[w] = Idle
  PROVE  JobOK(w)' /\ JobAlone(w)'
<1>1. Idle.step = "idle"
  BY DEF Idle
<1>2. job'[w].step = "idle" /\ job'[w] \in Job
  BY <1>1, RowFacts
<1> QED BY <1>2 DEF JobOK, JobAlone, CourierSteps, Announcing

LEMMA FinishKeeps ==
  ASSUME DeliveryInv, NEW w \in Workers, ~At(w, "idle"), ~At(w, "sync"), 
         job[w].step \notin Announcing, UNCHANGED <<order, sol, faults>>, Finish(w)
  PROVE  DeliveryInv'
<1>1. job' = [job EXCEPT ![w] = Idle] /\ job'[w] = Idle
  BY DEF Finish, DeliveryInv, Shape
<1> QED BY <1>1, JobOnly, IdleIsFine, RowFacts DEF At

LEMMA Started ==
  ASSUME DeliveryInv, NEW w \in Workers, NEW o \in Orders, NEW step \in Steps,
         NEW want \in Statuses \cup courierStatuses \cup {""},
         NEW c \in Couriers \cup {Nobody}, NEW seen \in Row \cup {NoRow},
         Start(w, step, o, want, c, seen)
  PROVE  /\ job'[w].step = step /\ job'[w].order = o /\ job'[w].want = want
         /\ job'[w].courier = c /\ job'[w].seen = seen /\ job'[w] \in Job
<1> DEFINE j == [step |-> step, order |-> o, want |-> want, courier |-> c, seen |-> seen]
<1>1. /\ j.step = step /\ j.order = o /\ j.want = want /\ j.courier = c /\ j.seen = seen
      /\ j \in Job
  BY DEF Job
<1>2. job'[w] = j
  BY DEF Start, DeliveryInv, Shape
<1> HIDE DEF j
<1> QED BY <1>1, <1>2

LEMMA StartKeeps ==
  ASSUME DeliveryInv, NEW w \in Workers, NEW o \in Orders, NEW step \in Steps,
         NEW want \in Statuses \cup courierStatuses \cup {""},
         NEW c \in Couriers \cup {Nobody}, NEW seen \in Row \cup {NoRow},
         Start(w, step, o, want, c, seen), UNCHANGED <<order, sol, faults>>,
         JobOK(w)', JobAlone(w)'
  PROVE  DeliveryInv'
<1> DEFINE j == [step |-> step, order |-> o, want |-> want, courier |-> c, seen |-> seen]
<1>1. j \in Job /\ job' = [job EXCEPT ![w] = j] /\ Free(w)
  BY DEF Job, Start
<1>2. job[w].step = "idle"
  BY <1>1 DEF Free, At
<1> HIDE DEF j
<1> QED BY <1>1, <1>2, JobOnly DEF Announcing

LEMMA RequestKeeps ==
  ASSUME DeliveryInv, NEW w \in Workers, NEW o \in Orders
  PROVE  /\ \A status \in Statuses : UpdateOrderStatus(w, o, status) => DeliveryInv'
         /\ GeneratePickupCode(w, o) => DeliveryInv'
         /\ \A c \in Couriers : HandShakeDeliveryman(w, c, o) => DeliveryInv'
         /\ \A c \in Couriers, stage \in courierStatuses :
              UpdateByDeliveryman(w, c, o, stage) => DeliveryInv'
<1>0. OrderOK(o)
  BY DEF DeliveryInv
<1>2. ASSUME NEW status \in Statuses, UpdateOrderStatus(w, o, status) PROVE DeliveryInv'
  <2>1. /\ UNCHANGED <<order, sol, faults>> /\ order[o] # NoRow
        /\ Start(w, "patch", o, status, Nobody, NoRow) /\ "patch" \in Steps
    BY <1>2 DEF UpdateOrderStatus, Steps
  <2>2. /\ job'[w].step = "patch" /\ job'[w].order = o /\ job'[w].want = status
        /\ job'[w] \in Job
    BY <2>1, Started
  <2>3. JobOK(w)' /\ JobAlone(w)'
    BY <2>1, <2>2 DEF JobOK, JobAlone, CourierSteps, Announcing
  <2> QED BY <2>1, <2>3, StartKeeps
<1>3. ASSUME GeneratePickupCode(w, o) PROVE DeliveryInv'
  <2>1. /\ UNCHANGED <<order, sol, faults>> /\ order[o] # NoRow /\ order[o] \in Row
        /\ order[o].courier \in {Nobody, sol[o].courier}
        /\ Start(w, "code.save", o, "", Nobody, order[o]) /\ "code.save" \in Steps
    BY <1>0, <1>3 DEF GeneratePickupCode, Steps, OrderOK
  <2>2. /\ job'[w].step = "code.save" /\ job'[w].order = o /\ job'[w].seen = order[o]
        /\ job'[w] \in Job
    <3>1. PICK seen \in Row \cup {NoRow} : seen = order[o]
      BY <2>1
    <3>2. PICK want \in {""} : want \in Statuses \cup courierStatuses \cup {""}
      OBVIOUS
    <3>3. PICK c \in {Nobody} : c \in Couriers \cup {Nobody}
      OBVIOUS
    <3>4. Start(w, "code.save", o, want, c, seen)
      BY <2>1, <3>1, <3>2, <3>3
    <3>5. /\ job'[w].step = "code.save" /\ job'[w].order = o /\ job'[w].seen = seen
          /\ job'[w] \in Job
      BY <2>1, <3>2, <3>3, <3>4, Started
    <3> QED BY <3>1, <3>5
  <2>3. JobOK(w)' /\ JobAlone(w)'
    BY <2>1, <2>2 DEF JobOK, JobAlone, CourierSteps, Announcing, faults
  <2> QED BY <2>1, <2>3, StartKeeps
<1>4. ASSUME NEW c \in Couriers, HandShakeDeliveryman(w, c, o) PROVE DeliveryInv'
  <2>1. /\ UNCHANGED <<order, sol, faults>> /\ order[o] # NoRow /\ sol[o] # NoRow
        /\ Start(w, "claim", o, "IN_ROUTE_COLECT", c, NoRow)
        /\ "claim" \in Steps /\ "IN_ROUTE_COLECT" \in courierStatuses
    BY <1>0, <1>4 DEF HandShakeDeliveryman, Steps, OrderOK, courierStatuses
  <2>2. /\ job'[w].step = "claim" /\ job'[w].order = o /\ job'[w].want = "IN_ROUTE_COLECT"
        /\ job'[w].courier = c /\ job'[w] \in Job
    BY <2>1, Started
  <2>3. JobOK(w)' /\ JobAlone(w)'
    BY <2>1, <2>2 DEF JobOK, JobAlone, CourierSteps, Announcing
  <2> QED BY <2>1, <2>3, StartKeeps
<1>5. ASSUME NEW c \in Couriers, NEW stage \in courierStatuses, UpdateByDeliveryman(w, c, o, stage)
      PROVE DeliveryInv'
  <2>0. PICK step \in {"ready", "advance"} :
          step = IF stage = "IN_ROUTE_DELIVERY" /\ sol[o].stage # stage THEN "ready" ELSE "advance"
    OBVIOUS
  <2>1. /\ UNCHANGED <<order, sol, faults>> /\ sol[o] # NoRow /\ order[o] # NoRow
        /\ sol[o] \in Row /\ Start(w, step, o, stage, c, sol[o])
    BY <1>0, <1>5, <2>0 DEF UpdateByDeliveryman, OrderOK
  <2>2. /\ step \in Steps
        /\ step = "ready" => stage = "IN_ROUTE_DELIVERY"
        /\ step = "advance" => stage # "IN_ROUTE_DELIVERY" \/ sol[o].stage = stage
    BY <2>0 DEF Steps
  <2>3. validCourierTransition(sol[o].stage, stage)
    BY <1>5 DEF UpdateByDeliveryman
  <2>4. /\ job'[w].step = step /\ job'[w].order = o /\ job'[w].want = stage
        /\ job'[w].courier = c /\ job'[w].seen = sol[o] /\ job'[w] \in Job
    BY <2>1, <2>2, Started
  <2>5. step = "advance" /\ stage \in Away => Ready(o)
    <3>1. step = "advance" /\ stage \in Away => sol[o].stage \in Away
      BY <2>2, <2>3, StageFacts DEF validCourierTransition, Away
    <3> QED BY <1>0, <3>1 DEF OrderOK
  <2>6. sol[o].status \in {"DONE", "IN_ROUTE_DELIVERY", "FINISHED"} => Ready(o)
    BY <1>0 DEF OrderOK
  <2>7. Ready(o)' = Ready(o) /\ order'[o] # NoRow /\ sol'[o] # NoRow
    BY <2>1 DEF Ready, faults
  <2>8. JobOK(w)'
    BY <2>0, <2>2, <2>3, <2>4, <2>5, <2>6, <2>7, <2>1 DEF JobOK, CourierSteps, Announcing
  <2>9. JobAlone(w)'
    BY <2>0, <2>4 DEF JobAlone, Announcing
  <2> QED BY <2>1, <2>2, <2>8, <2>9, StartKeeps
<1> QED BY <1>2, <1>3, <1>4, <1>5

LEMMA CreateKeeps ==
  ASSUME DeliveryInv, NEW w \in Workers, NEW o \in Orders,
         NEW status \in {"AWAIT_APPROVE", "SCHEDULED"}, CreateOrder(w, o, status)
  PROVE  DeliveryInv'
<1> DEFINE new == [NoRow EXCEPT !.status = status]
<1>1. /\ new \in Row /\ new.courier = Nobody /\ new # NoRow
  BY DEF NoRow, Row, Statuses
<1>2. /\ order[o] = NoRow /\ order' = [order EXCEPT ![o] = new]
      /\ UNCHANGED <<sol, job, faults>> /\ Free(w)
  BY DEF CreateOrder
<1> HIDE DEF new
<1>3. /\ Shape /\ Shape'
      /\ order'[o] = new /\ \A u \in Orders : u # o => order'[u] = order[u]
  BY <1>1, <1>2 DEF DeliveryInv, Shape, faults
<1>4. /\ OrderOK(o) /\ sol[o] = NoRow
      /\ \A v \in Workers : job[v].step # "idle" => job[v].order # o
  BY <1>2 DEF DeliveryInv, OrderOK, JobOK
<1>5. NoRow.status = "none" /\ NoRow.stage = "" /\ NoRow.courier = Nobody
  BY DEF NoRow
<1>6. \A u \in Orders : Grows(u)
  BY <1>1, <1>2, <1>3, <1>5 DEF Grows, Ready, faults
<1>7. ASSUME NEW u \in Orders PROVE OrderOK(u)' /\ OrderAlone(u)'
  <2>1. OrderOK(u) /\ OrderAlone(u)
    BY DEF DeliveryInv
  <2>2. CASE u = o
    BY <1>1, <1>2, <1>3, <1>4, <1>5, <2>2 DEF OrderOK, OrderAlone, Away
  <2>3. CASE u # o
    BY <1>2, <1>3, <2>1, <2>3 DEF OrderOK, OrderAlone, Ready, faults, At
  <2> QED BY <2>2, <2>3
<1>8. JobOK(w)' /\ JobAlone(w)'
  <2>1. job'[w].step = "idle" /\ job'[w] \in Job
    BY <1>2, <1>3 DEF Free, At, Shape
  <2> QED BY <2>1 DEF JobOK, JobAlone, CourierSteps, Announcing
<1> QED BY <1>2, <1>3, <1>6, <1>7, <1>8, OneStep DEF faults

-----------------------------------------------------------------------------
(* Calls of a running job.                                                    *)

LEMMA ReadyForGood ==
  \A from \in {"DONE", "IN_ROUTE_DELIVERY", "FINISHED"} :
    \A to \in NextStatuses(from) : to \in {"DONE", "IN_ROUTE_DELIVERY", "FINISHED"}
<1>1. NextStatuses("DONE") = {"IN_ROUTE_DELIVERY", "FINISHED"}
  BY Zenon DEF NextStatuses
<1>2. NextStatuses("IN_ROUTE_DELIVERY") = {"FINISHED"}
  BY Zenon DEF NextStatuses
<1>3. NextStatuses("FINISHED") = {}
  BY Zenon DEF NextStatuses
<1> QED BY <1>1, <1>2, <1>3

\* What is known when a job makes a call.
LEMMA Running ==
  ASSUME DeliveryInv, NEW w \in Workers, ~At(w, "idle"), NEW o, o = job[w].order
  PROVE  /\ o \in Orders /\ order[o] \in Row /\ order[o] # NoRow
         /\ sol[o] \in Row \cup {NoRow}
         /\ OrderOK(o) /\ JobOK(w) /\ JobAlone(w)
         /\ alone => \A v \in Workers : v # w => job[v].step = "idle"
         /\ alone /\ sol[o] # NoRow /\ ~At(w, "sync") => sol[o].status = order[o].status
         /\ alone /\ sol[o] # NoRow /\ job[w].step \notin Announcing /\ sol[o].courier # Nobody
              => order[o].stage = sol[o].stage
<1>1. JobOK(w) /\ JobAlone(w)
  BY DEF DeliveryInv
<1>2. o \in Orders /\ order[o] # NoRow
  BY <1>1 DEF JobOK, At
<1>3. OrderOK(o) /\ OrderAlone(o)
  BY <1>2 DEF DeliveryInv
<1>4. alone => \A v \in Workers : v # w => job[v].step = "idle"
  BY NobodyElse DEF At
<1>5. order[o] \in Row /\ sol[o] \in Row \cup {NoRow}
  BY <1>2, <1>3 DEF OrderOK
<1>6. alone /\ sol[o] # NoRow /\ ~At(w, "sync") => sol[o].status = order[o].status
  BY <1>3, <1>4 DEF OrderAlone, At
<1>7. alone /\ sol[o] # NoRow /\ job[w].step \notin Announcing /\ sol[o].courier # Nobody
        => order[o].stage = sol[o].stage
  BY <1>3, <1>4 DEF OrderAlone, Announcing
<1> QED BY <1>1, <1>2, <1>3, <1>4, <1>5, <1>6, <1>7

\* A call changes its job and the rows of its order.
LEMMA CallKeeps ==
  ASSUME DeliveryInv, NEW w \in Workers, ~At(w, "idle"), NEW o, o = job[w].order,
         Shape', UNCHANGED faults,
         \A u \in Orders : u # o => order'[u] = order[u] /\ sol'[u] = sol[u],
         \A v \in Workers : v # w => job'[v] = job[v],
         Grows(o), OrderOK(o)', JobOK(w)', JobAlone(w)',
         alone /\ sol'[o] # NoRow =>
           /\ sol'[o].status = order'[o].status \/ (job'[w].step = "sync" /\ job'[w].order = o)
           /\ sol'[o].courier # Nobody =>
                \/ order'[o].stage = sol'[o].stage
                \/ job'[w].step \in Announcing /\ job'[w].order = o
  PROVE  DeliveryInv'
<1>1. o \in Orders
  BY Running
<1>2. OrderAlone(o)'
  BY DEF OrderAlone, faults, At
<1>3. ASSUME NEW u \in Orders, u # o PROVE Grows(u) /\ OrderOK(u)' /\ OrderAlone(u)'
  <2>1. OrderOK(u) /\ OrderAlone(u)
    BY DEF DeliveryInv
  <2>2. Grows(u) /\ OrderOK(u)'
    BY <1>3, <2>1 DEF Grows, OrderOK, Ready, faults
  <2>3. \A v \in Workers : job[v].order = u => job'[v] = job[v]
    BY <1>3
  <2> QED BY <1>3, <2>1, <2>2, <2>3 DEF OrderAlone, faults, At
<1> QED BY <1>1, <1>2, <1>3, OneStep DEF faults

LEMMA PatchStatusKeeps ==
  ASSUME DeliveryInv, NEW w \in Workers, PatchStatus(w), NEW o, o = job[w].order
  PROVE  DeliveryInv'
<1> DEFINE want == job[w].want
           saved == [order[o] EXCEPT !.status = want]
           j == [job[w] EXCEPT !.step = "sync", !.seen = saved]
<1>1. job[w].step = "patch" /\ ~At(w, "idle")
  BY DEF PatchStatus, At
<1>2. /\ o \in Orders /\ order[o] \in Row /\ order[o] # NoRow /\ sol[o] \in Row \cup {NoRow}
      /\ OrderOK(o) /\ JobOK(w)
      /\ alone /\ sol[o] # NoRow /\ sol[o].courier # Nobody => order[o].stage = sol[o].stage
  BY <1>1, Running DEF Announcing
<1>3. CASE want \notin NextStatuses(order[o].status)
  BY <1>1, <1>3, FinishKeeps DEF PatchStatus, At, Announcing
<1>4. CASE want \in NextStatuses(order[o].status)
  <2>1. want \in Statuses /\ job[w] \in Job
    BY <1>1, <1>2 DEF JobOK
  <2>2. /\ saved \in Row /\ saved.status = want /\ saved.courier = order[o].courier
        /\ saved.stage = order[o].stage
    BY <1>2, <2>1 DEF Row
  <2>3. /\ order' = [order EXCEPT ![o] = saved] /\ UNCHANGED <<sol, faults>>
        /\ job' = [job EXCEPT ![w].step = "sync", ![w].seen = saved]
    BY <1>4 DEF PatchStatus, GotoSeen
  <2> HIDE DEF saved
  <2>4. j \in Job /\ j.step = "sync" /\ j.order = o /\ j.seen = saved
    BY <2>1, <2>2 DEF Job, Steps
  <2>5. job' = [job EXCEPT ![w] = j]
    BY <2>3 DEF DeliveryInv, Shape
  <2> HIDE DEF j, want
  <2>6. /\ order'[o] = saved /\ job'[w] = j /\ sol' = sol
        /\ \A u \in Orders : u # o => order'[u] = order[u]
        /\ \A v \in Workers : v # w => job'[v] = job[v]
        /\ Shape'
    BY <1>2, <2>2, <2>3, <2>4, <2>5 DEF DeliveryInv, Shape, faults
  <2>7. Ready(o) => o \in undone \/ saved.status \in {"DONE", "IN_ROUTE_DELIVERY", "FINISHED"}
    BY <1>4, <2>2, ReadyForGood DEF Ready
  <2>8. Grows(o) /\ OrderOK(o)'
    BY <1>2, <2>2, <2>3, <2>6, <2>7, RowFacts DEF Grows, OrderOK, Ready, faults
  <2>9. JobOK(w)' /\ JobAlone(w)'
    BY <1>2, <2>2, <2>4, <2>6, RowFacts DEF JobOK, JobAlone, CourierSteps, Announcing, Ready
  <2>10. alone /\ sol[o] # NoRow /\ sol[o].courier # Nobody => saved.stage = sol[o].stage
    BY <1>2, <2>2
  <2> QED BY <1>1, <2>3, <2>4, <2>6, <2>8, <2>9, <2>10, CallKeeps
<1> QED BY <1>3, <1>4

LEMMA SyncKeeps ==
  ASSUME DeliveryInv, NEW w \in Workers, SyncSolicitation(w), NEW o, o = job[w].order
  PROVE  DeliveryInv'
<1> DEFINE status == job[w].seen.status
           enters == sol[o] # NoRow \/ status \in dispatchableStatuses
           queued == IF enters THEN [sol[o] EXCEPT !.status = status] ELSE sol[o]
<1>1. job[w].step = "sync" /\ ~At(w, "idle")
  BY DEF SyncSolicitation, At
<1>2. /\ o \in Orders /\ order[o] \in Row /\ order[o] # NoRow /\ sol[o] \in Row \cup {NoRow}
      /\ OrderOK(o) /\ JobOK(w) /\ JobAlone(w)
  BY <1>1, Running
<1>3. status \in Statuses
  BY <1>1, <1>2, RowFacts DEF JobOK
<1>4. /\ queued.courier = sol[o].courier /\ queued.stage = sol[o].stage
      /\ enters => queued \in Row /\ queued.status = status
      /\ ~enters => queued = sol[o] /\ sol[o] = NoRow
  <2>1. CASE ~enters
    BY <2>1
  <2>2. CASE enters /\ sol[o] = NoRow
    <3>1. queued = [NoRow EXCEPT !.status = status]
      BY <2>2
    <3>2. /\ [NoRow EXCEPT !.status = status] \in Row
          /\ [NoRow EXCEPT !.status = status].status = status
          /\ [NoRow EXCEPT !.status = status].courier = NoRow.courier
          /\ [NoRow EXCEPT !.status = status].stage = NoRow.stage
      BY <1>3 DEF Row, NoRow
    <3> QED BY <2>2, <3>1, <3>2
  <2>3. CASE enters /\ sol[o] \in Row
    <3>1. queued = [sol[o] EXCEPT !.status = status]
      BY <2>3
    <3>2. /\ [sol[o] EXCEPT !.status = status] \in Row
          /\ [sol[o] EXCEPT !.status = status].status = status
          /\ [sol[o] EXCEPT !.status = status].courier = sol[o].courier
          /\ [sol[o] EXCEPT !.status = status].stage = sol[o].stage
      BY <1>3, <2>3 DEF Row
    <3> QED BY <2>3, <3>1, <3>2
  <2> QED BY <1>2, <2>1, <2>2, <2>3
<1>5. /\ sol' = IF enters THEN [sol EXCEPT ![o].status = status] ELSE sol
      /\ job' = [job EXCEPT ![w] = Idle] /\ UNCHANGED <<order, faults>>
  BY DEF SyncSolicitation, Finish
<1> HIDE DEF queued, status, enters
<1>6. /\ sol'[o] = queued /\ \A u \in Orders : u # o => sol'[u] = sol[u]
      /\ sol' \in [Orders -> Row \cup {NoRow}]
  <2>1. CASE enters
    <3>1. sol' = [sol EXCEPT ![o] = queued]
      BY <1>5, <2>1 DEF queued
    <3> QED BY <1>2, <1>4, <2>1, <3>1 DEF DeliveryInv, Shape
  <2>2. CASE ~enters
    BY <1>4, <1>5, <2>2 DEF DeliveryInv, Shape
  <2> QED BY <2>1, <2>2
<1>7. /\ job'[w] = Idle /\ \A v \in Workers : v # w => job'[v] = job[v]
      /\ Shape'
  BY <1>5, <1>6, RowFacts DEF DeliveryInv, Shape, faults
<1>8. status \in {"DONE", "IN_ROUTE_DELIVERY", "FINISHED"} => Ready(o)
  BY <1>1, <1>2 DEF JobOK, status
<1>9. Grows(o) /\ OrderOK(o)'
  <2>1. Ready(o)' = Ready(o)
    BY <1>5 DEF Ready, faults
  <2>2. sol[o] # NoRow => queued # NoRow
    BY <1>4, RowFacts DEF enters
  <2> QED BY <1>2, <1>4, <1>5, <1>6, <1>8, <2>1, <2>2, RowFacts DEF Grows, OrderOK
<1>10. JobOK(w)' /\ JobAlone(w)'
  BY <1>7, IdleIsFine
<1>11. alone /\ sol'[o] # NoRow =>
         /\ sol'[o].status = order'[o].status
         /\ sol'[o].courier # Nobody => order'[o].stage = sol'[o].stage
  <2>1. alone => status = order[o].status
    BY <1>1, <1>2 DEF JobAlone, status
  <2>2. alone /\ sol[o] # NoRow /\ sol[o].courier # Nobody => order[o].stage = sol[o].stage
    BY <1>1, Running DEF Announcing
  <2>3. sol[o] = NoRow => queued.courier = Nobody
    BY <1>4, RowFacts
  <2>4. queued # NoRow => enters
    BY <1>4
  <2> QED BY <1>4, <1>5, <1>6, <2>1, <2>2, <2>3, <2>4
<1> QED BY <1>1, <1>5, <1>6, <1>7, <1>9, <1>10, <1>11, CallKeeps

LEMMA SaveCodeKeeps ==
  ASSUME DeliveryInv, NEW w \in Workers, SavePickupCode(w)
  PROVE  DeliveryInv'
<1>1. job[w].step = "code.save" /\ ~At(w, "idle")
  BY DEF SavePickupCode, At
<1>2. PICK o : o = job[w].order
  OBVIOUS
<1>3. PICK read : read = job[w].seen
  OBVIOUS
<1>4. /\ o \in Orders /\ order[o] \in Row /\ OrderOK(o) /\ JobOK(w) /\ JobAlone(w)
      /\ sol[o] \in Row \cup {NoRow}
  BY <1>1, <1>2, Running
<1>5. /\ read \in Row /\ read.courier \in {Nobody, sol[o].courier}
      /\ alone => read = order[o]
  BY <1>1, <1>2, <1>3, <1>4 DEF JobOK, JobAlone
<1>6. /\ order' = [order EXCEPT ![o] = read] /\ UNCHANGED <<sol, crashes, dbErrors, alone>>
      /\ undone' = IF read.status = order[o].status THEN undone ELSE undone \cup {o}
      /\ job' = [job EXCEPT ![w] = Idle]
  BY <1>2, <1>3 DEF SavePickupCode, Finish
<1>7. /\ order'[o] = read /\ \A u \in Orders : u # o => order'[u] = order[u]
      /\ job'[w] = Idle /\ \A v \in Workers : v # w => job'[v] = job[v]
      /\ Shape'
  BY <1>4, <1>5, <1>6, RowFacts DEF DeliveryInv, Shape
<1>8. /\ Ready(o) => Ready(o)'
      /\ \A u \in Orders : u # o => Ready(u)' = Ready(u)
  BY <1>6, <1>7 DEF Ready
<1>9. \A u \in Orders : Grows(u)
  BY <1>5, <1>6, <1>7, <1>8, RowFacts DEF Grows
<1>10. ASSUME NEW u \in Orders PROVE OrderOK(u)' /\ OrderAlone(u)'
  <2>1. OrderOK(u) /\ OrderAlone(u)
    BY DEF DeliveryInv
  <2>2. CASE u = o
    <3>1. OrderOK(u)'
      BY <1>4, <1>5, <1>6, <1>7, <1>8, <2>2, RowFacts DEF OrderOK
    <3>2. alone => order'[u] = order[u]
      BY <1>5, <1>7, <2>2
    <3> QED BY <1>1, <1>6, <1>7, <2>1, <3>1, <3>2 DEF OrderAlone, At, Announcing
  <2>3. CASE u # o
    <3>1. OrderOK(u)'
      BY <1>6, <1>7, <1>8, <2>1, <2>3 DEF OrderOK
    <3> QED BY <1>1, <1>6, <1>7, <2>1, <2>3, <3>1 DEF OrderAlone, At, Announcing
  <2> QED BY <2>2, <2>3
<1>11. JobOK(w)' /\ JobAlone(w)'
  BY <1>7, IdleIsFine
<1> QED BY <1>1, <1>6, <1>7, <1>9, <1>10, <1>11, OneStep

LEMMA ClaimKeeps ==
  ASSUME DeliveryInv, NEW w \in Workers, Claim(w), NEW o, o = job[w].order
  PROVE  DeliveryInv'
<1> DEFINE queued == [sol[o] EXCEPT !.courier = job[w].courier, !.stage = "IN_ROUTE_COLECT"]
           j == [job[w] EXCEPT !.step = "courier.read"]
<1>1. job[w].step = "claim" /\ ~At(w, "idle")
  BY DEF Claim, At
<1>2. /\ o \in Orders /\ order[o] \in Row /\ order[o] # NoRow /\ sol[o] \in Row \cup {NoRow}
      /\ OrderOK(o) /\ JobOK(w)
      /\ alone /\ sol[o] # NoRow => sol[o].status = order[o].status
  BY <1>1, Running DEF At
<1>3. CASE ~(sol[o].courier = Nobody /\ sol[o].status \in claimableStatuses)
  BY <1>1, <1>3, FinishKeeps DEF Claim, At, Announcing
<1>4. CASE sol[o].courier = Nobody /\ sol[o].status \in claimableStatuses
  <2>1. /\ sol[o] # NoRow /\ job[w].courier \in Couriers /\ job[w].want = "IN_ROUTE_COLECT"
        /\ job[w] \in Job /\ sol[o] \in Row
    BY <1>1, <1>2 DEF JobOK, CourierSteps
  <2>2. /\ queued \in Row /\ queued.status = sol[o].status /\ queued.courier = job[w].courier
        /\ queued.stage = "IN_ROUTE_COLECT"
    BY <2>1 DEF Row, courierStatuses
  <2>3. /\ sol' = [sol EXCEPT ![o] = queued] /\ UNCHANGED <<order, faults>>
        /\ job' = [job EXCEPT ![w].step = "courier.read"]
    BY <1>4 DEF Claim, Claimed, Goto
  <2>4. /\ j \in Job /\ j.step = "courier.read" /\ j.order = o /\ j.courier = job[w].courier
        /\ j.want = job[w].want
    BY <2>1 DEF Job, Steps
  <2>5. job' = [job EXCEPT ![w] = j]
    BY <2>3 DEF DeliveryInv, Shape
  <2> HIDE DEF queued, j
  <2>6. /\ sol'[o] = queued /\ job'[w] = j
        /\ \A u \in Orders : u # o => sol'[u] = sol[u]
        /\ \A v \in Workers : v # w => job'[v] = job[v]
        /\ Shape'
    BY <1>2, <2>2, <2>3, <2>4, <2>5 DEF DeliveryInv, Shape, faults
  <2>7. Grows(o) /\ OrderOK(o)'
    <3>1. Ready(o)' = Ready(o) /\ order'[o] = order[o]
      BY <2>3 DEF Ready, faults
    <3>2. order[o].courier = Nobody /\ sol[o].courier \notin Couriers
      BY <1>2, <1>4, OrderAssumption DEF OrderOK
    <3> QED BY <1>2, <2>1, <2>2, <2>6, <3>1, <3>2, RowFacts, OrderAssumption DEF Grows, OrderOK, Away
  <2>8. JobOK(w)' /\ JobAlone(w)'
    <3>1. order'[o] # NoRow /\ sol'[o] # NoRow
      BY <1>2, <2>2, <2>3, <2>6, RowFacts
    <3>2. job[w].want \in courierStatuses
      BY <2>1 DEF courierStatuses
    <3> QED BY <1>2, <2>1, <2>2, <2>4, <2>6, <3>1, <3>2 DEF JobOK, JobAlone, CourierSteps, Announcing
  <2>9. alone => sol'[o].status = order'[o].status /\ job'[w].step \in Announcing /\ job'[w].order = o
    BY <1>2, <2>1, <2>2, <2>3, <2>4, <2>6 DEF Announcing
  <2> QED BY <1>1, <2>3, <2>6, <2>7, <2>8, <2>9, CallKeeps
<1> QED BY <1>3, <1>4

\* A job that goes from the ready check to the advance, told or believing that
\* the order is ready.
LEMMA GoAdvanceKeeps ==
  ASSUME DeliveryInv, NEW w \in Workers, NEW o, o = job[w].order, At(w, "ready"), Ready(o),
         Goto(w, "advance"), UNCHANGED <<order, sol, faults>>
  PROVE  DeliveryInv'
<1> DEFINE j == [job[w] EXCEPT !.step = "advance"]
<1>1. job[w].step = "ready" /\ ~At(w, "idle")
  BY DEF At
<1>2. o \in Orders /\ order[o] # NoRow /\ JobOK(w)
  BY <1>1, Running
<1>3. /\ j \in Job /\ j.step = "advance" /\ j.order = o /\ j.want = job[w].want
      /\ j.courier = job[w].courier /\ j.seen = job[w].seen
  BY <1>2 DEF JobOK, Job, Steps
<1>4. job' = [job EXCEPT ![w] = j] /\ job'[w] = j
  BY DEF Goto, DeliveryInv, Shape
<1> HIDE DEF j
<1>5. Ready(o)'
  BY DEF Ready, faults
<1>6. JobOK(w)' /\ JobAlone(w)'
  BY <1>1, <1>2, <1>3, <1>4, <1>5 DEF JobOK, JobAlone, CourierSteps, Announcing
<1> QED BY <1>1, <1>3, <1>4, <1>6, JobOnly DEF Announcing

LEMMA CheckReadyKeeps ==
  ASSUME DeliveryInv, NEW w \in Workers, CheckReady(w)
  PROVE  DeliveryInv'
<1>1. PICK o : o = job[w].order
  OBVIOUS
<1>2. CASE order[o].status \in ReadyStatuses
  <2>1. Ready(o)
    BY <1>2 DEF ReadyStatuses, Ready
  <2> QED BY <1>1, <1>2, <2>1, GoAdvanceKeeps DEF CheckReady
<1>3. CASE order[o].status \notin ReadyStatuses
  <2>1. Finish(w) /\ UNCHANGED <<order, sol, faults>> /\ job[w].step = "ready"
    BY <1>1, <1>3 DEF CheckReady, At
  <2> QED BY <2>1, FinishKeeps DEF At, Announcing
<1> QED BY <1>2, <1>3

LEMMA AdvanceKeeps ==
  ASSUME DeliveryInv, NEW w \in Workers, Advance(w), NEW o, o = job[w].order
  PROVE  DeliveryInv'
<1> DEFINE queued == [sol[o] EXCEPT !.stage = job[w].want]
           j == [job[w] EXCEPT !.step = "courier.read"]
<1>1. job[w].step = "advance" /\ ~At(w, "idle")
  BY DEF Advance, At
<1>2. /\ o \in Orders /\ order[o] \in Row /\ order[o] # NoRow /\ sol[o] \in Row \cup {NoRow}
      /\ OrderOK(o) /\ JobOK(w)
      /\ alone /\ sol[o] # NoRow => sol[o].status = order[o].status
  BY <1>1, Running DEF At
<1>3. CASE ~(sol[o].courier = job[w].courier /\ sol[o].stage = job[w].seen.stage)
  BY <1>1, <1>3, FinishKeeps DEF Advance, At, Announcing
<1>4. CASE sol[o].courier = job[w].courier /\ sol[o].stage = job[w].seen.stage
  <2>1. /\ sol[o] # NoRow /\ job[w].courier \in Couriers /\ job[w].want \in courierStatuses
        /\ job[w] \in Job /\ sol[o] \in Row /\ (job[w].want \in Away => Ready(o))
    BY <1>1, <1>2 DEF JobOK, CourierSteps
  <2>2. /\ queued \in Row /\ queued.status = sol[o].status /\ queued.courier = sol[o].courier
        /\ queued.stage = job[w].want
    BY <2>1 DEF Row
  <2>3. /\ sol' = [sol EXCEPT ![o] = queued] /\ UNCHANGED <<order, faults>>
        /\ job' = [job EXCEPT ![w].step = "courier.read"]
    BY <1>4 DEF Advance, Goto
  <2>4. /\ j \in Job /\ j.step = "courier.read" /\ j.order = o /\ j.courier = job[w].courier
        /\ j.want = job[w].want
    BY <2>1 DEF Job, Steps
  <2>5. job' = [job EXCEPT ![w] = j]
    BY <2>3 DEF DeliveryInv, Shape
  <2> HIDE DEF queued, j
  <2>6. /\ sol'[o] = queued /\ job'[w] = j
        /\ \A u \in Orders : u # o => sol'[u] = sol[u]
        /\ \A v \in Workers : v # w => job'[v] = job[v]
        /\ Shape'
    BY <1>2, <2>2, <2>3, <2>4, <2>5 DEF DeliveryInv, Shape, faults
  <2>7. Grows(o) /\ OrderOK(o)'
    <3>1. Ready(o)' = Ready(o) /\ order'[o] = order[o]
      BY <2>3 DEF Ready, faults
    <3> QED BY <1>2, <1>4, <2>1, <2>2, <2>6, <3>1, RowFacts, OrderAssumption DEF Grows, OrderOK
  <2>8. JobOK(w)' /\ JobAlone(w)'
    <3>1. order'[o] # NoRow /\ sol'[o] # NoRow
      BY <1>2, <2>2, <2>3, <2>6, RowFacts
    <3>2. /\ job'[w] \in Job /\ job'[w].step = "courier.read" /\ job'[w].order = o
          /\ job'[w].courier \in Couriers /\ job'[w].want \in courierStatuses
          /\ sol'[o].courier = job'[w].courier /\ sol'[o].stage = job'[w].want
      BY <1>4, <2>1, <2>2, <2>4, <2>6
    <3> QED BY <1>2, <3>1, <3>2 DEF JobOK, JobAlone, CourierSteps, Announcing
  <2>9. alone => sol'[o].status = order'[o].status /\ job'[w].step \in Announcing /\ job'[w].order = o
    BY <1>2, <2>1, <2>2, <2>3, <2>4, <2>6 DEF Announcing
  <2> QED BY <1>1, <2>3, <2>6, <2>7, <2>8, <2>9, CallKeeps
<1> QED BY <1>3, <1>4

LEMMA CourierReadKeeps ==
  ASSUME DeliveryInv, NEW w \in Workers, CourierRead(w), NEW o, o = job[w].order
  PROVE  DeliveryInv'
<1> DEFINE j == [job[w] EXCEPT !.step = "courier.patch", !.seen = order[o]]
<1>1. job[w].step = "courier.read" /\ ~At(w, "idle")
  BY DEF CourierRead, At
<1>2. o \in Orders /\ order[o] \in Row /\ order[o] # NoRow /\ JobOK(w) /\ JobAlone(w)
  BY <1>1, Running
<1>3. /\ j \in Job /\ j.step = "courier.patch" /\ j.order = o /\ j.want = job[w].want
      /\ j.courier = job[w].courier /\ j.seen = order[o]
  BY <1>2 DEF JobOK, Job, Steps
<1>4. job' = [job EXCEPT ![w] = j] /\ job'[w] = j /\ UNCHANGED <<order, sol, faults>>
  BY DEF CourierRead, GotoSeen, DeliveryInv, Shape
<1> HIDE DEF j
<1>5. JobOK(w)' /\ JobAlone(w)'
  BY <1>1, <1>2, <1>3, <1>4 DEF JobOK, JobAlone, CourierSteps, Announcing, faults
<1> QED BY <1>1, <1>3, <1>4, <1>5, JobOnly DEF Announcing

\* What becomes of the status when the courier's stage is announced.
LEMMA AfterStage ==
  ASSUME NEW status \in Statuses, NEW stage \in courierStatuses
  PROVE  /\ StatusAfterStage(status, stage) \in Statuses
         /\ StatusAfterStage(status, stage) \in {status} \cup NextStatuses(status)
         /\ status \in {"DONE", "IN_ROUTE_DELIVERY", "FINISHED"} =>
              StatusAfterStage(status, stage) \in {"DONE", "IN_ROUTE_DELIVERY", "FINISHED"}
<1>1. NextStatuses("DONE") = {"IN_ROUTE_DELIVERY", "FINISHED"}
  BY Zenon DEF NextStatuses
<1>2. CASE stage = "IN_ROUTE_DELIVERY" /\ status = "DONE"
  BY <1>1, <1>2 DEF StatusAfterStage, Statuses
<1>3. CASE stage = "FINISHED" /\ "FINISHED" \in NextStatuses(status)
  BY <1>3 DEF StatusAfterStage, Statuses
<1>4. CASE /\ ~(stage = "IN_ROUTE_DELIVERY" /\ status = "DONE")
           /\ ~(stage = "FINISHED" /\ "FINISHED" \in NextStatuses(status))
  BY <1>4 DEF StatusAfterStage
<1> QED BY <1>2, <1>3, <1>4

LEMMA CourierPatchKeeps ==
  ASSUME DeliveryInv, NEW w \in Workers, CourierPatch(w), NEW o, o = job[w].order
  PROVE  DeliveryInv'
<1> DEFINE status == StatusAfterStage(order[o].status, job[w].want)
           saved == [status |-> status, courier |-> job[w].courier, stage |-> job[w].want]
           same == saved.status = job[w].seen.status
           j == IF same THEN Idle ELSE [job[w] EXCEPT !.step = "sync", !.seen = saved]
<1>1. job[w].step = "courier.patch" /\ ~At(w, "idle")
  BY DEF CourierPatch, At
<1>2. /\ o \in Orders /\ order[o] \in Row /\ order[o] # NoRow /\ sol[o] \in Row
      /\ sol[o] # NoRow /\ OrderOK(o) /\ JobOK(w) /\ JobAlone(w)
      /\ sol[o].courier = job[w].courier /\ job[w].courier \in Couriers
      /\ job[w].want \in courierStatuses /\ order[o].status \in Statuses
      /\ alone => sol[o].status = order[o].status
      /\ alone => job[w].seen = order[o] /\ job[w].want = sol[o].stage
  <2>1. /\ o \in Orders /\ order[o] \in Row /\ order[o] # NoRow
        /\ sol[o] \in Row \cup {NoRow} /\ OrderOK(o) /\ JobOK(w) /\ JobAlone(w)
        /\ alone /\ sol[o] # NoRow => sol[o].status = order[o].status
    BY <1>1, Running DEF At
  <2>2. /\ sol[o] # NoRow /\ sol[o].courier = job[w].courier /\ job[w].courier \in Couriers
        /\ job[w].want \in courierStatuses
    BY <1>1, <2>1 DEF JobOK, CourierSteps, Announcing
  <2>3. alone => job[w].seen = order[o] /\ job[w].want = sol[o].stage
    BY <1>1, <2>1 DEF JobAlone, Announcing
  <2> QED BY <2>1, <2>2, <2>3, RowFacts
<1>3. order[o].courier \in {Nobody, job[w].courier}
  BY <1>2 DEF OrderOK
<1>4. /\ saved \in Row /\ saved.courier = job[w].courier /\ saved.stage = job[w].want
      /\ saved.status = status
  BY <1>2, AfterStage DEF Row
<1>5. Ready(o) => o \in undone \/ saved.status \in {"DONE", "IN_ROUTE_DELIVERY", "FINISHED"}
  BY <1>2, <1>4, AfterStage DEF Ready
<1>6. /\ order' = [order EXCEPT ![o] = saved] /\ UNCHANGED <<sol, faults>>
      /\ same => job' = [job EXCEPT ![w] = Idle]
      /\ ~same => job' = [job EXCEPT ![w].step = "sync", ![w].seen = saved]
  BY <1>3 DEF CourierPatch, Finish, GotoSeen
<1> HIDE DEF status
<1>7. /\ j \in Job
      /\ same => j = Idle
      /\ ~same => j.step = "sync" /\ j.order = o /\ j.seen = saved
  <2> HIDE DEF saved, same
  <2>1. job[w] \in Job
    BY <1>2 DEF JobOK
  <2>2. CASE same
    BY <2>2, RowFacts
  <2>3. CASE ~same
    BY <1>4, <2>1, <2>3 DEF Job, Steps
  <2> QED BY <2>2, <2>3
<1> HIDE DEF saved
<1>8. job' = [job EXCEPT ![w] = j]
  BY <1>6 DEF DeliveryInv, Shape
<1> HIDE DEF same, j
<1>9. /\ order'[o] = saved /\ job'[w] = j
      /\ \A u \in Orders : u # o => order'[u] = order[u]
      /\ \A v \in Workers : v # w => job'[v] = job[v]
      /\ Shape'
  BY <1>2, <1>4, <1>6, <1>7, <1>8 DEF DeliveryInv, Shape, faults
<1>10. Grows(o) /\ OrderOK(o)'
  BY <1>2, <1>4, <1>5, <1>6, <1>9, RowFacts DEF Grows, OrderOK, Ready, faults
<1>11. JobOK(w)' /\ JobAlone(w)'
  <2>1. CASE same
    BY <1>7, <1>9, <2>1, IdleIsFine
  <2>2. CASE ~same
    BY <1>2, <1>4, <1>7, <1>9, <2>2, RowFacts DEF JobOK, JobAlone, CourierSteps, Announcing, Ready
  <2> QED BY <2>1, <2>2
<1>12. alone => /\ order'[o].stage = sol'[o].stage
                /\ sol'[o].status = order'[o].status \/ (job'[w].step = "sync" /\ job'[w].order = o)
  <2>1. CASE same
    BY <1>2, <1>4, <1>6, <1>9, <2>1 DEF same
  <2>2. CASE ~same
    BY <1>2, <1>4, <1>6, <1>7, <1>9, <2>2
  <2> QED BY <2>1, <2>2
<1> QED BY <1>1, <1>6, <1>9, <1>10, <1>11, <1>12, CallKeeps

LEMMA FaultKeeps ==
  ASSUME DeliveryInv, Crash \/ \E w \in Workers : DbError(w)
  PROVE  DeliveryInv'
<1>1. CASE Crash
  <2>1. /\ ~alone /\ UNCHANGED <<order, sol, dbErrors, alone, undone>>
        /\ crashes < MaxCrashes /\ crashes' = crashes + 1 /\ \A w \in Workers : job'[w] = Idle
        /\ job' = [w \in Workers |-> Idle]
    BY <1>1 DEF Crash
  <2>2. Shape'
    <3>1. crashes' \in 0..MaxCrashes
      BY <2>1, OrderAssumption DEF DeliveryInv, Shape
    <3> QED BY <2>1, <3>1, RowFacts DEF DeliveryInv, Shape
  <2>3. \A w \in Workers : JobOK(w)' /\ JobAlone(w)'
    BY <2>1, IdleIsFine
  <2>4. \A o \in Orders : OrderOK(o)' /\ OrderAlone(o)'
    BY <2>1 DEF DeliveryInv, OrderOK, OrderAlone, Ready
  <2>5. OneAtATime'
    BY <2>1 DEF OneAtATime
  <2> QED BY <2>2, <2>3, <2>4, <2>5 DEF DeliveryInv
<1>2. ASSUME NEW w \in Workers, DbError(w) PROVE DeliveryInv'
  <2> DEFINE on == At(w, "ready") /\ job[w].seen.status \in ReadyStatuses
             j == IF on THEN [job[w] EXCEPT !.step = "advance"] ELSE Idle
  <2>1. /\ ~alone /\ ~At(w, "idle") /\ UNCHANGED <<order, sol, crashes, alone, undone>>
        /\ dbErrors < MaxDbErrors /\ dbErrors' = dbErrors + 1
    BY <1>2 DEF DbError
  <2>2. PICK o : o = job[w].order
    OBVIOUS
  <2>3. o \in Orders /\ order[o] # NoRow /\ JobOK(w)
    BY <2>1, <2>2, Running
  <2>4. /\ j \in Job
        /\ on => /\ j.step = "advance" /\ j.order = o /\ j.want = job[w].want
                 /\ j.courier = job[w].courier /\ j.seen = job[w].seen
        /\ ~on => j = Idle
    BY <2>2, <2>3, RowFacts DEF JobOK, Job, Steps
  <2>5. job' = [job EXCEPT ![w] = j] /\ job'[w] = j
    BY <1>2 DEF DbError, Goto, Finish, DeliveryInv, Shape
  <2> HIDE DEF j
  <2>6. on => Ready(o)
    BY <2>2, <2>3 DEF JobOK, At, ReadyStatuses
  <2>7. JobOK(w)' /\ JobAlone(w)'
    <3>1. CASE on
      <4>1. job[w].step = "ready"
        BY <3>1 DEF At
      <4>2. Ready(o)'
        BY <2>1, <2>6, <3>1 DEF Ready
      <4> HIDE DEF on
      <4> QED BY <2>1, <2>2, <2>3, <2>4, <2>5, <3>1, <4>1, <4>2
           DEF JobOK, JobAlone, CourierSteps, Announcing
    <3>2. CASE ~on
      BY <2>4, <2>5, <3>2, IdleIsFine
    <3> QED BY <3>1, <3>2
  <2>8. Shape'
    <3>1. dbErrors' \in 0..MaxDbErrors
      BY <2>1, OrderAssumption DEF DeliveryInv, Shape
    <3> QED BY <2>1, <2>4, <2>5, <3>1 DEF DeliveryInv, Shape
  <2>9. \A o1 \in Orders : Grows(o1) /\ OrderOK(o1)' /\ OrderAlone(o1)'
    BY <2>1 DEF DeliveryInv, OrderOK, OrderAlone, Ready, Grows
  <2>10. \A v \in Workers : v # w => job'[v] = job[v]
    BY <2>5
  <2> QED BY <2>1, <2>7, <2>8, <2>9, <2>10, OneStep
<1> QED BY <1>1, <1>2

LEMMA StepKeeps ==
  ASSUME DeliveryInv, [Next]_vars
  PROVE  DeliveryInv'
<1>1. ASSUME NEW w \in Workers, JobStep(w) PROVE DeliveryInv'
  <2>1. PICK o : o = job[w].order
    OBVIOUS
  <2> QED BY <1>1, <2>1, PatchStatusKeeps, SyncKeeps, SaveCodeKeeps, ClaimKeeps, CheckReadyKeeps,
             AdvanceKeeps, CourierReadKeeps, CourierPatchKeeps DEF JobStep
<1>2. ASSUME NEW w \in Workers, Request(w) PROVE DeliveryInv'
  <2>1. PICK o \in Orders :
          \/ \E status \in {"AWAIT_APPROVE", "SCHEDULED"} : CreateOrder(w, o, status)
          \/ \E status \in Statuses : UpdateOrderStatus(w, o, status)
          \/ GeneratePickupCode(w, o)
          \/ \E c \in Couriers :
               \/ HandShakeDeliveryman(w, c, o)
               \/ \E stage \in courierStatuses : UpdateByDeliveryman(w, c, o, stage)
    BY <1>2 DEF Request
  <2> QED BY <2>1, RequestKeeps, CreateKeeps
<1>3. CASE UNCHANGED vars
  BY <1>3 DEF vars, DeliveryInv, Shape, OneAtATime, JobOK, JobAlone, OrderOK, OrderAlone, Ready, At
<1> QED BY <1>1, <1>2, <1>3, FaultKeeps DEF Next

LEMMA StartsWell == Init => DeliveryInv
<1> SUFFICES ASSUME Init PROVE DeliveryInv
  OBVIOUS
<1>1. /\ \A o \in Orders : order[o] = NoRow /\ sol[o] = NoRow
      /\ \A w \in Workers : job[w] = Idle
      /\ Idle.step = "idle"
  BY DEF Init, Idle
<1>2. Shape
  <2>1. crashes \in 0..MaxCrashes /\ dbErrors \in 0..MaxDbErrors
    BY OrderAssumption DEF Init
  <2>2. /\ order \in [Orders -> Row \cup {NoRow}] /\ sol \in [Orders -> Row \cup {NoRow}]
        /\ job \in [Workers -> Job] /\ alone \in BOOLEAN /\ undone \subseteq Orders
    BY RowFacts DEF Init
  <2> QED BY <2>1, <2>2 DEF Shape
<1>3. \A w \in Workers : JobOK(w) /\ JobAlone(w)
  <2>1. ASSUME NEW w \in Workers PROVE job[w].step = "idle" /\ job[w] \in Job
    BY <1>1, RowFacts
  <2> QED BY <2>1 DEF JobOK, JobAlone, CourierSteps, Announcing
<1>4. \A o \in Orders : OrderOK(o) /\ OrderAlone(o)
  BY <1>1, RowFacts DEF OrderOK, OrderAlone, Away
<1>5. OneAtATime
  BY <1>1 DEF OneAtATime, At
<1> QED BY <1>2, <1>3, <1>4, <1>5 DEF DeliveryInv

LEMMA DeliveryInvariant == Spec => []DeliveryInv
<1>1. Init => DeliveryInv
  BY StartsWell
<1>2. DeliveryInv /\ [Next]_vars => DeliveryInv'
  BY StepKeeps
<1> QED BY <1>1, <1>2, PTL DEF Spec

-----------------------------------------------------------------------------
\* The courier written in an order is the one who claimed it, and a courier who
\* left with an order left with one that was ready, whoever dies or comes at the
\* same time, unless a pickup code put an older status back (courier_sync.go:41, 50-52; deliveryman.go:191-203).
THEOREM OrderCorrect == Spec => []OrderInv
<1>1. DeliveryInv => OrderInv
  <2>1. ASSUME DeliveryInv, NEW w \in Workers, job[w].step # "idle"
        PROVE  /\ job[w].order \in Orders /\ order[job[w].order] # NoRow
               /\ job[w].step \in {"claim", "ready", "advance", "courier.read", "courier.patch"}
                    => sol[job[w].order] # NoRow
    <3>1. JobOK(w)
      BY <2>1 DEF DeliveryInv
    <3> QED BY <2>1, <3>1 DEF JobOK, CourierSteps
  <2>2. DeliveryInv => TypeOK
    BY <2>1 DEF DeliveryInv, Shape, TypeOK
  <2>3. DeliveryInv => CourierAgrees /\ LeavesOnlyWhenReady
    BY DEF DeliveryInv, OrderOK, CourierAgrees, LeavesOnlyWhenReady, Away, Ready
  <2> QED BY <2>2, <2>3 DEF OrderInv
<1> QED BY <1>1, DeliveryInvariant, PTL

\* What one call does to the status and to the stage of an order.
LEMMA CallsAreLegal ==
  ASSUME DeliveryInv, NEW w \in Workers, JobStep(w), NEW o, o = job[w].order
  PROVE  /\ o \in Orders /\ \A u \in Orders : u # o => order'[u] = order[u] /\ sol'[u] = sol[u]
         /\ \/ order'[o].status \in {order[o].status} \cup NextStatuses(order[o].status)
            \/ SavesRowRead(o)
         /\ sol'[o].stage \in {sol[o].stage, nextCourierStatus(sol[o].stage)}
         /\ alone /\ sol'[o].courier # sol[o].courier => order[o].status \in claimableStatuses
<1>1. ~At(w, "idle")
  BY DEF JobStep, At, PatchStatus, SyncSolicitation, SavePickupCode, Claim, CheckReady, Advance,
         CourierRead, CourierPatch
<1>2. /\ o \in Orders /\ order[o] \in Row /\ sol[o] \in Row \cup {NoRow}
      /\ OrderOK(o) /\ JobOK(w) /\ JobAlone(w)
      /\ alone /\ sol[o] # NoRow /\ ~At(w, "sync") => sol[o].status = order[o].status
  BY <1>1, Running
<1>3. Shape
  BY DEF DeliveryInv
<1>4. CASE PatchStatus(w)
  <2> DEFINE saved == [order[o] EXCEPT !.status = job[w].want]
  <2>1. saved.status = job[w].want
    BY <1>2 DEF Row
  <2>2. /\ UNCHANGED sol
        /\ \/ UNCHANGED order
           \/ job[w].want \in NextStatuses(order[o].status) /\ order' = [order EXCEPT ![o] = saved]
    BY <1>4 DEF PatchStatus
  <2> HIDE DEF saved
  <2> QED BY <1>2, <1>3, <2>1, <2>2 DEF Shape
<1>5. CASE SyncSolicitation(w)
  <2> DEFINE status == job[w].seen.status
  <2>1. /\ UNCHANGED order
        /\ sol' = [sol EXCEPT ![o].status = status] \/ sol' = sol
    BY <1>5 DEF SyncSolicitation
  <2> HIDE DEF status
  <2>2. sol'[o].courier = sol[o].courier /\ sol'[o].stage = sol[o].stage
        /\ \A u \in Orders : u # o => sol'[u] = sol[u]
    <3>1. CASE sol' = sol
      BY <3>1
    <3>2. CASE sol' = [sol EXCEPT ![o] = [sol[o] EXCEPT !.status = status]]
      <4>1. CASE sol[o] = NoRow
        <5>1. /\ [NoRow EXCEPT !.status = status].courier = NoRow.courier
              /\ [NoRow EXCEPT !.status = status].stage = NoRow.stage
          BY DEF NoRow
        <5> QED BY <1>2, <1>3, <3>2, <4>1, <5>1 DEF Shape
      <4>2. CASE sol[o] \in Row
        <5>1. /\ [sol[o] EXCEPT !.status = status].courier = sol[o].courier
              /\ [sol[o] EXCEPT !.status = status].stage = sol[o].stage
          BY <4>2 DEF Row
        <5> QED BY <1>2, <1>3, <3>2, <5>1 DEF Shape
      <4> QED BY <1>2, <4>1, <4>2
    <3> QED BY <2>1, <3>1, <3>2
  <2> QED BY <1>2, <2>1, <2>2
<1>6. CASE SavePickupCode(w)
  <2>1. At(w, "code.save") /\ UNCHANGED sol /\ order' = [order EXCEPT ![o] = job[w].seen]
    BY <1>6 DEF SavePickupCode
  <2>2. order'[o] = job[w].seen /\ \A u \in Orders : u # o => order'[u] = order[u]
    BY <1>2, <1>3, <2>1 DEF Shape
  <2>3. SavesRowRead(o)
    BY <2>1, <2>2 DEF SavesRowRead
  <2> QED BY <1>2, <2>1, <2>2, <2>3
<1>7. CASE Claim(w)
  <2>1. UNCHANGED order /\ ~At(w, "sync") /\ job[w].step = "claim"
    BY <1>7 DEF Claim, At
  <2>2. sol[o] \in Row
    BY <1>2, <2>1 DEF JobOK, CourierSteps
  <2>3. CASE UNCHANGED sol
    BY <1>2, <2>1, <2>3
  <2>4. CASE sol' # sol
    <3>1. sol' = [sol EXCEPT ![o] = [sol[o] EXCEPT !.courier = job[w].courier,
                                                   !.stage = "IN_ROUTE_COLECT"]]
      BY <1>7, <2>4 DEF Claim, Claimed
    <3>2. sol[o].courier = Nobody /\ sol[o].status \in claimableStatuses
      BY <1>7, <2>4 DEF Claim
    <3>3. sol[o].stage = "" /\ nextCourierStatus("") = "IN_ROUTE_COLECT"
      <4>1. nextCourierStatus("") = "IN_ROUTE_COLECT"
        BY Zenon DEF nextCourierStatus
      <4> QED BY <1>2, <3>2, <4>1 DEF OrderOK
    <3>4. /\ sol'[o].stage = "IN_ROUTE_COLECT"
          /\ \A u \in Orders : u # o => sol'[u] = sol[u]
      BY <1>2, <1>3, <2>2, <3>1 DEF Shape, Row
    <3> QED BY <1>2, <2>1, <2>2, <3>2, <3>3, <3>4, RowFacts
  <2> QED BY <2>3, <2>4
<1>8. CASE CheckReady(w) \/ CourierRead(w)
  BY <1>2, <1>8 DEF CheckReady, CourierRead
<1>9. CASE Advance(w)
  <2>1. UNCHANGED order /\ job[w].step = "advance"
    BY <1>9 DEF Advance, At
  <2>2. sol[o] \in Row /\ validCourierTransition(job[w].seen.stage, job[w].want)
    BY <1>2, <2>1 DEF JobOK, CourierSteps
  <2>3. CASE UNCHANGED sol
    BY <1>2, <2>1, <2>3
  <2>4. CASE sol' # sol
    <3>1. /\ sol' = [sol EXCEPT ![o] = [sol[o] EXCEPT !.stage = job[w].want]]
          /\ sol[o].stage = job[w].seen.stage
      BY <1>9, <2>4 DEF Advance
    <3>2. /\ sol'[o].stage = job[w].want /\ sol'[o].courier = sol[o].courier
          /\ \A u \in Orders : u # o => sol'[u] = sol[u]
      BY <1>2, <1>3, <2>2, <3>1 DEF Shape, Row
    <3>3. job[w].want \in {sol[o].stage, nextCourierStatus(sol[o].stage)}
      BY <2>2, <3>1 DEF validCourierTransition
    <3> QED BY <1>2, <2>1, <3>2, <3>3
  <2> QED BY <2>3, <2>4
<1>10. CASE CourierPatch(w)
  <2> DEFINE saved == [status |-> StatusAfterStage(order[o].status, job[w].want),
                       courier |-> job[w].courier, stage |-> job[w].want]
  <2>1. UNCHANGED sol /\ job[w].step = "courier.patch"
    BY <1>10 DEF CourierPatch, At
  <2>2. order[o].status \in Statuses /\ job[w].want \in courierStatuses
    BY <1>2, <2>1, RowFacts DEF JobOK, CourierSteps
  <2>3. order' = order \/ order' = [order EXCEPT ![o] = saved]
    BY <1>10 DEF CourierPatch
  <2>4. saved.status \in {order[o].status} \cup NextStatuses(order[o].status)
    BY <2>2, AfterStage
  <2> HIDE DEF saved
  <2> QED BY <1>2, <1>3, <2>1, <2>3, <2>4 DEF Shape
<1> QED BY <1>4, <1>5, <1>6, <1>7, <1>8, <1>9, <1>10 DEF JobStep

\* All other steps leave the queue alone and change no order that exists.
LEMMA RestIsQuiet ==
  ASSUME DeliveryInv, [Next]_vars, ~ \E w \in Workers : JobStep(w)
  PROVE  /\ UNCHANGED sol
         /\ \A o \in Orders : order[o] # NoRow => order'[o] = order[o]
<1>1. CASE UNCHANGED vars
  BY <1>1 DEF vars
<1>2. CASE Crash \/ \E w \in Workers : DbError(w)
  BY <1>2 DEF Crash, DbError
<1>3. ASSUME NEW w \in Workers, Request(w)
      PROVE  /\ UNCHANGED sol
             /\ \A o \in Orders : order[o] # NoRow => order'[o] = order[o]
  BY <1>3 DEF Request, CreateOrder, UpdateOrderStatus, GeneratePickupCode, HandShakeDeliveryman,
              UpdateByDeliveryman, DeliveryInv, Shape
<1> QED BY <1>1, <1>2, <1>3 DEF Next

\* The order's status and the courier's stage move only where their machines
\* allow, two calls at once included (orders.go:451-454, deliveryman.go:205-206);
\* the one thing that moves a status otherwise is the save of a pickup code.
THEOREM StatusesLegal == Spec => LegalSteps
<1>1. ASSUME DeliveryInv, [Next]_vars, NEW o \in Orders
      PROVE  /\ order[o] # NoRow => \/ order'[o].status = order[o].status
                                    \/ order'[o].status \in NextStatuses(order[o].status)
                                    \/ SavesRowRead(o)
             /\ sol'[o].stage # sol[o].stage => sol'[o].stage = nextCourierStatus(sol[o].stage)
  <2>1. CASE \E w \in Workers : JobStep(w)
    <3>1. PICK w \in Workers : JobStep(w)
      BY <2>1
    <3>2. PICK u : u = job[w].order
      OBVIOUS
    <3> QED BY <1>1, <3>1, <3>2, CallsAreLegal
  <2>2. CASE ~ \E w \in Workers : JobStep(w)
    BY <1>1, <2>2, RestIsQuiet
  <2> QED BY <2>1, <2>2
<1>2. DeliveryInv /\ [Next]_vars =>
        [\A o \in Orders : order[o] # NoRow =>
           \/ order'[o].status = order[o].status
           \/ order'[o].status \in NextStatuses(order[o].status)
           \/ SavesRowRead(o)]_vars
  BY <1>1
<1>3. DeliveryInv /\ [Next]_vars =>
        [\A o \in Orders : sol'[o].stage # sol[o].stage =>
           sol'[o].stage = nextCourierStatus(sol[o].stage)]_vars
  BY <1>1
<1>4. Spec => LegalOrderSteps
  BY <1>2, DeliveryInvariant, PTL DEF Spec, LegalOrderSteps
<1>5. Spec => StagesInOrder
  BY <1>3, DeliveryInvariant, PTL DEF Spec, StagesInOrder
<1> QED BY <1>4, <1>5, PTL DEF LegalSteps

\* While requests come alone the queue shows the order as it is, and couriers
\* claim only what is alive (sync.go:38-61, courier_sync.go:32-38,
\* solicitations.go:106-108).
THEOREM QuietDays == Spec => QuietDay
<1>1. DeliveryInv => InStep
  BY DEF DeliveryInv, OrderAlone, InStep, Settled
<1>2. ASSUME DeliveryInv, [Next]_vars, NEW o \in Orders,
             alone, sol[o].courier = Nobody, sol'[o].courier # Nobody
      PROVE  order[o].status \notin {"CANCELLED", "DENIED", "FINISHED"}
  <2>1. CASE \E w \in Workers : JobStep(w)
    <3>1. PICK w \in Workers : JobStep(w)
      BY <2>1
    <3>2. PICK u : u = job[w].order
      OBVIOUS
    <3>3. order[o].status \in claimableStatuses
      BY <1>2, <3>1, <3>2, CallsAreLegal
    <3> QED BY <3>3 DEF claimableStatuses
  <2>2. CASE ~ \E w \in Workers : JobStep(w)
    BY <1>2, <2>2, RestIsQuiet
  <2> QED BY <2>1, <2>2
<1>3. DeliveryInv /\ [Next]_vars =>
        [\A o \in Orders : alone /\ sol[o].courier = Nobody /\ sol'[o].courier # Nobody =>
           order[o].status \notin {"CANCELLED", "DENIED", "FINISHED"}]_vars
  BY <1>2
<1>4. Spec => []InStep
  BY <1>1, DeliveryInvariant, PTL
<1>5. Spec => NoDeadClaim
  BY <1>3, DeliveryInvariant, PTL DEF Spec, NoDeadClaim
<1> QED BY <1>4, <1>5, PTL DEF QuietDay

=============================================================================
