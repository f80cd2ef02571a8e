----------------------------- MODULE OrderDelivery -----------------------------
(***************************************************************************)
(* An order lives twice: in order_documents (orders_api) and, once the      *)
(* store approves it, in delivery_solicitations (delivery_api), the queue   *)
(* couriers claim from.  Neither package imports the other; the monolith    *)
(* joins them with two callbacks made after the commit of either side:      *)
(*   status saved      -> OnOrderStatusChanged -> SyncSolicitation          *)
(*   courier advanced  -> OnCourierUpdate      -> ApplyCourierUpdate        *)
(*                                                                         *)
(* A handler is a job of several separately committed database calls, so    *)
(* what it read (seen) may be old when it writes.  A crash drops the jobs.  *)
(*                                                                         *)
(* A behaviour is one of two kinds (alone): a quiet day, when one request   *)
(* runs at a time and nothing fails, and the others, when jobs overlap,     *)
(* calls fail and the process restarts.  Some promises only hold alone.     *)
(*                                                                         *)
(* A new pickup code saves back the whole row it read, and so undoes what   *)
(* a job beside it wrote in between; the history variable undone remembers  *)
(* the orders whose status this put back.                                   *)
(***************************************************************************)
EXTENDS Naturals

CONSTANTS
  Orders,        \* order_documents.legacy_id
  Couriers,
  Nobody,        \* deliveryman id 0
  NoOrder,       \* an idle worker has no order
  Workers,       \* request goroutines
  MaxCrashes,    \* bound: process restarts
  MaxDbErrors    \* bound: failed database calls

ASSUME OrderAssumption ==
  /\ Nobody \notin Couriers
  /\ NoOrder \notin Orders
  /\ MaxCrashes \in Nat /\ MaxDbErrors \in Nat

VARIABLES
  order,   \* order_documents: status, payload.deliveryman id and status
  sol,     \* delivery_solicitations: status, delivery_man_id and _status
  job,     \* what each worker is doing
  crashes, dbErrors,
  alone,   \* one job runs at a time, and nothing fails
  undone   \* history: orders whose status the save of a pickup code put back

vars == <<order, sol, job, crashes, dbErrors, alone, undone>>

-----------------------------------------------------------------------------
Statuses == {"AWAIT_APPROVE", "REQUEST_APPROVE", "SCHEDULED", "APPROVED",
             "PREPARING", "DONE", "IN_ROUTE_DELIVERY", "FINISHED", "DENIED",
             "CANCELLED"}

\* validTransitions: a status that is no key has no way out.
NextStatuses(from) ==
  CASE from \in {"AWAIT_APPROVE", "REQUEST_APPROVE", "SCHEDULED"} ->
         {"APPROVED", "DENIED", "CANCELLED"}
    [] from = "APPROVED"          -> {"PREPARING", "CANCELLED"}
    [] from = "PREPARING"         -> {"DONE", "CANCELLED"}
    [] from = "DONE"              -> {"IN_ROUTE_DELIVERY", "FINISHED"}
    [] from = "IN_ROUTE_DELIVERY" -> {"FINISHED"}
    [] OTHER                      -> {}

dispatchableStatuses == {"APPROVED", "PREPARING", "DONE", "IN_ROUTE_DELIVERY"}
claimableStatuses == {"APPROVED", "PREPARING", "DONE"}

\* The courier's own progress; "" is a delivery nobody has started.
courierStatuses == {"IN_ROUTE_COLECT", "AWAIT_COLECT", "IN_ROUTE_DELIVERY", "FINISHED"}

nextCourierStatus(from) ==
  CASE from = ""                  -> "IN_ROUTE_COLECT"
    [] from = "IN_ROUTE_COLECT"   -> "AWAIT_COLECT"
    [] from = "AWAIT_COLECT"      -> "IN_ROUTE_DELIVERY"
    [] from = "IN_ROUTE_DELIVERY" -> "FINISHED"
    [] OTHER                      -> ""

\* The next step, or the same one again: the app repeats a lost call.
validCourierTransition(from, to) ==
  to \in courierStatuses /\ (to = from \/ to = nextCourierStatus(from))

Row == [status : Statuses, courier : Couriers \cup {Nobody},
        stage : courierStatuses \cup {""}]
NoRow == [status |-> "none", courier |-> Nobody, stage |-> ""]

Steps == {"idle", "patch", "sync", "claim", "ready", "advance",
          "courier.read", "courier.patch", "code.save"}
Job == [step : Steps, order : Orders \cup {NoOrder},
        want : Statuses \cup courierStatuses \cup {""},
        courier : Couriers \cup {Nobody}, seen : Row \cup {NoRow}]
Idle == [step |-> "idle", order |-> NoOrder, want |-> "", courier |-> Nobody,
         seen |-> NoRow]

\* A running job has an order that exists, and everybody on the courier's side
\* works on an order that is in the queue.
TypeOK == /\ order \in [Orders -> Row \cup {NoRow}]
          /\ sol \in [Orders -> Row \cup {NoRow}]
          /\ job \in [Workers -> Job]
          /\ \A w \in Workers : job[w].step # "idle" =>
               job[w].order \in Orders /\ order[job[w].order] # NoRow
          /\ \A w \in Workers :
               job[w].step \in {"claim", "ready", "advance", "courier.read", "courier.patch"}
               => sol[job[w].order] # NoRow
          /\ crashes \in 0..MaxCrashes
          /\ dbErrors \in 0..MaxDbErrors
          /\ alone \in BOOLEAN
          /\ undone \subseteq Orders

Init == /\ order = [o \in Orders |-> NoRow]
        /\ sol = [o \in Orders |-> NoRow]
        /\ job = [w \in Workers |-> Idle]
        /\ crashes = 0
        /\ dbErrors = 0
        /\ alone \in BOOLEAN
        /\ undone = {}

-----------------------------------------------------------------------------
faults == <<crashes, dbErrors, alone, undone>>

At(w, step) == job[w].step = step

Free(w) == At(w, "idle") /\ (alone => \A v \in Workers : At(v, "idle"))

Start(w, step, o, want, c, seen) ==
  /\ Free(w)
  /\ job' = [job EXCEPT ![w] = [step |-> step, order |-> o, want |-> want,
                                courier |-> c, seen |-> seen]]

Goto(w, step) == job' = [job EXCEPT ![w].step = step]
GotoSeen(w, step, row) == job' = [job EXCEPT ![w].step = step, ![w].seen = row]

\* The handler answers, with an error or without.
Finish(w) == job' = [job EXCEPT ![w] = Idle]

-----------------------------------------------------------------------------
(* The order's side: orders.go, orders_pg.go, pickup_code.go. *)

\* The order is saved waiting for the store, or scheduled.
CreateOrder(w, o, status) ==
  /\ Free(w)
  /\ order[o] = NoRow
  /\ order' = [order EXCEPT ![o] = [NoRow EXCEPT !.status = status]]
  /\ UNCHANGED <<sol, job, faults>>

\* The store asks for a status the order it just read may go to.
UpdateOrderStatus(w, o, status) ==
  /\ order[o] # NoRow
  /\ status \in NextStatuses(order[o].status)
  /\ Start(w, "patch", o, status, Nobody, NoRow)
  /\ UNCHANGED <<order, sol, faults>>

\* Mutant of PatchStatus: the transition is not checked again under the lock.
PatchStatusUnchecked(w) ==
  LET o == job[w].order
      saved == [order[o] EXCEPT !.status = job[w].want]
  IN /\ At(w, "patch")
     /\ order' = [order EXCEPT ![o] = saved]
     /\ GotoSeen(w, "sync", saved)
     /\ UNCHANGED <<sol, faults>>

\* patchOrderDoc reloads the row under a lock and checks the transition again.
PatchStatus(w) ==
  LET o == job[w].order
      saved == [order[o] EXCEPT !.status = job[w].want]
  IN /\ At(w, "patch")
     /\ IF job[w].want \in NextStatuses(order[o].status)
          THEN order' = [order EXCEPT ![o] = saved] /\ GotoSeen(w, "sync", saved)
          ELSE UNCHANGED order /\ Finish(w)
     /\ UNCHANGED <<sol, faults>>

\* Mutant of SyncSolicitation: a status that is not dispatched is not synced.
SyncDispatchableOnly(w) ==
  LET o == job[w].order  status == job[w].seen.status
  IN /\ At(w, "sync")
     /\ sol' = IF status \in dispatchableStatuses
                 THEN [sol EXCEPT ![o].status = status] ELSE sol
     /\ Finish(w)
     /\ UNCHANGED <<order, faults>>

\* The status that was saved goes to the queue: a dispatchable one enters it
\* without a courier, any other only updates a row already there.
SyncSolicitation(w) ==
  LET o == job[w].order  status == job[w].seen.status
  IN /\ At(w, "sync")
     /\ sol' = IF sol[o] # NoRow \/ status \in dispatchableStatuses
                 THEN [sol EXCEPT ![o].status = status] ELSE sol
     /\ Finish(w)
     /\ UNCHANGED <<order, faults>>

\* GeneratePickupCode reads the row without a lock ...
GeneratePickupCode(w, o) ==
  /\ order[o] # NoRow
  /\ Start(w, "code.save", o, "", Nobody, order[o])
  /\ UNCHANGED <<order, sol, faults>>

\* ... and saveOrderPrimary writes every column of it back, status and payload
\* included, whatever was saved meanwhile.
SavePickupCode(w) ==
  LET o == job[w].order  read == job[w].seen
  IN /\ At(w, "code.save")
     /\ order' = [order EXCEPT ![o] = read]
     /\ undone' = IF read.status = order[o].status THEN undone ELSE undone \cup {o}
     /\ Finish(w)
     /\ UNCHANGED <<sol, crashes, dbErrors, alone>>

-----------------------------------------------------------------------------
(* The courier's side: solicitations.go, deliveryman.go. *)

\* Mutant of HandShakeDeliveryman: the row is not looked up.
HandShakeUnchecked(w, c, o) ==
  /\ order[o] # NoRow
  /\ Start(w, "claim", o, "IN_ROUTE_COLECT", c, NoRow)
  /\ UNCHANGED <<order, sol, faults>>

\* A courier accepts an order that is in the queue.
HandShakeDeliveryman(w, c, o) ==
  /\ sol[o] # NoRow
  /\ Start(w, "claim", o, "IN_ROUTE_COLECT", c, NoRow)
  /\ UNCHANGED <<order, sol, faults>>

Claimed(w) == [sol EXCEPT ![job[w].order].courier = job[w].courier,
                          ![job[w].order].stage = "IN_ROUTE_COLECT"]

\* Mutant of Claim: the order is taken whoever has it.
ClaimFromAnyone(w) ==
  /\ At(w, "claim")
  /\ IF sol[job[w].order].status \in claimableStatuses
       THEN sol' = Claimed(w) /\ Goto(w, "courier.read")
       ELSE UNCHANGED sol /\ Finish(w)
  /\ UNCHANGED <<order, faults>>

\* Mutant of Claim: whatever the status.
ClaimAnyStatus(w) ==
  /\ At(w, "claim")
  /\ IF sol[job[w].order].courier = Nobody
       THEN sol' = Claimed(w) /\ Goto(w, "courier.read")
       ELSE UNCHANGED sol /\ Finish(w)
  /\ UNCHANGED <<order, faults>>

\* A conditional UPDATE: the first courier takes an order still in the queue.
Claim(w) ==
  /\ At(w, "claim")
  /\ IF /\ sol[job[w].order].courier = Nobody
        /\ sol[job[w].order].status \in claimableStatuses
       THEN sol' = Claimed(w) /\ Goto(w, "courier.read")
       ELSE UNCHANGED sol /\ Finish(w)
  /\ UNCHANGED <<order, faults>>

\* UpdateOrderStatusByDeliverymanID: the courier of a live order takes a step.
UpdateByDeliveryman(w, c, o, stage) ==
  LET row == sol[o]
  IN /\ row # NoRow /\ row.courier = c
     /\ row.status \notin {"CANCELLED", "DENIED"}
     /\ validCourierTransition(row.stage, stage)
     /\ Start(w, IF stage = "IN_ROUTE_DELIVERY" /\ row.stage # stage
                   THEN "ready" ELSE "advance", o, stage, c, row)
     /\ UNCHANGED <<order, sol, faults>>

ReadyStatuses == {"DONE", "IN_ROUTE_DELIVERY"}

\* Mutant of CheckReady: nobody looks at the order.
CheckReadyNever(w) ==
  /\ At(w, "ready")
  /\ Goto(w, "advance")
  /\ UNCHANGED <<order, sol, faults>>

\* Leaving with the order asks order_documents whether it is ready.
CheckReady(w) ==
  /\ At(w, "ready")
  /\ IF order[job[w].order].status \in ReadyStatuses
       THEN Goto(w, "advance") ELSE Finish(w)
  /\ UNCHANGED <<order, sol, faults>>

\* Mutant of Advance: the stage that was read is not compared.
AdvanceUnconditional(w) ==
  /\ At(w, "advance")
  /\ sol' = [sol EXCEPT ![job[w].order].stage = job[w].want]
  /\ Goto(w, "courier.read")
  /\ UNCHANGED <<order, faults>>

\* A conditional UPDATE on the stage that was read.
Advance(w) ==
  LET o == job[w].order
  IN /\ At(w, "advance")
     /\ IF sol[o].courier = job[w].courier /\ sol[o].stage = job[w].seen.stage
          THEN /\ sol' = [sol EXCEPT ![o].stage = job[w].want]
               /\ Goto(w, "courier.read")
          ELSE UNCHANGED sol /\ Finish(w)
     /\ UNCHANGED <<order, faults>>

\* ApplyCourierUpdate reads the order ...
CourierRead(w) ==
  /\ At(w, "courier.read")
  /\ GotoSeen(w, "courier.patch", order[job[w].order])
  /\ UNCHANGED <<order, sol, faults>>

\* Mutant of StatusAfterStage: only an order on its way can be finished.
FinishOnlyFromRoute(status, stage) ==
  IF stage = "IN_ROUTE_DELIVERY" /\ status = "DONE" THEN "IN_ROUTE_DELIVERY"
  ELSE IF stage = "FINISHED" /\ status = "IN_ROUTE_DELIVERY" THEN "FINISHED"
  ELSE status

\* What the courier's stage makes of the order's status.
StatusAfterStage(status, stage) ==
  IF \/ stage = "IN_ROUTE_DELIVERY" /\ status = "DONE"
     \/ stage = "FINISHED" /\ "FINISHED" \in NextStatuses(status)
    THEN stage ELSE status

\* ... and under the lock writes courier, stage and status, unless the order
\* is another courier's; a status that differs from the one read is announced.
CourierPatch(w) ==
  LET o == job[w].order
      c == job[w].courier
      saved == [status  |-> StatusAfterStage(order[o].status, job[w].want),
                courier |-> c, stage |-> job[w].want]
  IN /\ At(w, "courier.patch")
     /\ IF order[o].courier \notin {Nobody, c}
          THEN UNCHANGED order /\ Finish(w)
          ELSE /\ order' = [order EXCEPT ![o] = saved]
               /\ IF saved.status = job[w].seen.status
                    THEN Finish(w) ELSE GotoSeen(w, "sync", saved)
     /\ UNCHANGED <<sol, faults>>

-----------------------------------------------------------------------------
(* Faults. *)

\* A call fails: an error for the caller, or a line in the log once the
\* handler's own change is saved.  Not knowing the order's status, the ready
\* check falls back to the one in the queue's row.
DbError(w) ==
  /\ ~alone /\ dbErrors < MaxDbErrors
  /\ ~At(w, "idle")
  /\ dbErrors' = dbErrors + 1
  /\ IF At(w, "ready") /\ job[w].seen.status \in ReadyStatuses
       THEN Goto(w, "advance") ELSE Finish(w)
  /\ UNCHANGED <<order, sol, crashes, alone, undone>>

Crash ==
  /\ ~alone /\ crashes < MaxCrashes
  /\ \E w \in Workers : ~At(w, "idle")
  /\ crashes' = crashes + 1
  /\ job' = [w \in Workers |-> Idle]
  /\ UNCHANGED <<order, sol, dbErrors, alone, undone>>

-----------------------------------------------------------------------------
JobStep(w) ==
  \/ PatchStatus(w) \/ SyncSolicitation(w) \/ SavePickupCode(w)
  \/ Claim(w) \/ CheckReady(w) \/ Advance(w) \/ CourierRead(w) \/ CourierPatch(w)

Request(w) ==
  \E o \in Orders :
    \/ \E status \in {"AWAIT_APPROVE", "SCHEDULED"} : CreateOrder(w, o, status)
    \/ \E status \in Statuses : UpdateOrderStatus(w, o, status)
    \/ GeneratePickupCode(w, o)
    \/ \E c \in Couriers :
         \/ HandShakeDeliveryman(w, c, o)
         \/ \E stage \in courierStatuses : UpdateByDeliveryman(w, c, o, stage)

Next == (\E w \in Workers : JobStep(w) \/ Request(w) \/ DbError(w)) \/ Crash

\* A goroutine that runs gets to its next call; stores and couriers may stop.
Fairness == \A w \in Workers : WF_vars(JobStep(w))

Spec == Init /\ [][Next]_vars /\ Fairness

-----------------------------------------------------------------------------
\* The courier written in an order is the one who claimed it: however late an
\* announcement arrives, nobody else's name replaces it
\* (courier_sync.go:41, 50-52; solicitations.go:106-108).
CourierAgrees == \A o \in Orders : order[o].courier \in {Nobody, sol[o].courier}

\* A courier who left with the order, or delivered it, left with one the store
\* had made ready (deliveryman.go:191-203); only where a pickup code put an older
\* status back may it look as if not.
LeavesOnlyWhenReady ==
  \A o \in Orders \ undone : sol[o].stage \in {"IN_ROUTE_DELIVERY", "FINISHED"} =>
    order[o].status \in {"DONE", "IN_ROUTE_DELIVERY", "FINISHED"}

\* An order and its queue row agree on who carries it and on when it may leave,
\* whoever dies or comes at the same time.
OrderInv == TypeOK /\ CourierAgrees /\ LeavesOnlyWhenReady

\* The new pickup code of an order is saved, with the row as it was read.
SavesRowRead(o) ==
  \E w \in Workers : At(w, "code.save") /\ job[w].order = o /\ order'[o] = job[w].seen

\* The order's status only ever moves along validTransitions, two clicks at the
\* same time and a courier who finishes meanwhile included (orders.go:451-454);
\* what moves it otherwise is the save of a new pickup code, and nothing else
\* (pickup_code.go:63-73).
LegalOrderSteps ==
  [][\A o \in Orders : order[o] # NoRow =>
       \/ order'[o].status = order[o].status
       \/ order'[o].status \in NextStatuses(order[o].status)
       \/ SavesRowRead(o)]_vars

\* The courier's stages are neither skipped nor undone by two calls at once
\* ("duas chamadas simultaneas nao pulam etapa", deliveryman.go:205-206).
StagesInOrder ==
  [][\A o \in Orders : sol'[o].stage # sol[o].stage =>
       sol'[o].stage = nextCourierStatus(sol[o].stage)]_vars

\* Neither the store's status nor the courier's stage ever moves where it may not,
\* two calls at once included; the stage not even by a pickup code.
LegalSteps == LegalOrderSteps /\ StagesInOrder

\* Alone, and once nobody is working on an order, the queue shows the status
\* the order has, and the order the stage its courier is in (sync.go:38-61,
\* courier_sync.go:32-38).
Settled(o) == \A w \in Workers : job[w].order # o

InStep ==
  \A o \in Orders : alone /\ Settled(o) /\ sol[o] # NoRow =>
    /\ sol[o].status = order[o].status
    /\ sol[o].courier # Nobody => order[o].stage = sol[o].stage

\* Not so: an order that ended is not left where couriers claim from ("aprovado
\* entra, cancelado e finalizado saem", orders.go:479-480).  An approval may be
\* announced after the cancellation that followed it.
DeadLeavesQueue ==
  \A o \in Orders :
    Settled(o) /\ order[o].status \in {"CANCELLED", "DENIED", "FINISHED"} =>
      sol[o].status \notin claimableStatuses

\* Alone, nobody claims an order that was cancelled, denied or finished
\* ("cancelado ou finalizado nao se aceita", solicitations.go:108).
NoDeadClaim ==
  [][\A o \in Orders : alone /\ sol[o].courier = Nobody /\ sol'[o].courier # Nobody =>
       order[o].status \notin {"CANCELLED", "DENIED", "FINISHED"}]_vars

\* While requests come alone the two sides show the same order, and couriers
\* claim only what is alive.
QuietDay == []InStep /\ NoDeadClaim

\* Unless a process dies, a call fails or a pickup code puts an older status back,
\* what a courier delivered ends up FINISHED for the store and the customer, however
\* the announcements of the last two stages cross (courier_sync.go:56-64).
DeliveredIsFinished ==
  \A o \in Orders : sol[o].stage = "FINISHED" ~>
    order[o].status = "FINISHED" \/ o \in undone \/ crashes + dbErrors > 0

-----------------------------------------------------------------------------
(* What comments of the code say and the model refutes.                      *)

\* No illegal transition at all ("Bloqueia transicoes ilegais como CANCELLED->DONE
\* ou FINISHED->PREPARING", orders.go:342-343): the save of a pickup code makes them.
NoIllegalStep ==
  [][\A o \in Orders : order[o] # NoRow =>
       order'[o].status \in {order[o].status} \cup NextStatuses(order[o].status)]_vars
=============================================================================
