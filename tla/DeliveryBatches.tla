--------------------------- MODULE DeliveryBatches ---------------------------
(***************************************************************************)
(* Orders that one courier delivers together: the administrators' handlers  *)
(* of orders_api (batch.go) and the job that ends batches nobody finished   *)
(* (batch_expiry.go).  Most handlers read the row of the batch in one call  *)
(* and write it, every column, in another; each call may fail, and then the *)
(* handler answers and is done.                                             *)
(***************************************************************************)
EXTENDS Naturals, FiniteSets

CONSTANTS
  Batches, BatchOrders, BatchCouriers,
  BatchAdmins,        \* requests of administrators under way at once
  NoBatch, NoCourier,
  ExpireAction,  \* what the job makes of a batch: "cancelled" or "completed"
  MaxBatchCalls, \* bound: requests
  MaxJobFaults   \* bound: calls of the job that fail, and crashes of its process

VARIABLES
  batchRow,    \* the table batches: batch |-> its row, or NoBatch
  batchOf,     \* column batch_id of an order
  old,         \* batches created more than MaxBatchAge ago
  admin,       \* a request: the step it is at, its batch, the row it read, its order
  expired,     \* what the job found and has not updated yet
  batchCalls, jobFaults

batchVars == <<batchRow, batchOf, old, admin, expired, batchCalls, jobFaults>>

OpenBatch  == {"active", "delivering"}
EndedBatch == {"cancelled", "completed"}
BatchRows  == [status : OpenBatch \cup EndedBatch, courier : BatchCouriers \cup {NoCourier}, total : Nat]
NoRequest  == [pc |-> "idle"]

ASSUME BatchAssumption ==
  /\ NoBatch \notin Batches /\ NoBatch \notin BatchRows
  /\ ExpireAction \in {"cancelled", "completed"} /\ MaxBatchCalls \in Nat /\ MaxJobFaults \in Nat

BatchTypeOK ==
  /\ batchRow \in [Batches -> BatchRows \cup {NoBatch}]
  /\ batchOf \in [BatchOrders -> Batches \cup {NoBatch}]
  /\ \A a \in BatchAdmins : admin[a].pc \in {"idle", "assign", "complete", "save", "count", "expire", "release"}
  /\ \A b \in old : batchRow[b] # NoBatch

BatchesInit ==
  /\ batchRow = [b \in Batches |-> NoBatch] /\ batchOf = [o \in BatchOrders |-> NoBatch]
  /\ old = {} /\ expired = {} /\ admin = [a \in BatchAdmins |-> NoRequest]
  /\ batchCalls = 0 /\ jobFaults = 0

Saved(b, row) == batchRow' = [batchRow EXCEPT ![b] = row]
Became(a, pc) == admin' = [admin EXCEPT ![a].pc = pc]
Answers(a)    == admin' = [admin EXCEPT ![a] = NoRequest]

-----------------------------------------------------------------------------
(* batch.go *)

\* Created active; the request may already name a courier.
CreateBatch(b, courier) ==
  /\ batchRow[b] = NoBatch
  /\ Saved(b, [status |-> "active", courier |-> courier, total |-> 0])
  /\ UNCHANGED <<batchOf, old, admin, expired, batchCalls, jobFaults>>

\* A handler reads the batch and goes on if its status is one it accepts.
ReadBatch(a, b, pc, statuses, order) ==
  /\ batchCalls < MaxBatchCalls /\ admin[a] = NoRequest /\ batchRow[b] # NoBatch
  /\ batchRow[b].status \in statuses
  /\ admin' = [admin EXCEPT ![a] = [pc |-> pc, batch |-> b, row |-> batchRow[b], order |-> order]]
  /\ batchCalls' = batchCalls + 1
  /\ UNCHANGED <<batchRow, batchOf, old, expired, jobFaults>>

AskAssign(a, b)      == ReadBatch(a, b, "assign", OpenBatch \cup EndedBatch, NoBatch)
AskComplete(a, b)    == ReadBatch(a, b, "complete", {"delivering"}, NoBatch)
AskAddOrder(a, b, o) == ReadBatch(a, b, "save", OpenBatch, o)
AskExpire(a, b)      == ReadBatch(a, b, "expire", OpenBatch, NoBatch)

AssignOpenBatch(a, courier) ==   \* mutant of AssignBatch: any batch that has not ended
  /\ admin[a].pc = "assign" /\ Answers(a)
  /\ batchRow[admin[a].batch].status \in OpenBatch
  /\ Saved(admin[a].batch, [batchRow[admin[a].batch] EXCEPT !.status = "delivering", !.courier = courier])
  /\ UNCHANGED <<batchOf, old, expired, batchCalls, jobFaults>>

\* UPDATE ... WHERE status = 'active': of two requests one gets the batch.
AssignBatch(a, courier) ==
  /\ admin[a].pc = "assign" /\ Answers(a)
  /\ LET b == admin[a].batch
     IN IF batchRow[b].status = "active"
          THEN Saved(b, [batchRow[b] EXCEPT !.status = "delivering", !.courier = courier])
          ELSE UNCHANGED batchRow
  /\ UNCHANGED <<batchOf, old, expired, batchCalls, jobFaults>>

\* The row as it was read is saved as completed.
CompleteBatch(a) ==
  /\ admin[a].pc = "complete" /\ Answers(a)
  /\ Saved(admin[a].batch, [admin[a].row EXCEPT !.status = "completed"])
  /\ UNCHANGED <<batchOf, old, expired, batchCalls, jobFaults>>

AddOrderToBatch(a) ==
  /\ admin[a].pc = "save" /\ Became(a, "count")
  /\ batchOf' = [batchOf EXCEPT ![admin[a].order] = admin[a].batch]
  /\ UNCHANGED <<batchRow, old, expired, batchCalls, jobFaults>>

CountOrderStale(a) ==   \* mutant of CountOrder: the row as it was read is saved
  /\ admin[a].pc = "count" /\ Answers(a)
  /\ Saved(admin[a].batch, [admin[a].row EXCEPT !.total = @ + 1])
  /\ UNCHANGED <<batchOf, old, expired, batchCalls, jobFaults>>

\* total_orders = total_orders + 1, and no other column.
CountOrder(a) ==
  /\ admin[a].pc = "count" /\ Answers(a)
  /\ Saved(admin[a].batch, [batchRow[admin[a].batch] EXCEPT !.total = @ + 1])
  /\ UNCHANGED <<batchOf, old, expired, batchCalls, jobFaults>>

ForceExpireBatch(a) ==
  /\ admin[a].pc = "expire" /\ Became(a, "release")
  /\ Saved(admin[a].batch, [admin[a].row EXCEPT !.status = "cancelled"])
  /\ UNCHANGED <<batchOf, old, expired, batchCalls, jobFaults>>

ReleaseOrders(a) ==
  /\ admin[a].pc = "release" /\ Answers(a)
  /\ batchOf' = [o \in BatchOrders |-> IF batchOf[o] = admin[a].batch THEN NoBatch ELSE batchOf[o]]
  /\ UNCHANGED <<batchRow, old, expired, batchCalls, jobFaults>>

\* The next call of a handler fails, or its process dies.
GiveUpBatch(a) ==
  /\ admin[a] # NoRequest /\ Answers(a)
  /\ UNCHANGED <<batchRow, batchOf, old, expired, batchCalls, jobFaults>>

-----------------------------------------------------------------------------
(* batch_expiry.go *)

\* MaxBatchAge passes.
AgeBatch(b) ==
  /\ batchRow[b] # NoBatch /\ b \notin old /\ old' = old \cup {b}
  /\ UNCHANGED <<batchRow, batchOf, admin, expired, batchCalls, jobFaults>>

ExpirableWaiting == {b \in old : batchRow[b].status = "active"}   \* mutant of Expirable
ExpirableYoung ==   \* mutant of Expirable: no cutoff
  {b \in Batches : batchRow[b] # NoBatch /\ batchRow[b].status \in OpenBatch}

Expirable == {b \in old : batchRow[b].status \in OpenBatch}

\* The timer fires and the last run is over.
FindExpired ==
  /\ expired = {} /\ expired' = Expirable
  /\ UNCHANGED <<batchRow, batchOf, old, admin, batchCalls, jobFaults>>

\* By id: the status is not looked at again.  A call that fails is left to the
\* next run, and a process that dies starts over.
ExpireBatch(b) ==
  /\ b \in expired
  /\ \/ /\ expired' = expired \ {b} /\ Saved(b, [batchRow[b] EXCEPT !.status = ExpireAction])
        /\ UNCHANGED jobFaults
     \/ /\ jobFaults < MaxJobFaults /\ jobFaults' = jobFaults + 1
        /\ expired' \in {expired \ {b}, {}} /\ UNCHANGED batchRow
  /\ UNCHANGED <<batchOf, old, admin, batchCalls>>

Administer(a) ==
  \/ \E b \in Batches :
       \/ AskAssign(a, b) \/ AskComplete(a, b) \/ AskExpire(a, b)
       \/ \E o \in BatchOrders : AskAddOrder(a, b, o)
  \/ \E courier \in BatchCouriers : AssignBatch(a, courier)
  \/ CompleteBatch(a) \/ AddOrderToBatch(a) \/ CountOrder(a)
  \/ ForceExpireBatch(a) \/ ReleaseOrders(a) \/ GiveUpBatch(a)

BatchesNext ==
  \/ \E b \in Batches, courier \in BatchCouriers \cup {NoCourier} : CreateBatch(b, courier)
  \/ \E a \in BatchAdmins : Administer(a)
  \/ \E b \in Batches : AgeBatch(b) \/ ExpireBatch(b)
  \/ FindExpired

BatchesSpec == BatchesInit /\ [][BatchesNext]_batchVars

\* The timer of the job fires again and again, and it works off what it found.
BatchFairness == WF_batchVars(FindExpired) /\ \A b \in Batches : WF_batchVars(ExpireBatch(b))

-----------------------------------------------------------------------------
\* The job's list, which is worked off without looking at a row again, holds no
\* batch younger than the age limit ("Idade maxima de um batch em
\* active/delivering antes de expirar", batch_expiry.go:14).
YoungSpared == \A b \in expired : b \in old /\ batchRow[b] # NoBatch

\* A batch that set out stays with the courier it was given to until it ends,
\* however many requests assign it, fill it or end it at once ("prevents TOCTOU
\* race between two concurrent assign requests", batch.go:105-106).
OneCourierPerTrip ==
  [][\A b \in Batches :
       batchRow[b] # NoBatch /\ batchRow[b].status = "delivering" /\ batchRow'[b].status \in OpenBatch
         => batchRow'[b].status = "delivering" /\ batchRow'[b].courier = batchRow[b].courier]_batchVars

\* A batch that ended is never assigned or filled into life again, though the
\* handlers save rows they read before it ended.
EndedBatchStays ==
  [][\A b \in Batches :
       batchRow[b] # NoBatch /\ batchRow[b].status \in EndedBatch => batchRow'[b].status \in EndedBatch]_batchVars

\* A batch nobody finishes is ended by the job (batch_expiry.go:82).
OldBatchEnds ==
  \A b \in Batches :
    b \in old ~> (batchRow[b] # NoBatch /\ batchRow[b].status \in EndedBatch)

\* A trip has one courier and one end, and the job spares the young.
BatchesKept == [](BatchTypeOK /\ YoungSpared) /\ OneCourierPerTrip /\ EndedBatchStays

-----------------------------------------------------------------------------
(* Refuted: see the README.                                                  *)

\* A batch that was completed is not cancelled afterwards.
CompletedStays ==
  [][\A b \in Batches :
       batchRow[b] # NoBatch /\ batchRow[b].status = "completed" => batchRow'[b].status = "completed"]_batchVars

\* With nothing under way, the orders of a batch that was cancelled are free.
CancelledIsEmpty ==
  (\A a \in BatchAdmins : admin[a] = NoRequest) =>
    \A o \in BatchOrders : batchOf[o] # NoBatch => batchRow[batchOf[o]].status # "cancelled"
=============================================================================
