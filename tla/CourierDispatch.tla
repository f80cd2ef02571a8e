--------------------------- MODULE CourierDispatch ---------------------------
(***************************************************************************)
(* Finding a courier for an order (delivery_api): the couriers a process    *)
(* holds in memory, the matching engine, and the dead letter queue in       *)
(* Postgres from which a loop retries.                                      *)
(*                                                                         *)
(* A search, the booking of the courier it found, and each call to the queue *)
(* are steps of their own: each takes its lock and lets it go.  The lock of  *)
(* the queue is held over the two calls of PopNext.                         *)
(***************************************************************************)
EXTENDS Naturals, FiniteSets

CONSTANTS
  Processes,     \* instances of the program on one database
  Handlers,      \* goroutines of TriggerDispatch in a process
  Couriers, Orders,
  Rings,         \* how far a courier is: 1..3 within that search stage, 4 within 50 km
  MaxOrders,     \* orders a courier carries at most
  MaxRowRetries,    \* retries of a row of the queue
  Absent,        \* a courier the process does not know
  Nobody,        \* no worker, no courier
  NoRow,
  MaxAsked, MaxWaits, MaxFaults   \* bounds: requests, half minutes, faults

\* A process runs some handlers, and the ceilings are positive (both are
\* constants of the code).
ASSUME DispatchAssumption ==
  IsFiniteSet(Handlers) /\ MaxOrders \in Nat \ {0} /\ MaxRowRetries \in Nat \ {0}

Loop == "loop"
Workers == Processes \X (Handlers \cup {Loop})
ProcessOf(w) == w[1]

VARIABLES
  couriers,   \* what a process knows of each courier (CourierStore)
  unmatched,        \* rows of unmatched_orders
  lock,       \* holder of the mutex of a process's PostgresDLQStore
  task,       \* what a worker is doing
  given,      \* orders given to a courier since the process knows of it
  announced,  \* orders with an order_matched event, or answered to a forced request
  asked, rows, waits, faults   \* requests, rows made, half minutes, faults so far

dispatchVars == <<couriers, unmatched, lock, task, given, announced, asked, rows, waits, faults>>

Courier == [ring : Rings, available : BOOLEAN, orders : Nat]
\* cooled: half a minute has passed since the last attempt; born: created_at.
Row  == [id : Nat, born : Nat, order : Orders, retry : 0..(MaxRowRetries - 1), cooled : BOOLEAN]
Task == [pc : {"idle", "pop", "delete", "force", "book forced", "search", "book", "push", "repush"},
         order : Orders \cup {Nobody}, row : Row \cup {NoRow}, stage : 0..3,
         pick : Couriers \cup {Nobody}]

DispatchTypeOK ==
  /\ couriers \in [Processes -> [Couriers -> Courier \cup {Absent}]]
  /\ \A r \in unmatched : r \in Row
  /\ lock \in [Processes -> Workers \cup {Nobody}]
  /\ \A w \in Workers : task[w] \in Task
  /\ announced \subseteq Orders

Idle == [pc |-> "idle", order |-> Nobody, row |-> NoRow, stage |-> 0, pick |-> Nobody]

DispatchInit ==
  /\ couriers = [p \in Processes |-> [c \in Couriers |-> Absent]]
  /\ unmatched = {} /\ lock = [p \in Processes |-> Nobody]
  /\ task = [w \in Workers |-> Idle]
  /\ given = [p \in Processes |-> [c \in Couriers |-> 0]]
  /\ announced = {} /\ asked = 0 /\ rows = 0 /\ waits = 0 /\ faults = 0

-----------------------------------------------------------------------------
(* courier_location.go *)

Known(p, c) == couriers[p][c] # Absent

\* A courier reports where it is.  One the process did not know starts empty.
UpdateLocation(p, c, ring, available) ==
  /\ couriers' = [couriers EXCEPT ![p][c] =
       [ring |-> ring, available |-> available,
        orders |-> IF Known(p, c) THEN @.orders ELSE 0]]
  /\ given' = IF Known(p, c) THEN given ELSE [given EXCEPT ![p][c] = 0]
  /\ UNCHANGED <<unmatched, lock, task, announced, asked, rows, waits, faults>>

SetCourierStatus(p, c, available) ==
  /\ Known(p, c)
  /\ couriers' = [couriers EXCEPT ![p][c].available = available]
  /\ UNCHANGED <<unmatched, lock, task, given, announced, asked, rows, waits, faults>>

\* Couriers that were silent for five minutes.
CleanupStale(p, stale) ==
  /\ \A c \in stale : Known(p, c)
  /\ couriers' = [couriers EXCEPT ![p] = [c \in Couriers |-> IF c \in stale THEN Absent ELSE @[c]]]
  /\ UNCHANGED <<unmatched, lock, task, given, announced, asked, rows, waits, faults>>

FindNearbyFull(p, ring) ==   \* mutant of FindNearby: a courier may carry one more
  {c \in Couriers : /\ Known(p, c) /\ couriers[p][c].available
                    /\ couriers[p][c].orders <= MaxOrders
                    /\ couriers[p][c].ring <= ring}

FindNearby(p, ring) ==
  {c \in Couriers : /\ Known(p, c) /\ couriers[p][c].available
                    /\ couriers[p][c].orders < MaxOrders
                    /\ couriers[p][c].ring <= ring}

IncrementOrders(p, c) ==
  /\ couriers' = IF Known(p, c) THEN [couriers EXCEPT ![p][c].orders = @ + 1] ELSE couriers
  /\ given' = [given EXCEPT ![p][c] = @ + 1]

-----------------------------------------------------------------------------
(* matching_engine.go and dispatch_handler.go *)

TaskAt(w, pc) == task' = [task EXCEPT ![w].pc = pc]

\* When a match is made or given up: a handler answers, the loop takes the next row.
AfterMatch(w) == IF w[2] = Loop THEN [Idle EXCEPT !.pc = "pop"] ELSE Idle
Finished(w)   == task' = [task EXCEPT ![w] = AfterMatch(w)]

\* A request for a courier, forced (any courier within 50 km) or not.
TriggerDispatch(w, o, force) ==
  /\ w[2] # Loop /\ task[w].pc = "idle" /\ asked < MaxAsked
  /\ asked' = asked + 1
  /\ task' = [task EXCEPT ![w] = [Idle EXCEPT !.order = o, !.stage = 1,
                                  !.pc = IF force THEN "force" ELSE "search"]]
  /\ UNCHANGED <<couriers, unmatched, lock, given, announced, rows, waits, faults>>

\* The forced search falls back to the ordinary one.
ForcedSearch(w) ==
  LET near == FindNearby(ProcessOf(w), 4)
  IN /\ task[w].pc = "force"
     /\ \/ near = {} /\ TaskAt(w, "search")
        \/ \E c \in near : task' = [task EXCEPT ![w].pc = "book forced", ![w].pick = c]
     /\ UNCHANGED <<couriers, unmatched, lock, given, announced, asked, rows, waits, faults>>

SearchGivesUp(w) ==   \* mutant of Search: nothing is queued when nobody is near
  LET near == FindNearby(ProcessOf(w), task[w].stage)
  IN /\ task[w].pc = "search"
     /\ \/ \E c \in near : task' = [task EXCEPT ![w].pc = "book", ![w].pick = c]
        \/ near = {} /\ Finished(w)
     /\ UNCHANGED <<couriers, unmatched, lock, given, announced, asked, rows, waits, faults>>

\* Three stages, each wider than the last.  Any of the couriers found may be
\* the one with the best score.
Search(w) ==
  LET near == FindNearby(ProcessOf(w), task[w].stage)
  IN /\ task[w].pc = "search"
     /\ \/ \E c \in near : task' = [task EXCEPT ![w].pc = "book", ![w].pick = c]
        \/ /\ near = {} /\ task[w].stage < 3
           /\ task' = [task EXCEPT ![w].stage = @ + 1]
        \/ near = {} /\ task[w].stage = 3 /\ TaskAt(w, "push")
     /\ UNCHANGED <<couriers, unmatched, lock, given, announced, asked, rows, waits, faults>>

BookUncounted(w) ==   \* mutant of Book: the courier is not counted up
  /\ task[w].pc \in {"book", "book forced"}
  /\ given' = [given EXCEPT ![ProcessOf(w)][task[w].pick] = @ + 1]
  /\ announced' = announced \cup {task[w].order}
  /\ Finished(w)
  /\ UNCHANGED <<couriers, unmatched, lock, asked, rows, waits, faults>>

\* The courier is booked and the match made known.
Book(w) ==
  /\ task[w].pc \in {"book", "book forced"}
  /\ IncrementOrders(ProcessOf(w), task[w].pick)
  /\ announced' = announced \cup {task[w].order}
  /\ Finished(w)
  /\ UNCHANGED <<unmatched, lock, asked, rows, waits, faults>>

-----------------------------------------------------------------------------
(* dlq_postgres.go *)

NewRow(o, born, retry) ==
  [id |-> rows + 1, born |-> born, order |-> o, retry |-> retry, cooled |-> FALSE]

\* An order nobody was found for goes to the queue.  A failed insert is logged.
Push(w) ==
  /\ task[w].pc = "push" /\ lock[ProcessOf(w)] = Nobody
  /\ \/ /\ unmatched' = unmatched \cup {NewRow(task[w].order, rows + 1, 0)}
        /\ rows' = rows + 1 /\ UNCHANGED faults
     \/ faults < MaxFaults /\ faults' = faults + 1 /\ UNCHANGED <<unmatched, rows>>
  /\ IF w[2] = Loop THEN TaskAt(w, "repush") ELSE Finished(w)
  /\ UNCHANGED <<couriers, lock, given, announced, asked, waits>>

RepushOnceMore(w) ==   \* mutant of Repush: one retry too many
  LET row == task[w].row
  IN /\ task[w].pc = "repush" /\ lock[ProcessOf(w)] = Nobody
     /\ row.retry < MaxRowRetries
     /\ unmatched' = unmatched \cup {NewRow(row.order, row.born, row.retry + 1)}
     /\ rows' = rows + 1
     /\ Finished(w)
     /\ UNCHANGED <<couriers, lock, given, announced, asked, waits, faults>>

\* The row the loop took goes back with one more retry, until it has had enough.
Repush(w) ==
  LET row == task[w].row
  IN /\ task[w].pc = "repush" /\ lock[ProcessOf(w)] = Nobody
     /\ \/ /\ row.retry + 1 < MaxRowRetries
           /\ unmatched' = unmatched \cup {NewRow(row.order, row.born, row.retry + 1)}
           /\ rows' = rows + 1 /\ UNCHANGED faults
        \/ row.retry + 1 >= MaxRowRetries /\ UNCHANGED <<unmatched, rows, faults>>
        \/ /\ row.retry + 1 < MaxRowRetries /\ faults < MaxFaults
           /\ faults' = faults + 1 /\ UNCHANGED <<unmatched, rows>>
     /\ Finished(w)
     /\ UNCHANGED <<couriers, lock, given, announced, asked, waits>>

\* The ticker of StartRetryLoop.
StartRetry(w) ==
  /\ w[2] = Loop /\ task[w].pc = "idle" /\ TaskAt(w, "pop")
  /\ UNCHANGED <<couriers, unmatched, lock, given, announced, asked, rows, waits, faults>>

Due == {r \in unmatched : r.retry < MaxRowRetries /\ r.cooled}

\* PopNext reads the oldest row that is due ...
PopRead(w) ==
  /\ task[w].pc = "pop" /\ lock[ProcessOf(w)] = Nobody
  /\ \/ Due = {} /\ task' = [task EXCEPT ![w] = Idle] /\ UNCHANGED lock
     \/ \E r \in Due :
          /\ \A s \in Due : r.born < s.born \/ (r.born = s.born /\ r.id <= s.id)
          /\ task' = [task EXCEPT ![w].pc = "delete", ![w].row = r]
          /\ lock' = [lock EXCEPT ![ProcessOf(w)] = w]
  /\ UNCHANGED <<couriers, unmatched, given, announced, asked, rows, waits, faults>>

\* ... and deletes it.  A row another process deleted counts as deleted.
PopDelete(w) ==
  /\ task[w].pc = "delete"
  /\ lock' = [lock EXCEPT ![ProcessOf(w)] = Nobody]
  /\ \/ /\ unmatched' = unmatched \ {r \in unmatched : r.id = task[w].row.id}
        /\ task' = [task EXCEPT ![w].pc = "search", ![w].stage = 1, ![w].order = task[w].row.order]
        /\ UNCHANGED faults
     \/ /\ faults < MaxFaults /\ faults' = faults + 1
        /\ task' = [task EXCEPT ![w] = Idle] /\ UNCHANGED unmatched
  /\ UNCHANGED <<couriers, given, announced, asked, rows, waits>>

-----------------------------------------------------------------------------
\* Half a minute passes: every row in the queue may be tried again.
HalfMinute ==
  /\ waits < MaxWaits /\ \E r \in unmatched : ~r.cooled
  /\ waits' = waits + 1
  /\ unmatched' = {[r EXCEPT !.cooled = TRUE] : r \in unmatched}
  /\ UNCHANGED <<couriers, lock, task, given, announced, asked, rows, faults>>

\* A process is restarted: its couriers and what it was doing are gone.
Restart(p) ==
  /\ faults < MaxFaults /\ faults' = faults + 1
  /\ couriers' = [couriers EXCEPT ![p] = [c \in Couriers |-> Absent]]
  /\ task' = [w \in Workers |-> IF ProcessOf(w) = p THEN Idle ELSE task[w]]
  /\ lock' = [lock EXCEPT ![p] = Nobody]
  /\ UNCHANGED <<unmatched, given, announced, asked, rows, waits>>

Work(w) == \/ ForcedSearch(w) \/ Search(w) \/ Book(w) \/ Push(w) \/ Repush(w)
           \/ PopRead(w) \/ PopDelete(w)

DispatchNext ==
  \/ \E w \in Workers : \/ Work(w) \/ StartRetry(w)
                        \/ \E o \in Orders, force \in BOOLEAN : TriggerDispatch(w, o, force)
  \/ \E p \in Processes :
       \/ \E c \in Couriers, available \in BOOLEAN :
            \/ SetCourierStatus(p, c, available)
            \/ \E ring \in Rings : UpdateLocation(p, c, ring, available)
       \/ \E stale \in (SUBSET Couriers) \ {{}} : CleanupStale(p, stale)
       \/ Restart(p)
  \/ HalfMinute

DispatchSpec == DispatchInit /\ [][DispatchNext]_dispatchVars

-----------------------------------------------------------------------------
\* A courier is over its ceiling by at most the searches that ran beside the
\* last one: two matches at a time do not count one order for two ("o
\* entregador ficava com um pedido a menos na conta (e recebia alem do teto)",
\* courier_location.go:108-110).
CeilingHeld ==
  \A p \in Processes, c \in Couriers :
    Known(p, c) => given[p][c] <= MaxOrders + Cardinality(Handlers)

\* Queue, rows and offers are well formed and no courier carries above the
\* ceiling the engine may go to.
DispatchInv == DispatchTypeOK /\ CeilingHeld

Searching(w) == task[w].pc \notin {"idle", "pop", "delete"}

\* The orders somebody still looks for a courier for: a row, or a search.
Waiting == {r.order : r \in unmatched} \cup {task[w].order : w \in {v \in Workers : Searching(v)}}

Promise == INSTANCE DispatchPromise WITH waiting <- Waiting, answered <- announced

\* An order somebody asked a courier for stays in the queue or in the hands of
\* a search until a courier is found ("Pedido nao casado que some e pedido pago
\* que nunca recebe entregador", dispatch.go:48-53).
NoOrderForgotten == Promise!PromiseSpec

-----------------------------------------------------------------------------
(* What comments of the code say and the model refutes; README names the     *)
(* constants that show it.  No passing run checks these.                      *)

\* The queue holds an order once: a retry that fails goes back with its count
\* ("expired after %d retries", matching_engine.go:396).
QueuedOnce ==
  asked <= 1 => \A r, s \in unmatched : r.order = s.order => r = s

\* Two processes do not retry one row ("SELECT ... FOR UPDATE SKIP LOCKED para
\* concorrencia segura", dlq_postgres.go:76).
RowRetriedOnce ==
  \A v, w \in Workers : v # w /\ task[v].row # NoRow => task[v].row # task[w].row
=============================================================================
