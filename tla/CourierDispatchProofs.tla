------------------------ MODULE CourierDispatchProofs ------------------------
(***************************************************************************)
(* Proofs about the dispatch engine, for any processes, handlers, couriers,  *)
(* orders, batches, administrators and jobs, and whatever fails.             *)
(*                                                                         *)
(* Couriers: dispatch keeps DispatchPromise, so an order somebody asked a    *)
(* courier for is dropped only after a courier was found or because a         *)
(* process or a call failed (PromiseInv); and no courier carries above the    *)
(* ceiling by more than the searches under way (CarriedInv).                 *)
(*                                                                         *)
(* Batches: a trip has one courier and one end (BatchInv, RowMoves).          *)
(*                                                                         *)
(* Zones: the split is the one of the calendar (ZoneInv), which rests on what *)
(* the recursion AfterSteps adds up to; and while no writer has met another,  *)
(* a calibration that is not stale knows the zone's radii (WithinInv), so the *)
(* radius it decides on lies between them.                                   *)
(***************************************************************************)
EXTENDS CourierDispatch, DeliveryBatches, ZoneTuning, FiniteSetTheorems, WellFoundedInduction, TLAPS

AnyRow  == [id : Nat, born : Nat, order : Orders, retry : Nat, cooled : BOOLEAN]
Places  == {"idle", "pop", "delete", "force", "book forced", "search", "book", "push", "repush"}
AnyTask == [pc : Places, order : Orders \cup {Nobody}, row : AnyRow \cup {NoRow},
            stage : Nat, pick : Couriers \cup {Nobody}]

\* An order a loop may drop: found, lost to a fault, or still in the queue or
\* with somebody who has not put it back yet.  Two loops that are putting an
\* order back do not count on each other.
Supported(o) ==
  \/ faults > 0
  \/ o \in announced
  \/ \E r \in unmatched : r.order = o
  \/ \E w \in Workers : Searching(w) /\ task[w].pc # "repush" /\ task[w].order = o

\* Rows are told apart by their ids.
QueueOK == /\ \A r \in unmatched : r \in AnyRow /\ r.id <= rows
           /\ \A r, s \in unmatched : r.id = s.id => r.order = s.order

\* What a worker knows of its order and its row.
TaskOK(w) ==
  LET t == task[w]
  IN /\ Searching(w) => t.order \in Orders
     /\ t.pc = "delete" \/ (w[2] = Loop /\ Searching(w)) => t.row \in AnyRow /\ t.row.id <= rows
     /\ t.pc = "delete" => \A r \in unmatched : r.id = t.row.id => r.order = t.row.order
     /\ w[2] = Loop /\ Searching(w) => t.row.order = t.order
     /\ t.pc = "repush" => w[2] = Loop /\ Supported(t.order)

Counts == rows \in Nat /\ faults \in Nat

PromiseInv == /\ Counts /\ QueueOK /\ task \in [Workers -> AnyTask]
              /\ \A w \in Workers : TaskOK(w)

\* An order is in the queue or in the hands of a search.
Held(o) == \/ \E r \in unmatched : r.order = o
           \/ \E w \in Workers : Searching(w) /\ task[w].order = o

PromiseStep == [Promise!PromiseNext]_(Promise!promiseVars)

-----------------------------------------------------------------------------
(* Steps of the promise, said of single orders.                               *)

LEMMA WaitingIsHeld ==
  /\ \A o : o \in Waiting <=> Held(o)
  /\ \A o : o \in Waiting' <=> Held(o)'
BY DEF Waiting, Held

LEMMA NothingPromised ==
  ASSUME \A o : Held(o)' <=> Held(o), UNCHANGED <<announced, faults>>
  PROVE  PromiseStep
<1>1. Waiting' = Waiting
  BY WaitingIsHeld
<1> QED BY <1>1 DEF PromiseStep, Promise!promiseVars

LEMMA FaultAllowed ==
  ASSUME \A o : Held(o)' => Held(o), UNCHANGED announced, faults' = faults + 1
  PROVE  PromiseStep
<1>1. Waiting' \subseteq Waiting
  BY WaitingIsHeld
<1> QED BY <1>1 DEF PromiseStep, Promise!PromiseNext, Promise!Fault

LEMMA AskAllowed ==
  ASSUME NEW o \in Orders, \A u : Held(u)' <=> Held(u) \/ u = o, UNCHANGED <<announced, faults>>
  PROVE  PromiseStep
<1>1. Waiting' = Waiting \cup {o}
  BY WaitingIsHeld
<1> QED BY <1>1 DEF PromiseStep, Promise!PromiseNext, Promise!Ask

LEMMA FoundAllowed ==
  ASSUME NEW o \in Orders, Held(o), \A u : Held(u)' => Held(u), \A u : u # o /\ Held(u) => Held(u)',
         announced' = announced \cup {o}, UNCHANGED faults
  PROVE  PromiseStep
<1>1. o \in Waiting /\ Waiting' \in {Waiting, Waiting \ {o}}
  <2>1. CASE Held(o)'
    <3>1. Waiting' = Waiting
      BY <2>1, WaitingIsHeld
    <3> QED BY <3>1, WaitingIsHeld
  <2>2. CASE ~Held(o)'
    <3>1. Waiting' = Waiting \ {o}
      BY <2>2, WaitingIsHeld
    <3> QED BY <3>1, WaitingIsHeld
  <2> QED BY <2>1, <2>2
<1> QED BY <1>1 DEF PromiseStep, Promise!PromiseNext, Promise!Found

LEMMA DropAllowed ==
  ASSUME NEW o \in Orders, Held(o), \A u : Held(u)' => Held(u), \A u : u # o /\ Held(u) => Held(u)',
         UNCHANGED <<announced, faults>>, faults > 0 \/ o \in announced \/ Held(o)'
  PROVE  PromiseStep
<1>1. CASE Held(o)'
  BY <1>1, NothingPromised
<1>2. CASE ~Held(o)'
  <2>1. Waiting' = Waiting \ {o} /\ o \in Waiting
    BY <1>2, WaitingIsHeld
  <2>2. CASE faults > 0
    BY <2>1, <2>2 DEF PromiseStep, Promise!PromiseNext, Promise!Forget
  <2>3. CASE o \in announced
    BY <2>1, <2>3 DEF PromiseStep, Promise!PromiseNext, Promise!Settle
  <2> QED BY <1>2, <2>2, <2>3
<1> QED BY <1>1, <1>2

-----------------------------------------------------------------------------
(* What one worker's step does to the tasks.                                  *)

LEMMA MovesTo ==
  ASSUME PromiseInv, NEW w \in Workers, NEW pc \in Places, TaskAt(w, pc)
  PROVE  /\ task'[w].pc = pc /\ task'[w].order = task[w].order /\ task'[w].row = task[w].row
         /\ \A v \in Workers : v # w => task'[v] = task[v]
         /\ task' \in [Workers -> AnyTask]
<1> DEFINE t == [task[w] EXCEPT !.pc = pc]
<1>1. task[w] \in AnyTask
  BY DEF PromiseInv
<1>2. t \in AnyTask /\ t.pc = pc /\ t.order = task[w].order /\ t.row = task[w].row
  BY <1>1 DEF AnyTask
<1>3. task' = [task EXCEPT ![w] = t]
  BY DEF TaskAt, PromiseInv
<1> HIDE DEF t
<1> QED BY <1>2, <1>3 DEF PromiseInv

LEMMA IdleTask ==
  /\ Idle \in AnyTask /\ Idle.pc = "idle"
  /\ \A w : AfterMatch(w) \in AnyTask /\ AfterMatch(w).pc \in {"idle", "pop"}
<1>1. Idle \in AnyTask /\ Idle.pc = "idle"
  BY DEF Idle, AnyTask, Places
<1>2. [Idle EXCEPT !.pc = "pop"] \in AnyTask /\ [Idle EXCEPT !.pc = "pop"].pc = "pop"
  BY DEF Idle, AnyTask, Places
<1> QED BY <1>1, <1>2 DEF AfterMatch

LEMMA Finishes ==
  ASSUME PromiseInv, NEW w \in Workers, Finished(w) \/ task' = [task EXCEPT ![w] = Idle]
  PROVE  /\ task'[w].pc \in {"idle", "pop"}
         /\ \A v \in Workers : v # w => task'[v] = task[v]
         /\ task' \in [Workers -> AnyTask]
BY IdleTask DEF Finished, PromiseInv

\* A step of one worker: what is left to show is the queue, its own task and
\* that no order loses its support.
LEMMA OneWorker ==
  ASSUME PromiseInv, NEW w \in Workers,
         task' \in [Workers -> AnyTask], \A v \in Workers : v # w => task'[v] = task[v],
         Counts', rows' >= rows, QueueOK', TaskOK(w)',
         \A r \in unmatched' : r \in unmatched \/ r.id > rows,
         \A o : Supported(o) => Supported(o)'
  PROVE  PromiseInv'
<1>1. ASSUME NEW v \in Workers, v # w PROVE TaskOK(v)'
  <2>1. task'[v] = task[v] /\ TaskOK(v) /\ Searching(v)' = Searching(v)
    BY <1>1 DEF PromiseInv, Searching
  <2>2. task[v].row \in AnyRow /\ task[v].row.id <= rows =>
          /\ task[v].row.id <= rows'
          /\ \A r \in unmatched' : r.id = task[v].row.id => r \in unmatched
    <3>1. rows \in Nat /\ rows' \in Nat
      BY DEF PromiseInv, Counts
    <3>2. \A r \in unmatched' : r.id \in Nat
      BY DEF QueueOK, AnyRow
    <3> QED BY <3>1, <3>2 DEF AnyRow
  <2> QED BY <2>1, <2>2 DEF TaskOK
<1> QED BY <1>1 DEF PromiseInv

-----------------------------------------------------------------------------
(* The steps.                                                                 *)

LEMMA CouriersMove ==
  ASSUME PromiseInv, UNCHANGED <<unmatched, task, announced, rows, faults>>
  PROVE  PromiseInv' /\ PromiseStep
<1>1. \A o : Held(o)' <=> Held(o)
  BY DEF Held, Searching
<1>2. \A o : Supported(o)' <=> Supported(o)
  BY DEF Supported, Searching
<1>3. PromiseInv'
  BY <1>2 DEF PromiseInv, Counts, QueueOK, TaskOK, Searching
<1> QED BY <1>1, <1>3, NothingPromised

\* A search goes on with its order, and does not reach the second push.
LEMMA SearchGoesOn ==
  ASSUME PromiseInv, NEW w \in Workers, Searching(w), Searching(w)', task'[w].pc # "repush",
         task[w].pc # "repush",
         task'[w].order = task[w].order, task'[w].row = task[w].row,
         task' \in [Workers -> AnyTask], \A v \in Workers : v # w => task'[v] = task[v],
         UNCHANGED <<unmatched, announced, rows, faults>>
  PROVE  PromiseInv' /\ PromiseStep
<1>1. \A v \in Workers :
        /\ Searching(v)' <=> Searching(v)
        /\ task'[v].order = task[v].order
        /\ task'[v].pc = "repush" <=> task[v].pc = "repush"
  BY DEF Searching
<1>2. ASSUME NEW o PROVE (Held(o)' <=> Held(o)) /\ (Supported(o)' <=> Supported(o))
  <2>1. (\E v \in Workers : Searching(v)' /\ task'[v].order = o)
          <=> \E v \in Workers : Searching(v) /\ task[v].order = o
    BY <1>1
  <2>2. (\E v \in Workers : Searching(v)' /\ task'[v].pc # "repush" /\ task'[v].order = o)
          <=> \E v \in Workers : Searching(v) /\ task[v].pc # "repush" /\ task[v].order = o
    BY <1>1
  <2> QED BY <2>1, <2>2 DEF Held, Supported
<1>3. TaskOK(w) /\ Counts /\ QueueOK
  BY DEF PromiseInv
<1>4. TaskOK(w)' /\ Counts' /\ QueueOK'
  BY <1>3 DEF TaskOK, Counts, QueueOK, Searching
<1>5. rows' >= rows
  BY <1>3 DEF Counts
<1>6. PromiseInv'
  BY <1>2, <1>4, <1>5, OneWorker
<1> QED BY <1>2, <1>6, NothingPromised

LEMMA ForcedSearchKeeps ==
  ASSUME PromiseInv, NEW w \in Workers, ForcedSearch(w)
  PROVE  PromiseInv' /\ PromiseStep
<1>1. task[w].pc = "force" /\ task[w] \in AnyTask /\ UNCHANGED <<unmatched, announced, rows, faults>>
  BY DEF ForcedSearch, PromiseInv
<1>2. CASE TaskAt(w, "search")
  BY <1>1, <1>2, MovesTo, SearchGoesOn DEF Searching, Places
<1>3. CASE \E c \in Couriers : task' = [task EXCEPT ![w].pc = "book forced", ![w].pick = c]
  <2>1. PICK c \in Couriers : task' = [task EXCEPT ![w].pc = "book forced", ![w].pick = c]
    BY <1>3
  <2> DEFINE t == [task[w] EXCEPT !.pc = "book forced", !.pick = c]
  <2>2. t \in AnyTask /\ t.pc = "book forced" /\ t.order = task[w].order /\ t.row = task[w].row
    BY <1>1 DEF AnyTask, Places
  <2>3. task' = [task EXCEPT ![w] = t]
    BY <2>1 DEF PromiseInv
  <2> HIDE DEF t
  <2>4. /\ task'[w] = t /\ task' \in [Workers -> AnyTask]
        /\ \A v \in Workers : v # w => task'[v] = task[v]
    BY <2>2, <2>3 DEF PromiseInv
  <2> QED BY <1>1, <2>2, <2>4, SearchGoesOn DEF Searching
<1> QED BY <1>2, <1>3 DEF ForcedSearch, FindNearby

LEMMA SearchKeeps ==
  ASSUME PromiseInv, NEW w \in Workers, Search(w)
  PROVE  PromiseInv' /\ PromiseStep
<1>1. task[w].pc = "search" /\ task[w] \in AnyTask /\ UNCHANGED <<unmatched, announced, rows, faults>>
  BY DEF Search, PromiseInv
<1>2. CASE TaskAt(w, "push")
  BY <1>1, <1>2, MovesTo, SearchGoesOn DEF Searching, Places
<1>3. ASSUME NEW t \in AnyTask, task' = [task EXCEPT ![w] = t], t.pc \in {"search", "book"},
             t.order = task[w].order, t.row = task[w].row
      PROVE  PromiseInv' /\ PromiseStep
  <2>1. /\ task'[w] = t /\ task' \in [Workers -> AnyTask]
        /\ \A v \in Workers : v # w => task'[v] = task[v]
    BY <1>3 DEF PromiseInv
  <2> QED BY <1>1, <1>3, <2>1, SearchGoesOn DEF Searching
<1>4. CASE \E c \in Couriers : task' = [task EXCEPT ![w].pc = "book", ![w].pick = c]
  <2>1. PICK c \in Couriers : task' = [task EXCEPT ![w].pc = "book", ![w].pick = c]
    BY <1>4
  <2> DEFINE t == [task[w] EXCEPT !.pc = "book", !.pick = c]
  <2>2. t \in AnyTask /\ t.pc = "book" /\ t.order = task[w].order /\ t.row = task[w].row
    BY <1>1 DEF AnyTask, Places
  <2>3. task' = [task EXCEPT ![w] = t]
    BY <2>1 DEF PromiseInv
  <2> HIDE DEF t
  <2> QED BY <1>3, <2>2, <2>3
<1>5. CASE task' = [task EXCEPT ![w].stage = @ + 1]
  <2> DEFINE t == [task[w] EXCEPT !.stage = @ + 1]
  <2>1. task[w].stage + 1 \in Nat
    BY <1>1 DEF AnyTask
  <2>2. t \in AnyTask /\ t.pc = "search" /\ t.order = task[w].order /\ t.row = task[w].row
    BY <1>1, <2>1 DEF AnyTask, Places
  <2>3. task' = [task EXCEPT ![w] = t]
    BY <1>5 DEF PromiseInv
  <2> HIDE DEF t
  <2> QED BY <1>3, <2>2, <2>3
<1> QED BY <1>2, <1>4, <1>5 DEF Search, FindNearby

QueuedFor(o)     == \E r \in unmatched : r.order = o
HeldBy(w, o)     == Searching(w) /\ task[w].order = o
HeldBeside(w, o) == \E v \in Workers : v # w /\ HeldBy(v, o)

\* What a step of w leaves of the orders the others hold, and of the rows.
LEMMA HeldAfter ==
  ASSUME NEW w \in Workers, \A v \in Workers : v # w => task'[v] = task[v], NEW o
  PROVE  /\ Held(o)' <=> QueuedFor(o)' \/ HeldBeside(w, o) \/ HeldBy(w, o)'
         /\ Held(o) <=> QueuedFor(o) \/ HeldBeside(w, o) \/ HeldBy(w, o)
BY DEF Held, Searching, QueuedFor, HeldBeside, HeldBy

LEMMA SupportedAfter ==
  ASSUME NEW w \in Workers, \A v \in Workers : v # w => task'[v] = task[v], NEW o, Supported(o),
         faults > 0 => faults' > 0, announced \subseteq announced',
         \A r \in unmatched : \E q \in unmatched' : q.order = r.order,
         Searching(w) /\ task[w].pc # "repush" /\ task[w].order = o =>
           \/ Searching(w)' /\ task'[w].pc # "repush" /\ task'[w].order = o
           \/ faults' > 0 \/ o \in announced' \/ \E r \in unmatched' : r.order = o
  PROVE  Supported(o)'
BY DEF Supported, Searching

LEMMA BookKeeps ==
  ASSUME PromiseInv, NEW w \in Workers, Book(w)
  PROVE  PromiseInv' /\ PromiseStep
<1>1. /\ task[w].pc \in {"book", "book forced"} /\ Searching(w)
      /\ UNCHANGED <<unmatched, rows, faults>> /\ announced' = announced \cup {task[w].order}
      /\ Finished(w) /\ Counts /\ QueueOK /\ TaskOK(w)
  BY DEF Book, PromiseInv, Searching
<1>2. /\ task'[w].pc \in {"idle", "pop"} /\ task' \in [Workers -> AnyTask] /\ ~Searching(w)'
      /\ \A v \in Workers : v # w => task'[v] = task[v]
  BY <1>1, Finishes DEF Searching
<1>3. PICK o \in Orders : o = task[w].order
  BY <1>1 DEF TaskOK
<1>4. PromiseInv'
  <2>1. \A u : Supported(u) => Supported(u)'
    BY <1>1, <1>2, SupportedAfter
  <2>2. TaskOK(w)'
    BY <1>2 DEF TaskOK
  <2>3. Counts' /\ QueueOK' /\ rows' >= rows
    <3>1. UNCHANGED <<unmatched, rows, faults>> /\ Counts /\ QueueOK
      BY <1>1
    <3>2. Counts' /\ rows' >= rows
      BY <3>1 DEF Counts
    <3>3. QueueOK'
      BY <3>1 DEF QueueOK
    <3> QED BY <3>2, <3>3
  <2> QED BY <1>1, <1>2, <2>1, <2>2, <2>3, OneWorker
<1>5. PromiseStep
  <2>1. Held(o) /\ \A u : (Held(u)' => Held(u)) /\ (u # o /\ Held(u) => Held(u)')
    <3>1. ASSUME NEW u
          PROVE  /\ QueuedFor(u)' <=> QueuedFor(u)
                 /\ HeldBy(w, u) <=> u = o
                 /\ ~HeldBy(w, u)'
      BY <1>1, <1>2, <1>3 DEF QueuedFor, HeldBy
    <3> QED BY <1>2, <3>1, HeldAfter
  <2> QED BY <1>1, <1>3, <2>1, FoundAllowed
<1> QED BY <1>4, <1>5

\* A worker that holds no order goes on without one.
LEMMA HandsFree ==
  ASSUME PromiseInv, NEW w \in Workers, ~Searching(w), ~Searching(w)',
         task' \in [Workers -> AnyTask], \A v \in Workers : v # w => task'[v] = task[v],
         TaskOK(w)', UNCHANGED <<unmatched, announced, rows>>, faults' \in {faults, faults + 1}
  PROVE  PromiseInv' /\ PromiseStep
<1>1. Counts /\ QueueOK
  BY DEF PromiseInv
<1>2. Counts' /\ QueueOK' /\ rows' >= rows /\ (faults > 0 => faults' > 0)
  BY <1>1 DEF Counts, QueueOK
<1>3. \A o : Supported(o) => Supported(o)'
  BY <1>2, SupportedAfter
<1>4. PromiseInv'
  BY <1>2, <1>3, OneWorker
<1>5. ASSUME NEW o PROVE Held(o)' <=> Held(o)
  <2>1. (QueuedFor(o)' <=> QueuedFor(o)) /\ ~HeldBy(w, o) /\ ~HeldBy(w, o)'
    BY DEF QueuedFor, HeldBy
  <2> QED BY <2>1, HeldAfter
<1>6. PromiseStep
  BY <1>5, NothingPromised, FaultAllowed
<1> QED BY <1>4, <1>6

LEMMA StartRetryKeeps ==
  ASSUME PromiseInv, NEW w \in Workers, StartRetry(w)
  PROVE  PromiseInv' /\ PromiseStep
<1>1. task[w].pc = "idle" /\ UNCHANGED <<unmatched, announced, rows, faults>> /\ TaskAt(w, "pop")
  BY DEF StartRetry
<1>2. /\ task'[w].pc = "pop" /\ task' \in [Workers -> AnyTask]
      /\ \A v \in Workers : v # w => task'[v] = task[v]
  BY <1>1, MovesTo DEF Places
<1>3. ~Searching(w) /\ ~Searching(w)' /\ TaskOK(w)'
  BY <1>1, <1>2 DEF Searching, TaskOK
<1> QED BY <1>1, <1>2, <1>3, HandsFree

LEMMA PopReadKeeps ==
  ASSUME PromiseInv, NEW w \in Workers, PopRead(w)
  PROVE  PromiseInv' /\ PromiseStep
<1>1. /\ task[w].pc = "pop" /\ ~Searching(w) /\ UNCHANGED <<unmatched, announced, rows, faults>>
      /\ task[w] \in AnyTask /\ QueueOK
  BY DEF PopRead, Searching, PromiseInv
<1>2. CASE task' = [task EXCEPT ![w] = Idle]
  <2>1. ~Searching(w)' /\ TaskOK(w)'
    BY <1>2, Finishes DEF Searching, TaskOK
  <2> QED BY <1>1, <1>2, <2>1, Finishes, HandsFree
<1>3. CASE \E r \in Due : task' = [task EXCEPT ![w].pc = "delete", ![w].row = r]
  <2>1. PICK r \in unmatched : task' = [task EXCEPT ![w].pc = "delete", ![w].row = r]
    BY <1>3 DEF Due
  <2> DEFINE t == [task[w] EXCEPT !.pc = "delete", !.row = r]
  <2>2. r \in AnyRow /\ r.id <= rows /\ \A q \in unmatched : q.id = r.id => q.order = r.order
    BY <1>1 DEF QueueOK
  <2>3. t \in AnyTask /\ t.pc = "delete" /\ t.row = r
    BY <1>1, <2>2 DEF AnyTask, Places
  <2>4. task' = [task EXCEPT ![w] = t]
    BY <2>1 DEF PromiseInv
  <2> HIDE DEF t
  <2>5. /\ task'[w].pc = "delete" /\ task'[w].row = r /\ task' \in [Workers -> AnyTask]
        /\ \A v \in Workers : v # w => task'[v] = task[v]
    BY <2>3, <2>4 DEF PromiseInv
  <2>6. ~Searching(w)' /\ TaskOK(w)'
    BY <1>1, <2>2, <2>5 DEF Searching, TaskOK
  <2> QED BY <1>1, <2>5, <2>6, HandsFree
<1> QED BY <1>2, <1>3 DEF PopRead

LEMMA TriggerKeeps ==
  ASSUME PromiseInv, NEW w \in Workers, NEW o \in Orders, NEW force \in BOOLEAN,
         TriggerDispatch(w, o, force)
  PROVE  PromiseInv' /\ PromiseStep
<1> DEFINE t == [Idle EXCEPT !.order = o, !.stage = 1, !.pc = IF force THEN "force" ELSE "search"]
<1>1. /\ task[w].pc = "idle" /\ w[2] # Loop /\ UNCHANGED <<unmatched, announced, rows, faults>>
      /\ task' = [task EXCEPT ![w] = t]
  BY DEF TriggerDispatch
<1>2. t \in AnyTask /\ t.pc \in {"force", "search"} /\ t.order = o
  BY DEF Idle, AnyTask, Places
<1> HIDE DEF t
<1>3. /\ task'[w] = t /\ task' \in [Workers -> AnyTask]
      /\ \A v \in Workers : v # w => task'[v] = task[v]
  BY <1>1, <1>2 DEF PromiseInv
<1>4. ~Searching(w) /\ Searching(w)' /\ TaskOK(w)'
  BY <1>1, <1>2, <1>3 DEF Searching, TaskOK
<1>5. PromiseInv'
  <2>1. Counts /\ QueueOK
    BY DEF PromiseInv
  <2>2. Counts' /\ rows' >= rows /\ QueueOK'
    BY <1>1, <2>1 DEF Counts, QueueOK
  <2>3. \A u : Supported(u) => Supported(u)'
    BY <1>1, <1>3, <1>4, SupportedAfter
  <2> QED BY <1>1, <1>3, <1>4, <2>2, <2>3, OneWorker
<1>6. ASSUME NEW u PROVE Held(u)' <=> Held(u) \/ u = o
  <2>1. (QueuedFor(u)' <=> QueuedFor(u)) /\ ~HeldBy(w, u) /\ (HeldBy(w, u)' <=> u = o)
    BY <1>1, <1>2, <1>3, <1>4 DEF QueuedFor, HeldBy
  <2> QED BY <1>3, <2>1, HeldAfter
<1>7. PromiseStep
  BY <1>1, <1>6, AskAllowed
<1> QED BY <1>5, <1>7

\* A new row is told apart from every row there is and every row a worker holds.
LEMMA NewRowKeeps ==
  ASSUME Counts, QueueOK, NEW o \in Orders, NEW born \in Nat, NEW retry \in Nat,
         unmatched' = unmatched \cup {NewRow(o, born, retry)}, rows' = rows + 1
  PROVE  /\ QueueOK' /\ rows' \in Nat /\ rows' >= rows
         /\ \A r \in unmatched' : r \in unmatched \/ r.id > rows
         /\ \A u : QueuedFor(u)' <=> QueuedFor(u) \/ u = o
         /\ \A r \in unmatched : \E q \in unmatched' : q.order = r.order
<1> DEFINE n == NewRow(o, born, retry)
<1>1. rows \in Nat /\ rows + 1 \in Nat
  BY DEF Counts
<1>2. n \in AnyRow /\ n.id = rows + 1 /\ n.order = o
  BY <1>1 DEF NewRow, AnyRow
<1> HIDE DEF n
<1>3. unmatched' = unmatched \cup {n}
  BY DEF n
<1>4. \A r \in unmatched : r \in AnyRow /\ r.id \in Nat /\ r.id <= rows
  BY DEF QueueOK, AnyRow
<1>5. QueueOK'
  <2>1. \A r \in unmatched' : r \in AnyRow /\ r.id <= rows'
    BY <1>1, <1>2, <1>3, <1>4
  <2>2. \A r, s \in unmatched' : r.id = s.id => r.order = s.order
    BY <1>1, <1>2, <1>3, <1>4 DEF QueueOK
  <2> QED BY <2>1, <2>2 DEF QueueOK
<1>6. \A r \in unmatched' : r \in unmatched \/ r.id > rows
  BY <1>1, <1>2, <1>3
<1>7. \A u : QueuedFor(u)' <=> QueuedFor(u) \/ u = o
  BY <1>2, <1>3 DEF QueuedFor
<1> QED BY <1>1, <1>3, <1>5, <1>6, <1>7

LEMMA PushKeeps ==
  ASSUME PromiseInv, NEW w \in Workers, Push(w)
  PROVE  PromiseInv' /\ PromiseStep
<1>1. /\ task[w].pc = "push" /\ Searching(w) /\ UNCHANGED announced
      /\ Counts /\ QueueOK /\ TaskOK(w)
  BY DEF Push, PromiseInv, Searching
<1>2. PICK o \in Orders : o = task[w].order
  BY <1>1 DEF TaskOK
<1>3. /\ task' \in [Workers -> AnyTask] /\ \A v \in Workers : v # w => task'[v] = task[v]
      /\ \/ /\ w[2] = Loop /\ task'[w].pc = "repush" /\ task'[w].order = task[w].order
            /\ task'[w].row = task[w].row
         \/ w[2] # Loop /\ task'[w].pc \in {"idle", "pop"}
  <2>1. CASE w[2] = Loop /\ TaskAt(w, "repush")
    BY <2>1, MovesTo DEF Places
  <2>2. CASE w[2] # Loop /\ Finished(w)
    BY <2>2, Finishes
  <2> QED BY <2>1, <2>2 DEF Push
<1>4. \A u : HeldBy(w, u) <=> u = o
  BY <1>1, <1>2 DEF HeldBy
<1>5. \A u : HeldBy(w, u)' => u = o
  BY <1>2, <1>3 DEF HeldBy, Searching
<1>6. CASE unmatched' = unmatched \cup {NewRow(o, rows + 1, 0)} /\ rows' = rows + 1 /\ UNCHANGED faults
  <2>1. /\ QueueOK' /\ rows' \in Nat /\ rows' >= rows
        /\ \A r \in unmatched' : r \in unmatched \/ r.id > rows
        /\ \A u : QueuedFor(u)' <=> QueuedFor(u) \/ u = o
        /\ \A r \in unmatched : \E q \in unmatched' : q.order = r.order
    <3>1. rows + 1 \in Nat /\ 0 \in Nat
      BY <1>1 DEF Counts
    <3> QED BY <1>1, <1>2, <1>6, <3>1, NewRowKeeps
  <2>2. \E r \in unmatched' : r.order = o
    BY <2>1 DEF QueuedFor
  <2>3. Counts'
    BY <1>1, <1>6, <2>1 DEF Counts
  <2>4. \A u : Supported(u) => Supported(u)'
    BY <1>1, <1>2, <1>3, <1>6, <2>1, <2>2, SupportedAfter
  <2>5. Supported(o)'
    BY <2>2 DEF Supported
  <2>6. TaskOK(w)'
    BY <1>1, <1>2, <1>3, <2>1, <2>5, <1>6 DEF TaskOK, Searching, Counts, AnyRow
  <2>7. PromiseInv'
    BY <1>3, <2>1, <2>3, <2>4, <2>6, OneWorker
  <2>8. ASSUME NEW u PROVE Held(u)' <=> Held(u)
    BY <1>3, <1>4, <1>5, <2>1, HeldAfter
  <2> QED BY <1>1, <1>6, <2>7, <2>8, NothingPromised
<1>7. CASE faults' = faults + 1 /\ UNCHANGED <<unmatched, rows>>
  <2>1. Counts' /\ rows' >= rows /\ faults' > 0
    BY <1>1, <1>7 DEF Counts
  <2>2. QueueOK'
    BY <1>1, <1>7 DEF QueueOK
  <2>3. \A u : Supported(u)'
    BY <2>1 DEF Supported
  <2>4. TaskOK(w)'
    BY <1>1, <1>3, <1>7, <2>3 DEF TaskOK, Searching
  <2>5. PromiseInv'
    BY <1>3, <1>7, <2>1, <2>2, <2>3, <2>4, OneWorker
  <2>6. ASSUME NEW u PROVE Held(u)' => Held(u)
    <3>1. QueuedFor(u)' <=> QueuedFor(u)
      BY <1>7 DEF QueuedFor
    <3> QED BY <1>3, <1>4, <1>5, <3>1, HeldAfter
  <2> QED BY <1>1, <1>7, <2>5, <2>6, FaultAllowed
<1> QED BY <1>2, <1>6, <1>7 DEF Push

LEMMA RepushKeeps ==
  ASSUME PromiseInv, NEW w \in Workers, Repush(w)
  PROVE  PromiseInv' /\ PromiseStep
<1> DEFINE row == task[w].row
<1>1. /\ task[w].pc = "repush" /\ Searching(w) /\ UNCHANGED announced /\ Finished(w)
      /\ Counts /\ QueueOK /\ TaskOK(w)
  BY DEF Repush, PromiseInv, Searching
<1>2. PICK o \in Orders : o = task[w].order
  BY <1>1 DEF TaskOK
<1>3. /\ task' \in [Workers -> AnyTask] /\ \A v \in Workers : v # w => task'[v] = task[v]
      /\ task'[w].pc \in {"idle", "pop"}
  BY <1>1, Finishes
<1>4. TaskOK(w)'
  BY <1>3 DEF TaskOK, Searching
<1>5. \A u : (HeldBy(w, u) <=> u = o) /\ ~HeldBy(w, u)'
  BY <1>1, <1>2, <1>3 DEF HeldBy, Searching
<1>6. row \in AnyRow /\ row.order = o /\ Supported(o)
  BY <1>1, <1>2 DEF TaskOK
<1>7. CASE /\ unmatched' = unmatched \cup {NewRow(row.order, row.born, row.retry + 1)}
           /\ rows' = rows + 1 /\ UNCHANGED faults
  <2>0. row.born \in Nat /\ row.retry + 1 \in Nat
    BY <1>6 DEF AnyRow
  <2> HIDE DEF row
  <2>1. /\ QueueOK' /\ rows' \in Nat /\ rows' >= rows
        /\ \A r \in unmatched' : r \in unmatched \/ r.id > rows
        /\ \A u : QueuedFor(u)' <=> QueuedFor(u) \/ u = o
        /\ \A r \in unmatched : \E q \in unmatched' : q.order = r.order
    BY <1>1, <1>2, <1>6, <1>7, <2>0, NewRowKeeps
  <2>2. Counts'
    BY <1>1, <1>7, <2>1 DEF Counts
  <2>3. \A u : Supported(u) => Supported(u)'
    BY <1>1, <1>3, <1>7, <2>1, SupportedAfter
  <2>4. PromiseInv'
    BY <1>3, <1>4, <2>1, <2>2, <2>3, OneWorker
  <2>5. ASSUME NEW u PROVE Held(u)' <=> Held(u)
    BY <1>3, <1>5, <2>1, HeldAfter
  <2> QED BY <1>1, <1>7, <2>4, <2>5, NothingPromised
<1>8. CASE UNCHANGED <<unmatched, rows>> /\ faults' \in {faults, faults + 1}
  <2>1. Counts' /\ rows' >= rows /\ (faults > 0 => faults' > 0)
    BY <1>1, <1>8 DEF Counts
  <2>2. QueueOK'
    BY <1>1, <1>8 DEF QueueOK
  <2>3. \A u : Supported(u) => Supported(u)'
    BY <1>1, <1>3, <1>8, <2>1, SupportedAfter
  <2>4. PromiseInv'
    BY <1>3, <1>4, <1>8, <2>1, <2>2, <2>3, OneWorker
  <2>5. ASSUME NEW u
        PROVE  /\ Held(u)' <=> QueuedFor(u) \/ HeldBeside(w, u)
               /\ Held(u) <=> QueuedFor(u) \/ HeldBeside(w, u) \/ u = o
    <3>1. QueuedFor(u)' <=> QueuedFor(u)
      BY <1>8 DEF QueuedFor
    <3> QED BY <1>3, <1>5, <3>1, HeldAfter
  <2>6. faults > 0 \/ o \in announced \/ Held(o)'
    <3>1. (\E v \in Workers : Searching(v) /\ task[v].pc # "repush" /\ task[v].order = o)
            => HeldBeside(w, o)
      BY <1>1 DEF HeldBeside, HeldBy
    <3> QED BY <1>6, <2>5, <3>1 DEF Supported, QueuedFor
  <2>7. PromiseStep
    <3>1. CASE faults' = faults
      BY <1>1, <1>2, <2>5, <2>6, <3>1, DropAllowed
    <3>2. CASE faults' = faults + 1
      BY <1>1, <2>5, <3>2, FaultAllowed
    <3> QED BY <1>8, <3>1, <3>2
  <2> QED BY <2>4, <2>7
<1> QED BY <1>7, <1>8 DEF Repush

LEMMA PopDeleteKeeps ==
  ASSUME PromiseInv, NEW w \in Workers, PopDelete(w)
  PROVE  PromiseInv' /\ PromiseStep
<1> DEFINE row == task[w].row
<1>1. /\ task[w].pc = "delete" /\ ~Searching(w) /\ UNCHANGED <<announced, rows>>
      /\ task[w] \in AnyTask /\ Counts /\ QueueOK /\ TaskOK(w)
  BY DEF PopDelete, PromiseInv, Searching
<1>2. /\ row \in AnyRow /\ row.id <= rows
      /\ \A r \in unmatched : r.id = row.id => r.order = row.order
  BY <1>1 DEF TaskOK
<1>3. CASE /\ unmatched' = unmatched \ {r \in unmatched : r.id = row.id} /\ UNCHANGED faults
           /\ task' = [task EXCEPT ![w].pc = "search", ![w].stage = 1, ![w].order = row.order]
  <2> DEFINE t == [task[w] EXCEPT !.pc = "search", !.stage = 1, !.order = row.order]
  <2>1. PICK o \in Orders : o = row.order
    BY <1>2 DEF AnyRow
  <2>2. t \in AnyTask /\ t.pc = "search" /\ t.order = o /\ t.row = row
    BY <1>1, <2>1 DEF AnyTask, Places
  <2>3. task' = [task EXCEPT ![w] = t]
    BY <1>3 DEF PromiseInv
  <2> HIDE DEF t, row
  <2>4. /\ task'[w].pc = "search" /\ task'[w].order = o /\ task'[w].row = row
        /\ task' \in [Workers -> AnyTask] /\ \A v \in Workers : v # w => task'[v] = task[v]
    BY <2>2, <2>3 DEF PromiseInv
  <2>5. Searching(w)' /\ TaskOK(w)'
    BY <1>1, <1>2, <2>1, <2>4 DEF Searching, TaskOK
  <2>6. /\ unmatched' \subseteq unmatched
        /\ \A r \in unmatched : r \in unmatched' \/ r.order = o
    BY <1>2, <1>3, <2>1
  <2>7. ASSUME NEW u PROVE Held(u)' <=> Held(u) \/ u = o
    <3>1. /\ QueuedFor(u)' => QueuedFor(u)
          /\ QueuedFor(u) => QueuedFor(u)' \/ u = o
          /\ ~HeldBy(w, u) /\ (HeldBy(w, u)' <=> u = o)
      BY <1>1, <2>4, <2>5, <2>6 DEF QueuedFor, HeldBy
    <3> QED BY <2>4, <3>1, HeldAfter
  <2>8. ASSUME NEW u, Supported(u) PROVE Supported(u)'
    <3>1. CASE u = o
      BY <2>4, <2>5, <3>1 DEF Supported
    <3>2. CASE u # o
      BY <1>1, <1>3, <2>4, <2>6, <2>8, <3>2 DEF Supported, Searching
    <3> QED BY <3>1, <3>2
  <2>9. Counts' /\ rows' >= rows /\ QueueOK'
    BY <1>1, <1>3, <2>6 DEF Counts, QueueOK
  <2>10. PromiseInv'
    BY <2>4, <2>5, <2>6, <2>8, <2>9, OneWorker
  <2> QED BY <1>1, <1>3, <2>1, <2>7, <2>10, AskAllowed
<1>4. CASE faults' = faults + 1 /\ task' = [task EXCEPT ![w] = Idle] /\ UNCHANGED unmatched
  <2>1. ~Searching(w)' /\ TaskOK(w)'
    BY <1>4, Finishes DEF Searching, TaskOK
  <2> QED BY <1>1, <1>4, <2>1, Finishes, HandsFree
<1> QED BY <1>3, <1>4 DEF PopDelete

LEMMA HalfMinuteKeeps ==
  ASSUME PromiseInv, HalfMinute
  PROVE  PromiseInv' /\ PromiseStep
<1>1. /\ unmatched' = {[r EXCEPT !.cooled = TRUE] : r \in unmatched}
      /\ UNCHANGED <<task, announced, rows, faults>> /\ Counts /\ QueueOK
      /\ task \in [Workers -> AnyTask] /\ \A w \in Workers : TaskOK(w)
  BY DEF HalfMinute, PromiseInv
<1>2. ASSUME NEW r \in unmatched
      PROVE  /\ [r EXCEPT !.cooled = TRUE] \in AnyRow
             /\ [r EXCEPT !.cooled = TRUE].id = r.id /\ [r EXCEPT !.cooled = TRUE].order = r.order
  <2>1. r \in AnyRow
    BY <1>1 DEF QueueOK
  <2> QED BY <2>1 DEF AnyRow
<1>3. /\ \A r \in unmatched : \E q \in unmatched' : q.id = r.id /\ q.order = r.order
      /\ \A q \in unmatched' : q \in AnyRow /\ \E r \in unmatched : q.id = r.id /\ q.order = r.order
  BY <1>1, <1>2
<1>4. ASSUME NEW o PROVE (Held(o)' <=> Held(o)) /\ (Supported(o)' <=> Supported(o))
  <2>1. (\E r \in unmatched' : r.order = o) <=> \E r \in unmatched : r.order = o
    BY <1>3
  <2> QED BY <1>1, <2>1 DEF Held, Supported, Searching
<1>5. QueueOK'
  BY <1>1, <1>3 DEF QueueOK
<1>6. ASSUME NEW w \in Workers PROVE TaskOK(w)'
  <2>1. TaskOK(w) /\ task'[w] = task[w] /\ rows' = rows /\ (Searching(w)' <=> Searching(w))
    BY <1>1 DEF Searching
  <2> QED BY <1>3, <1>4, <2>1 DEF TaskOK
<1>7. PromiseInv'
  BY <1>1, <1>5, <1>6 DEF PromiseInv, Counts
<1> QED BY <1>1, <1>4, <1>7, NothingPromised

LEMMA RestartKeeps ==
  ASSUME PromiseInv, NEW p \in Processes, Restart(p)
  PROVE  PromiseInv' /\ PromiseStep
<1>1. /\ task' = [w \in Workers |-> IF ProcessOf(w) = p THEN Idle ELSE task[w]]
      /\ faults' = faults + 1 /\ UNCHANGED <<unmatched, announced, rows>> /\ Counts /\ QueueOK
      /\ task \in [Workers -> AnyTask] /\ \A w \in Workers : TaskOK(w)
  BY DEF Restart, PromiseInv
<1>2. \A w \in Workers : task'[w] = Idle \/ task'[w] = task[w]
  BY <1>1
<1>3. task' \in [Workers -> AnyTask]
  BY <1>1, IdleTask
<1>4. Counts' /\ faults' > 0
  BY <1>1 DEF Counts
<1>5. ASSUME NEW w \in Workers PROVE TaskOK(w)' /\ (Searching(w)' => Searching(w) /\ task'[w] = task[w])
  <2>1. CASE task'[w] = Idle
    BY <2>1, IdleTask DEF TaskOK, Searching
  <2>2. CASE task'[w] = task[w]
    BY <1>1, <1>4, <2>2 DEF TaskOK, Searching, Supported
  <2> QED BY <1>2, <2>1, <2>2
<1>6. PromiseInv'
  BY <1>1, <1>3, <1>4, <1>5 DEF PromiseInv, QueueOK
<1>7. \A o : Held(o)' => Held(o)
  BY <1>1, <1>5 DEF Held
<1> QED BY <1>1, <1>6, <1>7, FaultAllowed

-----------------------------------------------------------------------------
LEMMA StepKeepsPromise ==
  ASSUME PromiseInv, [DispatchNext]_dispatchVars
  PROVE  PromiseInv' /\ PromiseStep
<1>1. ASSUME NEW w \in Workers, Work(w) PROVE PromiseInv' /\ PromiseStep
  BY <1>1, ForcedSearchKeeps, SearchKeeps, BookKeeps, PushKeeps, RepushKeeps, PopReadKeeps,
     PopDeleteKeeps DEF Work
<1>2. ASSUME NEW p \in Processes, NEW c \in Couriers, NEW available \in BOOLEAN, NEW ring \in Rings,
             SetCourierStatus(p, c, available) \/ UpdateLocation(p, c, ring, available)
      PROVE  PromiseInv' /\ PromiseStep
  BY <1>2, CouriersMove DEF SetCourierStatus, UpdateLocation
<1>3. ASSUME NEW p \in Processes, NEW c \in Couriers, NEW available \in BOOLEAN,
             SetCourierStatus(p, c, available)
      PROVE  PromiseInv' /\ PromiseStep
  BY <1>3, CouriersMove DEF SetCourierStatus
<1>4. ASSUME NEW p \in Processes, NEW stale \in SUBSET Couriers, CleanupStale(p, stale)
      PROVE  PromiseInv' /\ PromiseStep
  BY <1>4, CouriersMove DEF CleanupStale
<1>5. CASE UNCHANGED dispatchVars
  BY <1>5, CouriersMove DEF dispatchVars
<1> QED BY <1>1, <1>2, <1>3, <1>4, <1>5, StartRetryKeeps, TriggerKeeps, RestartKeeps, HalfMinuteKeeps
      DEF DispatchNext

LEMMA PromiseStarts == DispatchInit => PromiseInv /\ Promise!Promised
<1> SUFFICES ASSUME DispatchInit PROVE PromiseInv /\ Promise!Promised
  OBVIOUS
<1>1. /\ unmatched = {} /\ announced = {} /\ rows = 0 /\ faults = 0
      /\ task = [w \in Workers |-> Idle]
  BY DEF DispatchInit
<1>2. task \in [Workers -> AnyTask] /\ \A w \in Workers : ~Searching(w) /\ task[w].pc = "idle"
  BY <1>1, IdleTask DEF Searching
<1>3. PromiseInv
  BY <1>1, <1>2 DEF PromiseInv, Counts, QueueOK, TaskOK
<1>4. Waiting = {}
  BY <1>1, <1>2 DEF Waiting
<1> QED BY <1>1, <1>3, <1>4 DEF Promise!Promised

\* The dispatch engine keeps its promise: while no process dies and no call
\* fails, an order a courier was asked for stays in the queue or with a search
\* until a courier is found, however many loops of however many processes retry
\* the same rows (matching_engine.go, dlq_postgres.go, dispatch.go:48-53).
THEOREM DispatchKeepsPromise == DispatchSpec => NoOrderForgotten
<1>1. DispatchInit => PromiseInv /\ Promise!Promised
  BY PromiseStarts
<1>2. PromiseInv /\ [DispatchNext]_dispatchVars =>
        PromiseInv' /\ [Promise!PromiseNext]_(Promise!promiseVars)
  BY StepKeepsPromise DEF PromiseStep
<1> QED BY <1>1, <1>2, PTL DEF DispatchSpec, NoOrderForgotten, Promise!PromiseSpec

-----------------------------------------------------------------------------
(* The ceiling of a courier.  What a courier a process knows was given is     *)
(* what the process counts, and the searches that picked it before one of      *)
(* them booked it are at most one per goroutine: each found it below its        *)
(* maximum.                                                                   *)

Booking(w, c) == task[w].pc \in {"book", "book forced"} /\ task[w].pick = c
Hands(p, c)   == {h \in Handlers \cup {Loop} : Booking(<<p, h>>, c)}

GoodTask(t) == t \in Task /\ (t.pc \in {"book", "book forced"} => t.pick \in Couriers)

\* The type invariant, and what the counts and the picks are.
DispatchTypes ==
  /\ couriers \in [Processes -> [Couriers -> Courier \cup {Absent}]]
  /\ \A r \in unmatched : r \in Row
  /\ lock \in [Processes -> Workers \cup {Nobody}]
  /\ \A w \in Workers : GoodTask(task[w])
  /\ announced \subseteq Orders
  /\ given \in [Processes -> [Couriers -> Nat]]

CountedAndBelow(p, c) ==
  Known(p, c) => /\ given[p][c] = couriers[p][c].orders
                 /\ given[p][c] + Cardinality(Hands(p, c)) <= MaxOrders + Cardinality(Handlers)

CeilingInv == \A p \in Processes, c \in Couriers : CountedAndBelow(p, c)

CarriedInv == PromiseInv /\ DispatchTypes /\ CeilingInv

LEMMA HandsCount ==
  ASSUME NEW S, S \subseteq Handlers \cup {Loop}
  PROVE  /\ IsFiniteSet(S) /\ Cardinality(S) \in Nat /\ Cardinality(Handlers) \in Nat
         /\ Cardinality(S) <= Cardinality(Handlers) + 1
<1>1. IsFiniteSet(Handlers)
  BY DispatchAssumption
<1>2. /\ IsFiniteSet(Handlers \cup {Loop})
      /\ Cardinality(Handlers \cup {Loop}) \in {Cardinality(Handlers), Cardinality(Handlers) + 1}
  BY <1>1, FS_AddElement
<1>3. IsFiniteSet(S) /\ Cardinality(S) <= Cardinality(Handlers \cup {Loop})
  BY <1>2, FS_Subset
<1>4. Cardinality(S) \in Nat /\ Cardinality(Handlers) \in Nat
  BY <1>1, <1>3, FS_CardinalityType
<1> QED BY <1>2, <1>3, <1>4

\* Where nobody new holds a courier and the counts stay, the ceiling stays.
LEMMA CeilingStays ==
  ASSUME DispatchTypes, NEW p \in Processes, NEW c \in Couriers, CountedAndBelow(p, c),
         given'[p][c] = given[p][c], Known(p, c)' => Known(p, c) /\ couriers'[p][c].orders = couriers[p][c].orders,
         \A h \in Handlers \cup {Loop} : Booking(<<p, h>>, c)' => Booking(<<p, h>>, c)
  PROVE  CountedAndBelow(p, c)'
<1>1. Hands(p, c)' \subseteq Hands(p, c) /\ Hands(p, c) \subseteq Handlers \cup {Loop}
  BY DEF Hands
<1>2. /\ Cardinality(Hands(p, c)) \in Nat /\ Cardinality(Hands(p, c)') \in Nat
      /\ IsFiniteSet(Hands(p, c)) /\ Cardinality(Handlers) \in Nat
  BY <1>1, HandsCount
<1>3. Cardinality(Hands(p, c)') <= Cardinality(Hands(p, c))
  BY <1>1, <1>2, FS_Subset
<1>4. given[p][c] \in Nat /\ MaxOrders \in Nat
  BY DispatchAssumption DEF DispatchTypes
<1> QED BY <1>2, <1>3, <1>4 DEF CountedAndBelow

\* A courier that carries less than its maximum is below the ceiling, whoever
\* else picked it.
LEMMA BelowMaximum ==
  ASSUME NEW p \in Processes, NEW c \in Couriers, given'[p][c] \in Nat, given'[p][c] < MaxOrders,
         Known(p, c)' => given'[p][c] = couriers'[p][c].orders
  PROVE  CountedAndBelow(p, c)'
<1>1. Hands(p, c)' \subseteq Handlers \cup {Loop}
  BY DEF Hands
<1>2. /\ Cardinality(Hands(p, c)') \in Nat /\ Cardinality(Handlers) \in Nat
      /\ Cardinality(Hands(p, c)') <= Cardinality(Handlers) + 1
  BY <1>1, HandsCount
<1> QED BY <1>2, DispatchAssumption DEF CountedAndBelow

LEMMA WorkerIs ==
  ASSUME NEW w \in Workers
  PROVE  w = <<w[1], w[2]>> /\ w[1] \in Processes /\ w[2] \in Handlers \cup {Loop}
BY DEF Workers

LEMMA TaskMoves ==
  ASSUME CarriedInv, NEW w \in Workers, NEW t, GoodTask(t), task' = [task EXCEPT ![w] = t]
  PROVE  /\ task'[w] = t /\ \A v \in Workers : v # w => task'[v] = task[v]
         /\ \A v \in Workers : GoodTask(task'[v])
BY DEF CarriedInv, PromiseInv, DispatchTypes

\* A step of a worker that picks nobody.
LEMMA PicksNobody ==
  ASSUME CarriedInv, NEW w \in Workers, NEW t, GoodTask(t), t.pc \notin {"book", "book forced"},
         task' = [task EXCEPT ![w] = t], UNCHANGED <<couriers, given>>
  PROVE  CeilingInv'
<1> SUFFICES ASSUME NEW p \in Processes, NEW c \in Couriers PROVE CountedAndBelow(p, c)'
  BY DEF CeilingInv
<1>1. task'[w] = t /\ \A v \in Workers : v # w => task'[v] = task[v]
  BY TaskMoves
<1>2. \A h \in Handlers \cup {Loop} : Booking(<<p, h>>, c)' => Booking(<<p, h>>, c)
  BY <1>1 DEF Booking, Workers
<1> QED BY <1>2, CeilingStays DEF CarriedInv, CeilingInv, Known

\* A step of a worker that picks a courier below its maximum.
LEMMA PicksOne ==
  ASSUME CarriedInv, NEW w \in Workers, NEW t, GoodTask(t), t.pc \in {"book", "book forced"},
         task' = [task EXCEPT ![w] = t], UNCHANGED <<couriers, given>>,
         NEW ring, t.pick \in FindNearby(ProcessOf(w), ring)
  PROVE  CeilingInv'
<1> SUFFICES ASSUME NEW p \in Processes, NEW c \in Couriers PROVE CountedAndBelow(p, c)'
  BY DEF CeilingInv
<1>1. task'[w] = t /\ \A v \in Workers : v # w => task'[v] = task[v]
  BY TaskMoves
<1>2. CountedAndBelow(p, c) /\ DispatchTypes
  BY DEF CarriedInv, CeilingInv
<1>3. CASE p = ProcessOf(w) /\ c = t.pick
  <2>1. Known(p, c) /\ couriers[p][c].orders < MaxOrders
    BY <1>3 DEF FindNearby
  <2>2. given[p][c] = couriers[p][c].orders /\ given[p][c] \in Nat
    BY <1>2, <2>1 DEF CountedAndBelow, DispatchTypes
  <2> QED BY <2>1, <2>2, BelowMaximum
<1>4. CASE ~(p = ProcessOf(w) /\ c = t.pick)
  <2>2. ASSUME NEW h \in Handlers \cup {Loop}, Booking(<<p, h>>, c)' PROVE Booking(<<p, h>>, c)
    <3>1. CASE <<p, h>> = w
      <4>1. p = ProcessOf(w)
        BY <3>1 DEF ProcessOf
      <4>2. t.pick = c
        BY <1>1, <2>2, <3>1 DEF Booking
      <4> QED BY <1>4, <4>1, <4>2
    <3>2. CASE <<p, h>> # w
      BY <1>1, <2>2, <3>2 DEF Booking, Workers
    <3> QED BY <3>1, <3>2
  <2> QED BY <1>2, <2>2, CeilingStays DEF Known
<1> QED BY <1>3, <1>4

LEMMA GoodIdle ==
  GoodTask(Idle) /\ \A w : GoodTask(AfterMatch(w)) /\ AfterMatch(w).pc \notin {"book", "book forced"}
                 /\ Idle.pc \notin {"book", "book forced"}
<1>1. GoodTask(Idle) /\ Idle.pc = "idle"
  BY DEF Idle, GoodTask, Task
<1>2. GoodTask([Idle EXCEPT !.pc = "pop"]) /\ [Idle EXCEPT !.pc = "pop"].pc = "pop"
  <2> DEFINE t == [Idle EXCEPT !.pc = "pop"]
  <2>1. t \in Task
    BY <1>1 DEF GoodTask, Task
  <2>2. t.pc = "pop"
    BY DEF Idle
  <2> QED BY <2>1, <2>2 DEF GoodTask
<1> QED BY <1>1, <1>2 DEF AfterMatch

\* A task goes on at another place, its pick and row as they are.
LEMMA GoodAt ==
  ASSUME NEW t, GoodTask(t), NEW pc \in Places \ {"book", "book forced"}
  PROVE  GoodTask([t EXCEPT !.pc = pc]) /\ [t EXCEPT !.pc = pc].pc \notin {"book", "book forced"}
BY DEF GoodTask, Task, Places

LEMMA CouriersPicked ==
  ASSUME CarriedInv, NEW w \in Workers, ForcedSearch(w) \/ Search(w)
  PROVE  DispatchTypes' /\ CeilingInv'
<1>1. /\ GoodTask(task[w]) /\ UNCHANGED <<couriers, unmatched, lock, given, announced>>
      /\ DispatchTypes /\ task \in [Workers -> AnyTask]
  BY DEF ForcedSearch, Search, CarriedInv, PromiseInv, DispatchTypes
<1>2. ASSUME NEW t, GoodTask(t), task' = [task EXCEPT ![w] = t] PROVE DispatchTypes'
  BY <1>1, <1>2, TaskMoves DEF DispatchTypes
<1>3. ASSUME NEW pc \in {"search", "push"}, TaskAt(w, pc) PROVE DispatchTypes' /\ CeilingInv'
  <2> DEFINE t == [task[w] EXCEPT !.pc = pc]
  <2>1. GoodTask(t) /\ t.pc \notin {"book", "book forced"}
    BY <1>1, GoodAt DEF Places
  <2>2. task' = [task EXCEPT ![w] = t]
    BY <1>1, <1>3 DEF TaskAt
  <2> HIDE DEF t
  <2> QED BY <1>1, <1>2, <2>1, <2>2, PicksNobody
<1>4. ASSUME NEW pc \in {"book", "book forced"}, NEW ring, NEW c \in FindNearby(ProcessOf(w), ring),
             task' = [task EXCEPT ![w].pc = pc, ![w].pick = c]
      PROVE  DispatchTypes' /\ CeilingInv'
  <2> DEFINE t == [task[w] EXCEPT !.pc = pc, !.pick = c]
  <2>0. c \in Couriers
    BY DEF FindNearby
  <2>1. GoodTask(t) /\ t.pc = pc /\ t.pick = c
    BY <1>1, <2>0 DEF GoodTask, Task
  <2>2. task' = [task EXCEPT ![w] = t]
    BY <1>1, <1>4
  <2> HIDE DEF t
  <2> QED BY <1>1, <1>2, <1>4, <2>1, <2>2, PicksOne
<1>5. ASSUME task[w].pc = "search", task[w].stage < 3, task' = [task EXCEPT ![w].stage = @ + 1]
      PROVE  DispatchTypes' /\ CeilingInv'
  <2> DEFINE t == [task[w] EXCEPT !.stage = @ + 1]
  <2>0. task[w].stage \in 0..3 /\ task[w].stage + 1 \in 0..3
    <3>1. task[w].stage \in 0..3
      BY <1>1 DEF GoodTask, Task
    <3> QED BY <1>5, <3>1
  <2>1. GoodTask(t) /\ t.pc = "search"
    BY <1>1, <1>5, <2>0 DEF GoodTask, Task
  <2>2. task' = [task EXCEPT ![w] = t]
    BY <1>1, <1>5
  <2> HIDE DEF t
  <2> QED BY <1>1, <1>2, <2>1, <2>2, PicksNobody
<1>6. CASE ForcedSearch(w)
  BY <1>3, <1>4, <1>6 DEF ForcedSearch
<1>7. CASE Search(w)
  BY <1>3, <1>4, <1>5, <1>7 DEF Search
<1> QED BY <1>6, <1>7

LEMMA CourierBooked ==
  ASSUME CarriedInv, NEW w \in Workers, Book(w)
  PROVE  DispatchTypes' /\ CeilingInv'
<1>1. /\ GoodTask(task[w]) /\ UNCHANGED <<unmatched, lock>> /\ DispatchTypes /\ CeilingInv
      /\ task[w].pc \in {"book", "book forced"} /\ announced' = announced \cup {task[w].order}
      /\ IncrementOrders(ProcessOf(w), task[w].pick) /\ task' = [task EXCEPT ![w] = AfterMatch(w)]
  BY DEF Book, Finished, CarriedInv, PromiseInv, DispatchTypes
<1>2. PICK p \in Processes, h \in Handlers \cup {Loop} : w = <<p, h>> /\ p = ProcessOf(w)
  BY WorkerIs DEF ProcessOf
<1>3. PICK k \in Couriers : k = task[w].pick
  BY <1>1 DEF GoodTask
<1>4. /\ couriers' = IF Known(p, k) THEN [couriers EXCEPT ![p][k].orders = @ + 1] ELSE couriers
      /\ given' = [given EXCEPT ![p][k] = @ + 1]
  BY <1>1, <1>2, <1>3 DEF IncrementOrders
<1>5. given' \in [Processes -> [Couriers -> Nat]]
  <2>1. given[p][k] \in Nat
    BY <1>1 DEF DispatchTypes
  <2>2. given[p][k] + 1 \in Nat
    BY <2>1
  <2> QED BY <1>1, <1>4, <2>2 DEF DispatchTypes
<1>6. Known(p, k) => couriers[p][k] \in Courier
  BY <1>1 DEF DispatchTypes, Known
<1>7. couriers' \in [Processes -> [Couriers -> Courier \cup {Absent}]]
  <2>1. CASE Known(p, k)
    <3> DEFINE r == [couriers[p][k] EXCEPT !.orders = @ + 1]
    <3>1. r \in Courier
      BY <1>6, <2>1 DEF Courier
    <3>2. couriers' = [couriers EXCEPT ![p][k] = r]
      BY <1>1, <1>4, <2>1 DEF DispatchTypes
    <3> HIDE DEF r
    <3> QED BY <1>1, <3>1, <3>2 DEF DispatchTypes
  <2> QED BY <1>1, <1>4, <2>1 DEF DispatchTypes
<1>8. /\ task'[w] = AfterMatch(w) /\ \A v \in Workers : v # w => task'[v] = task[v]
      /\ \A v \in Workers : GoodTask(task'[v])
  BY <1>1, GoodIdle, TaskMoves
<1>9. task[w].order \in Orders
  BY <1>1 DEF CarriedInv, PromiseInv, TaskOK, Searching
<1>10. ASSUME NEW q \in Processes, NEW c \in Couriers, q # p \/ c # k PROVE CountedAndBelow(q, c)'
  <2>1. couriers'[q][c] = couriers[q][c] /\ given'[q][c] = given[q][c]
    BY <1>1, <1>4, <1>10 DEF DispatchTypes
  <2>2. \A g \in Handlers \cup {Loop} : Booking(<<q, g>>, c)' => Booking(<<q, g>>, c)
    BY <1>8, GoodIdle DEF Booking, Workers
  <2> QED BY <1>1, <2>1, <2>2, CeilingStays DEF CeilingInv, Known
<1>11. CountedAndBelow(p, k)'
  <2>1. CountedAndBelow(p, k)
    BY <1>1 DEF CeilingInv
  <2>2. Hands(p, k)' = Hands(p, k) \ {h} /\ h \in Hands(p, k) /\ Hands(p, k) \subseteq Handlers \cup {Loop}
    <3>1. Booking(w, k) /\ ~Booking(w, k)'
      BY <1>1, <1>3, <1>8, GoodIdle DEF Booking
    <3>2. \A g \in Handlers \cup {Loop} : g # h => (Booking(<<p, g>>, k)' <=> Booking(<<p, g>>, k))
      BY <1>2, <1>8 DEF Booking, Workers
    <3> QED BY <1>2, <3>1, <3>2 DEF Hands
  <2>3. /\ Cardinality(Hands(p, k)') = Cardinality(Hands(p, k)) - 1
        /\ Cardinality(Hands(p, k)) \in Nat /\ Cardinality(Handlers) \in Nat
    BY <2>2, HandsCount, FS_RemoveElement
  <2>4. given'[p][k] = given[p][k] + 1 /\ given[p][k] \in Nat /\ MaxOrders \in Nat
    BY <1>1, <1>4, DispatchAssumption DEF DispatchTypes
  <2>5. Known(p, k)' => Known(p, k)
    BY <1>4 DEF Known
  <2>6. Known(p, k) => couriers'[p][k].orders = couriers[p][k].orders + 1
    BY <1>1, <1>4, <1>6 DEF DispatchTypes, Courier
  <2> QED BY <2>1, <2>3, <2>4, <2>5, <2>6 DEF CountedAndBelow
<1>12. DispatchTypes'
  BY <1>1, <1>5, <1>7, <1>8, <1>9 DEF DispatchTypes
<1> QED BY <1>10, <1>11, <1>12 DEF CeilingInv

LEMMA QueuePushed ==
  ASSUME CarriedInv, NEW w \in Workers, Push(w)
  PROVE  DispatchTypes' /\ CeilingInv'
<1>1. /\ GoodTask(task[w]) /\ UNCHANGED <<couriers, lock, given, announced>>
      /\ DispatchTypes /\ rows \in Nat /\ task[w].pc = "push" /\ task[w].order \in Orders
      /\ task \in [Workers -> AnyTask]
  BY DEF Push, CarriedInv, PromiseInv, DispatchTypes, Counts, TaskOK, Searching
<1>2. \A r \in unmatched' : r \in Row
  <2>1. NewRow(task[w].order, rows + 1, 0) \in Row
    <3>1. rows + 1 \in Nat /\ 0 \in 0..(MaxRowRetries - 1)
      BY <1>1, DispatchAssumption
    <3> QED BY <1>1, <3>1 DEF NewRow, Row
  <2> QED BY <1>1, <2>1 DEF Push, DispatchTypes
<1>3. PICK t : GoodTask(t) /\ t.pc \notin {"book", "book forced"} /\ task' = [task EXCEPT ![w] = t]
  <2>1. CASE TaskAt(w, "repush")
    <3> DEFINE t == [task[w] EXCEPT !.pc = "repush"]
    <3>1. GoodTask(t) /\ t.pc \notin {"book", "book forced"}
      BY <1>1, GoodAt DEF Places
    <3>2. task' = [task EXCEPT ![w] = t]
      BY <1>1, <2>1 DEF TaskAt
    <3> HIDE DEF t
    <3> QED BY <3>1, <3>2
  <2>2. CASE Finished(w)
    BY <2>2, GoodIdle DEF Finished
  <2> QED BY <2>1, <2>2 DEF Push
<1>4. \A v \in Workers : GoodTask(task'[v])
  BY <1>3, TaskMoves
<1>5. DispatchTypes'
  BY <1>1, <1>2, <1>4 DEF DispatchTypes
<1> QED BY <1>1, <1>3, <1>5, PicksNobody

LEMMA QueuePushedBack ==
  ASSUME CarriedInv, NEW w \in Workers, Repush(w)
  PROVE  DispatchTypes' /\ CeilingInv'
<1> DEFINE row == task[w].row
<1>1. /\ UNCHANGED <<couriers, lock, given, announced>> /\ GoodTask(task[w])
      /\ DispatchTypes /\ rows \in Nat /\ task' = [task EXCEPT ![w] = AfterMatch(w)]
      /\ row \in AnyRow /\ row.order \in Orders
  BY DEF Repush, Finished, CarriedInv, PromiseInv, DispatchTypes, Counts, TaskOK, Searching, AnyRow
<1>2. \A r \in unmatched' : r \in Row
  <2>1. ASSUME row.retry + 1 < MaxRowRetries PROVE NewRow(row.order, row.born, row.retry + 1) \in Row
    <3>1. row.born \in Nat /\ row.retry \in Nat
      BY <1>1 DEF AnyRow
    <3>2. rows + 1 \in Nat /\ row.retry + 1 \in 0..(MaxRowRetries - 1)
      BY <1>1, <2>1, <3>1, DispatchAssumption
    <3> HIDE DEF row
    <3> QED BY <1>1, <3>1, <3>2 DEF NewRow, Row
  <2> QED BY <1>1, <2>1 DEF Repush, DispatchTypes
<1>3. DispatchTypes'
  BY <1>1, <1>2, GoodIdle, TaskMoves DEF DispatchTypes
<1> QED BY <1>1, <1>3, GoodIdle, PicksNobody

LEMMA QueueRead ==
  ASSUME CarriedInv, NEW w \in Workers, PopRead(w)
  PROVE  DispatchTypes' /\ CeilingInv'
<1>1. /\ UNCHANGED <<couriers, unmatched, given, announced>> /\ GoodTask(task[w]) /\ DispatchTypes
      /\ task \in [Workers -> AnyTask]
  BY DEF PopRead, CarriedInv, PromiseInv, DispatchTypes
<1>2. lock' \in [Processes -> Workers \cup {Nobody}]
  BY <1>1 DEF PopRead, DispatchTypes
<1>3. PICK t : GoodTask(t) /\ t.pc \notin {"book", "book forced"} /\ task' = [task EXCEPT ![w] = t]
  <2>1. CASE task' = [task EXCEPT ![w] = Idle]
    BY <2>1, GoodIdle
  <2>2. ASSUME NEW r \in Due, task' = [task EXCEPT ![w].pc = "delete", ![w].row = r]
        PROVE  \E t : GoodTask(t) /\ t.pc \notin {"book", "book forced"} /\ task' = [task EXCEPT ![w] = t]
    <3> DEFINE t == [task[w] EXCEPT !.pc = "delete", !.row = r]
    <3>0. r \in Row
      BY <1>1 DEF Due, DispatchTypes
    <3>1. GoodTask(t) /\ t.pc = "delete"
      BY <1>1, <3>0 DEF GoodTask, Task
    <3>2. task' = [task EXCEPT ![w] = t]
      BY <1>1, <2>2
    <3> HIDE DEF t
    <3> QED BY <3>1, <3>2
  <2> QED BY <2>1, <2>2 DEF PopRead
<1>4. DispatchTypes'
  BY <1>1, <1>2, <1>3, TaskMoves DEF DispatchTypes
<1> QED BY <1>1, <1>3, <1>4, PicksNobody

LEMMA QueueDeleted ==
  ASSUME CarriedInv, NEW w \in Workers, PopDelete(w)
  PROVE  DispatchTypes' /\ CeilingInv'
<1>1. /\ UNCHANGED <<couriers, given, announced>> /\ GoodTask(task[w]) /\ DispatchTypes
      /\ unmatched' \subseteq unmatched /\ task \in [Workers -> AnyTask]
      /\ task[w].row \in AnyRow /\ task[w].row.order \in Orders
  BY DEF PopDelete, CarriedInv, PromiseInv, DispatchTypes, TaskOK, AnyRow
<1>2. lock' \in [Processes -> Workers \cup {Nobody}]
  BY <1>1 DEF PopDelete, DispatchTypes
<1>3. PICK t : GoodTask(t) /\ t.pc \notin {"book", "book forced"} /\ task' = [task EXCEPT ![w] = t]
  <2>1. CASE task' = [task EXCEPT ![w] = Idle]
    BY <2>1, GoodIdle
  <2>2. CASE task' = [task EXCEPT ![w].pc = "search", ![w].stage = 1, ![w].order = task[w].row.order]
    <3> DEFINE t == [task[w] EXCEPT !.pc = "search", !.stage = 1, !.order = task[w].row.order]
    <3>0. 1 \in 0..3
      OBVIOUS
    <3>1. GoodTask(t) /\ t.pc = "search"
      BY <1>1, <3>0 DEF GoodTask, Task
    <3>2. task' = [task EXCEPT ![w] = t]
      BY <1>1, <2>2
    <3> HIDE DEF t
    <3> QED BY <3>1, <3>2
  <2> QED BY <2>1, <2>2 DEF PopDelete
<1>4. DispatchTypes'
  BY <1>1, <1>2, <1>3, TaskMoves DEF DispatchTypes
<1> QED BY <1>1, <1>3, <1>4, PicksNobody

LEMMA QueueWaits ==
  ASSUME CarriedInv, HalfMinute
  PROVE  DispatchTypes' /\ CeilingInv'
<1>1. /\ UNCHANGED <<couriers, lock, task, given, announced>> /\ DispatchTypes /\ CeilingInv
      /\ unmatched' = {[r EXCEPT !.cooled = TRUE] : r \in unmatched}
  BY DEF HalfMinute, CarriedInv
<1>2. \A r \in unmatched : [r EXCEPT !.cooled = TRUE] \in Row
  BY <1>1 DEF DispatchTypes, Row
<1>3. DispatchTypes'
  BY <1>1, <1>2 DEF DispatchTypes
<1> QED BY <1>1, <1>3, CeilingStays DEF CeilingInv, Known, Booking

LEMMA WorkAsked ==
  ASSUME CarriedInv, NEW w \in Workers,
         StartRetry(w) \/ \E o \in Orders, force \in BOOLEAN : TriggerDispatch(w, o, force)
  PROVE  DispatchTypes' /\ CeilingInv'
<1>1. /\ UNCHANGED <<couriers, unmatched, lock, given, announced>> /\ GoodTask(task[w])
      /\ DispatchTypes /\ task \in [Workers -> AnyTask]
  BY DEF StartRetry, TriggerDispatch, CarriedInv, PromiseInv, DispatchTypes
<1>2. PICK t : GoodTask(t) /\ t.pc \notin {"book", "book forced"} /\ task' = [task EXCEPT ![w] = t]
  <2>1. CASE TaskAt(w, "pop")
    <3> DEFINE t == [task[w] EXCEPT !.pc = "pop"]
    <3>1. GoodTask(t) /\ t.pc \notin {"book", "book forced"}
      BY <1>1, GoodAt DEF Places
    <3>2. task' = [task EXCEPT ![w] = t]
      BY <1>1, <2>1 DEF TaskAt
    <3> HIDE DEF t
    <3> QED BY <3>1, <3>2
  <2>2. ASSUME NEW o \in Orders, NEW pc \in {"force", "search"},
               task' = [task EXCEPT ![w] = [Idle EXCEPT !.order = o, !.stage = 1, !.pc = pc]]
        PROVE  \E t : GoodTask(t) /\ t.pc \notin {"book", "book forced"} /\ task' = [task EXCEPT ![w] = t]
    <3> DEFINE t == [Idle EXCEPT !.order = o, !.stage = 1, !.pc = pc]
    <3>0. 1 \in 0..3
      OBVIOUS
    <3>1. Idle \in Task
      BY GoodIdle DEF GoodTask
    <3>2. t \in Task /\ t.pc = pc
      BY <3>0, <3>1 DEF Task
    <3>3. GoodTask(t) /\ t.pc \notin {"book", "book forced"}
      BY <3>2 DEF GoodTask
    <3>4. task' = [task EXCEPT ![w] = t]
      BY <2>2
    <3> HIDE DEF t
    <3> QED BY <3>3, <3>4
  <2>3. ASSUME NEW o \in Orders, NEW force \in BOOLEAN, TriggerDispatch(w, o, force)
        PROVE  \E t : GoodTask(t) /\ t.pc \notin {"book", "book forced"} /\ task' = [task EXCEPT ![w] = t]
    <3>1. PICK pc \in {"force", "search"} : pc = IF force THEN "force" ELSE "search"
      OBVIOUS
    <3> QED BY <2>2, <2>3, <3>1 DEF TriggerDispatch
  <2> QED BY <2>1, <2>3 DEF StartRetry
<1>3. DispatchTypes'
  BY <1>1, <1>2, TaskMoves DEF DispatchTypes
<1> QED BY <1>1, <1>2, <1>3, PicksNobody

\* What a report of a courier writes: the counts stay, or both begin at zero.
Reported(p, c, k) ==
  /\ couriers' = [couriers EXCEPT ![p][c] = k]
  /\ Known(p, c) => k.orders = couriers[p][c].orders /\ given' = given
  /\ ~Known(p, c) => k.orders = 0 /\ given' = [given EXCEPT ![p][c] = 0]

\* A courier that reports or changes its status.
LEMMA CouriersReport ==
  ASSUME CarriedInv, NEW p \in Processes, NEW c \in Couriers, NEW available \in BOOLEAN,
         SetCourierStatus(p, c, available)
           \/ \E ring \in Rings : UpdateLocation(p, c, ring, available)
  PROVE  DispatchTypes' /\ CeilingInv'
<1>1. UNCHANGED <<unmatched, lock, task, announced>> /\ DispatchTypes /\ CeilingInv
  BY DEF SetCourierStatus, UpdateLocation, CarriedInv
<1>2. Known(p, c) => couriers[p][c] \in Courier
  BY <1>1 DEF DispatchTypes, Known
<1>3. PICK k \in Courier : Reported(p, c, k)
  <2>1. CASE SetCourierStatus(p, c, available)
    <3> DEFINE k == [couriers[p][c] EXCEPT !.available = available]
    <3>1. Known(p, c) /\ given' = given /\ couriers[p][c] \in Courier
      BY <1>2, <2>1 DEF SetCourierStatus
    <3>2. k \in Courier /\ k.orders = couriers[p][c].orders
      BY <3>1 DEF Courier
    <3>3. couriers' = [couriers EXCEPT ![p][c] = k]
      BY <1>1, <2>1 DEF SetCourierStatus, DispatchTypes
    <3> HIDE DEF k
    <3> QED BY <3>1, <3>2, <3>3 DEF Reported
  <2>2. ASSUME NEW ring \in Rings, UpdateLocation(p, c, ring, available)
        PROVE  \E k \in Courier : Reported(p, c, k)
    <3> DEFINE k == [ring |-> ring, available |-> available,
                     orders |-> IF Known(p, c) THEN couriers[p][c].orders ELSE 0]
    <3>1. k \in Courier /\ k.orders = IF Known(p, c) THEN couriers[p][c].orders ELSE 0
      BY <1>2 DEF Courier
    <3>2. /\ couriers' = [couriers EXCEPT ![p][c] = k]
          /\ given' = IF Known(p, c) THEN given ELSE [given EXCEPT ![p][c] = 0]
      BY <2>2 DEF UpdateLocation
    <3> HIDE DEF k
    <3> QED BY <3>1, <3>2 DEF Reported
  <2> QED BY <2>1, <2>2
<1>4. DispatchTypes'
  <2>1. couriers' \in [Processes -> [Couriers -> Courier \cup {Absent}]]
    BY <1>1, <1>3 DEF DispatchTypes, Reported
  <2>2. given' \in [Processes -> [Couriers -> Nat]]
    <3>1. CASE Known(p, c)
      BY <1>1, <1>3, <3>1 DEF DispatchTypes, Reported
    <3>2. CASE ~Known(p, c)
      <4>1. given' = [given EXCEPT ![p][c] = 0] /\ 0 \in Nat /\ given \in [Processes -> [Couriers -> Nat]]
        BY <1>1, <1>3, <3>2 DEF DispatchTypes, Reported
      <4> QED BY <4>1
    <3> QED BY <3>1, <3>2
  <2> QED BY <1>1, <2>1, <2>2 DEF DispatchTypes
<1>5. ASSUME NEW q \in Processes, NEW d \in Couriers PROVE CountedAndBelow(q, d)'
  <2>1. \A g \in Handlers \cup {Loop} : Booking(<<q, g>>, d)' <=> Booking(<<q, g>>, d)
    BY <1>1 DEF Booking
  <2>2. CASE q = p /\ d = c /\ Known(p, c)
    <3>1. given'[p][c] = given[p][c] /\ couriers'[p][c].orders = couriers[p][c].orders
      BY <1>1, <1>3, <2>2 DEF DispatchTypes, Reported
    <3> QED BY <1>1, <2>1, <2>2, <3>1, CeilingStays DEF CeilingInv
  <2>3. CASE q = p /\ d = c /\ ~Known(p, c)
    <3>1. given'[p][c] = 0 /\ couriers'[p][c].orders = 0
      BY <1>1, <1>3, <2>3 DEF DispatchTypes, Reported
    <3>2. 0 < MaxOrders /\ 0 \in Nat
      BY DispatchAssumption
    <3> QED BY <2>3, <3>1, <3>2, BelowMaximum
  <2>4. CASE ~(q = p /\ d = c)
    <3>1. couriers'[q][d] = couriers[q][d] /\ given'[q][d] = given[q][d]
      BY <1>1, <1>3, <2>4 DEF DispatchTypes, Reported
    <3> QED BY <1>1, <2>1, <3>1, CeilingStays DEF CeilingInv, Known
  <2> QED BY <2>2, <2>3, <2>4
<1> QED BY <1>4, <1>5 DEF CeilingInv

\* Couriers a process forgets, at a restart with all it was doing.
LEMMA CouriersForgotten ==
  ASSUME CarriedInv, NEW p \in Processes,
         Restart(p) \/ \E stale \in SUBSET Couriers : CleanupStale(p, stale)
  PROVE  DispatchTypes' /\ CeilingInv'
<1>1. /\ UNCHANGED <<unmatched, given, announced>> /\ DispatchTypes /\ CeilingInv
      /\ task \in [Workers -> AnyTask]
  BY DEF CleanupStale, Restart, CarriedInv, PromiseInv
<1>2. \E row \in [Couriers -> Courier \cup {Absent}] :
        /\ couriers' = [couriers EXCEPT ![p] = row]
        /\ \A c \in Couriers : row[c] \in {Absent, couriers[p][c]}
  <2>1. CASE Restart(p)
    <3> WITNESS [c \in Couriers |-> Absent] \in [Couriers -> Courier \cup {Absent}]
    <3> QED BY <2>1 DEF Restart
  <2>2. ASSUME NEW stale \in SUBSET Couriers, CleanupStale(p, stale)
        PROVE  \E row \in [Couriers -> Courier \cup {Absent}] :
                 /\ couriers' = [couriers EXCEPT ![p] = row]
                 /\ \A c \in Couriers : row[c] \in {Absent, couriers[p][c]}
    <3> DEFINE row == [c \in Couriers |-> IF c \in stale THEN Absent ELSE couriers[p][c]]
    <3>1. row \in [Couriers -> Courier \cup {Absent}] /\ \A c \in Couriers : row[c] \in {Absent, couriers[p][c]}
      BY <1>1 DEF DispatchTypes
    <3>2. couriers' = [couriers EXCEPT ![p] = row]
      BY <2>2 DEF CleanupStale
    <3> HIDE DEF row
    <3> QED BY <3>1, <3>2
  <2> QED BY <2>1, <2>2
<1>3. /\ couriers' \in [Processes -> [Couriers -> Courier \cup {Absent}]]
      /\ \A q \in Processes, c \in Couriers : couriers'[q][c] \in {Absent, couriers[q][c]}
  BY <1>1, <1>2 DEF DispatchTypes
<1>4. \A w \in Workers : task'[w] = Idle \/ task'[w] = task[w]
  BY <1>1 DEF Restart, CleanupStale
<1>5. lock' \in [Processes -> Workers \cup {Nobody}]
  BY <1>1 DEF Restart, CleanupStale, DispatchTypes
<1>6. DispatchTypes'
  <2>1. \A w \in Workers : GoodTask(task'[w])
    BY <1>1, <1>4, GoodIdle DEF DispatchTypes
  <2> QED BY <1>1, <1>3, <1>5, <2>1 DEF DispatchTypes
<1>7. ASSUME NEW q \in Processes, NEW c \in Couriers PROVE CountedAndBelow(q, c)'
  <2>1. Known(q, c)' => Known(q, c) /\ couriers'[q][c] = couriers[q][c]
    BY <1>3 DEF Known
  <2>2. \A h \in Handlers \cup {Loop} : Booking(<<q, h>>, c)' => Booking(<<q, h>>, c)
    BY <1>4, GoodIdle DEF Booking, Workers
  <2> QED BY <1>1, <2>1, <2>2, CeilingStays DEF CeilingInv
<1> QED BY <1>6, <1>7 DEF CeilingInv

LEMMA StepKeepsCeiling ==
  ASSUME CarriedInv, [DispatchNext]_dispatchVars
  PROVE  CarriedInv'
<1>1. PromiseInv'
  BY StepKeepsPromise DEF CarriedInv
<1>2. ASSUME NEW w \in Workers, Work(w) PROVE DispatchTypes' /\ CeilingInv'
  BY <1>2, CouriersPicked, CourierBooked, QueuePushed, QueuePushedBack, QueueRead, QueueDeleted DEF Work
<1>3. ASSUME UNCHANGED dispatchVars PROVE DispatchTypes' /\ CeilingInv'
  <2>1. UNCHANGED <<couriers, unmatched, lock, task, given, announced>> /\ DispatchTypes /\ CeilingInv
    BY <1>3 DEF dispatchVars, CarriedInv
  <2>2. DispatchTypes'
    BY <2>1 DEF DispatchTypes
  <2> QED BY <2>1, <2>2, CeilingStays DEF CeilingInv, Known, Booking
<1>4. ASSUME NEW p \in Processes, NEW stale \in (SUBSET Couriers) \ {{}},
             Restart(p) \/ CleanupStale(p, stale)
      PROVE  DispatchTypes' /\ CeilingInv'
  BY <1>4, CouriersForgotten
<1>5. ASSUME NEW p \in Processes, Restart(p) PROVE DispatchTypes' /\ CeilingInv'
  BY <1>5, CouriersForgotten
<1>6. ASSUME NEW p \in Processes, NEW c \in Couriers, NEW available \in BOOLEAN,
             SetCourierStatus(p, c, available)
               \/ \E ring \in Rings : UpdateLocation(p, c, ring, available)
      PROVE  DispatchTypes' /\ CeilingInv'
  BY <1>6, CouriersReport
<1>7. DispatchTypes' /\ CeilingInv'
  BY <1>2, <1>3, <1>4, <1>5, <1>6, WorkAsked, QueueWaits DEF DispatchNext
<1> QED BY <1>1, <1>7 DEF CarriedInv

LEMMA CeilingStarts == DispatchInit => CarriedInv
<1> SUFFICES ASSUME DispatchInit PROVE CarriedInv
  OBVIOUS
<1>1. PromiseInv
  BY PromiseStarts
<1>2. DispatchTypes
  BY GoodIdle DEF DispatchTypes, DispatchInit
<1>3. CeilingInv
  BY DEF CeilingInv, CountedAndBelow, Known, DispatchInit
<1> QED BY <1>1, <1>2, <1>3 DEF CarriedInv

LEMMA CarriedIsDispatchInv == CarriedInv => DispatchInv
<1> SUFFICES ASSUME CarriedInv PROVE DispatchInv
  OBVIOUS
<1>1. DispatchTypeOK
  BY DEF CarriedInv, DispatchTypes, DispatchTypeOK, GoodTask
<1>2. ASSUME NEW p \in Processes, NEW c \in Couriers, Known(p, c)
      PROVE  given[p][c] <= MaxOrders + Cardinality(Handlers)
  <2>1. given[p][c] + Cardinality(Hands(p, c)) <= MaxOrders + Cardinality(Handlers)
    BY <1>2 DEF CarriedInv, CeilingInv, CountedAndBelow
  <2>2. Cardinality(Hands(p, c)) \in Nat /\ Cardinality(Handlers) \in Nat
    BY HandsCount DEF Hands
  <2>3. given[p][c] \in Nat /\ MaxOrders \in Nat
    BY DispatchAssumption DEF CarriedInv, DispatchTypes
  <2> QED BY <2>1, <2>2, <2>3
<1> QED BY <1>1, <1>2 DEF DispatchInv, CeilingHeld

\* In memory, queue and rows stay well formed, and a courier that a process
\* knows of was never given more orders than its maximum and one for every
\* other goroutine that may have picked it at the same time, however reports,
\* searches, bookings, silences and restarts interleave (courier_location.go,
\* matching_engine.go).
THEOREM DispatchKeepsCeiling == DispatchSpec => []DispatchInv
<1> QED BY CeilingStarts, StepKeepsCeiling, CarriedIsDispatchInv, PTL DEF DispatchSpec

-----------------------------------------------------------------------------
(* Batches (DeliveryBatches).                                                *)

RequestsForBatches ==
  [pc : {"assign", "complete", "save", "count", "expire", "release"}, batch : Batches,
   row : BatchRows, order : BatchOrders \cup {NoBatch}]

\* A request holds a row of a batch that exists, and an order if it adds one;
\* what the job found is old.
BatchInv ==
  /\ batchRow \in [Batches -> BatchRows \cup {NoBatch}]
  /\ batchOf \in [BatchOrders -> Batches \cup {NoBatch}]
  /\ admin \in [BatchAdmins -> RequestsForBatches \cup {NoRequest}]
  /\ \A a \in BatchAdmins : admin[a] # NoRequest =>
       /\ batchRow[admin[a].batch] # NoBatch
       /\ admin[a].pc \in {"save", "count"} => admin[a].order \in BatchOrders
  /\ old \subseteq Batches /\ \A b \in old : batchRow[b] # NoBatch
  /\ expired \subseteq old

\* What a step may make of a row: a new one, an ended one, an active one set
\* out, or the same trip.
RowMoves ==
  \A b \in Batches :
    /\ batchRow'[b] # batchRow[b] => batchRow'[b] \in BatchRows
    /\ batchRow[b] # NoBatch =>
         \/ batchRow'[b].status \in EndedBatch
         \/ batchRow[b].status = "active" /\ batchRow'[b].status = "delivering"
         \/ /\ batchRow'[b].status = batchRow[b].status
            /\ batchRow'[b].courier = batchRow[b].courier

\* One batch is saved so.
LEMMA SavedMoves ==
  ASSUME BatchInv, NEW b \in Batches, NEW row \in BatchRows, Saved(b, row),
         batchRow[b] # NoBatch =>
           \/ row.status \in EndedBatch
           \/ batchRow[b].status = "active" /\ row.status = "delivering"
           \/ row.status = batchRow[b].status /\ row.courier = batchRow[b].courier
  PROVE  /\ RowMoves /\ batchRow' \in [Batches -> BatchRows \cup {NoBatch}]
         /\ \A c \in Batches : batchRow[c] # NoBatch => batchRow'[c] # NoBatch
<1>1. batchRow' = [batchRow EXCEPT ![b] = row] /\ row # NoBatch
  BY BatchAssumption DEF Saved
<1> QED BY <1>1 DEF RowMoves, BatchInv

LEMMA UnsavedMoves ==
  ASSUME BatchInv, UNCHANGED batchRow
  PROVE  /\ RowMoves /\ batchRow' \in [Batches -> BatchRows \cup {NoBatch}]
         /\ \A c \in Batches : batchRow[c] # NoBatch => batchRow'[c] # NoBatch
BY DEF RowMoves, BatchInv

\* A request reads a row, saves one, or moves an order.
LEMMA AdminStep ==
  ASSUME BatchInv, NEW a \in BatchAdmins, Administer(a)
  PROVE  RowMoves /\ BatchInv'
<1> DEFINE Goes(pcs, b) == /\ admin' = [admin EXCEPT ![a] = admin'[a]]
                           /\ \/ admin'[a] = NoRequest
                              \/ /\ admin'[a] \in RequestsForBatches /\ admin'[a].batch = b
                                 /\ admin'[a].pc \in pcs
                                 /\ admin'[a].pc \in {"save", "count"} => admin'[a].order \in BatchOrders
<1> DEFINE Rows == /\ RowMoves /\ batchRow' \in [Batches -> BatchRows \cup {NoBatch}]
                   /\ \A c \in Batches : batchRow[c] # NoBatch => batchRow'[c] # NoBatch
<1>1. ASSUME NEW b \in Batches, batchRow[b] # NoBatch, Goes({"assign", "complete", "save", "count", "expire", "release"}, b),
             Rows, batchOf' \in [BatchOrders -> Batches \cup {NoBatch}], UNCHANGED <<old, expired>>
      PROVE  RowMoves /\ BatchInv'
  <2>1. \A x \in BatchAdmins : x # a => admin'[x] = admin[x]
    BY <1>1 DEF BatchInv
  <2>2. admin' \in [BatchAdmins -> RequestsForBatches \cup {NoRequest}]
    BY <1>1 DEF BatchInv
  <2>3. \A x \in BatchAdmins : admin'[x] # NoRequest =>
          /\ batchRow'[admin'[x].batch] # NoBatch
          /\ admin'[x].pc \in {"save", "count"} => admin'[x].order \in BatchOrders
    <3>1. SUFFICES ASSUME NEW x \in BatchAdmins, admin'[x] # NoRequest
                   PROVE  /\ batchRow'[admin'[x].batch] # NoBatch
                          /\ admin'[x].pc \in {"save", "count"} => admin'[x].order \in BatchOrders
      OBVIOUS
    <3>2. CASE x = a
      BY <1>1, <3>1, <3>2
    <3>3. CASE x # a
      <4>1. admin[x] \in RequestsForBatches
        BY <2>1, <3>1, <3>3 DEF BatchInv
      <4> QED BY <1>1, <2>1, <3>1, <3>3, <4>1 DEF BatchInv, RequestsForBatches
    <3> QED BY <3>2, <3>3
  <2> QED BY <1>1, <2>2, <2>3 DEF BatchInv
<1>2. ASSUME NEW b \in Batches, AskAssign(a, b) \/ AskComplete(a, b) \/ AskExpire(a, b)
                                \/ \E o \in BatchOrders : AskAddOrder(a, b, o)
      PROVE  RowMoves /\ BatchInv'
  <2> DEFINE Read(pc, order) ==
        /\ batchRow[b] # NoBatch /\ UNCHANGED <<batchRow, batchOf, old, expired, jobFaults>>
        /\ admin' = [admin EXCEPT ![a] = [pc |-> pc, batch |-> b, row |-> batchRow[b], order |-> order]]
  <2>1. \A pc, statuses, order : ReadBatch(a, b, pc, statuses, order) => Read(pc, order)
    BY DEF ReadBatch
  <2>2. \/ \E pc \in {"assign", "complete", "expire"} : Read(pc, NoBatch)
        \/ \E order \in BatchOrders : Read("save", order)
    <3> HIDE DEF Read
    <3> QED BY <1>2, <2>1 DEF AskAssign, AskComplete, AskExpire, AskAddOrder
  <2>3. PICK pc \in {"assign", "complete", "save", "expire"}, order \in BatchOrders \cup {NoBatch} :
          Read(pc, order) /\ (pc = "save" => order \in BatchOrders)
    <3> HIDE DEF Read
    <3> QED BY <2>2
  <2>4. /\ batchRow[b] # NoBatch /\ UNCHANGED <<batchRow, batchOf, old, expired, jobFaults>>
        /\ admin' = [admin EXCEPT ![a] = [pc |-> pc, batch |-> b, row |-> batchRow[b], order |-> order]]
    BY <2>3
  <2>5. batchRow[b] \in BatchRows
    BY <2>4 DEF BatchInv
  <2>6. admin'[a] = [pc |-> pc, batch |-> b, row |-> batchRow[b], order |-> order]
    BY <2>4 DEF BatchInv
  <2>7. Goes({"assign", "complete", "save", "count", "expire", "release"}, b)
    <3>1. PICK d : d = [pc |-> pc, batch |-> b, row |-> batchRow[b], order |-> order]
      OBVIOUS
    <3>2. /\ d \in RequestsForBatches /\ d.batch = b /\ d.pc = pc /\ d.order = order
      BY <2>3, <2>5, <3>1 DEF RequestsForBatches
    <3>3. admin'[a] = d /\ admin' = [admin EXCEPT ![a] = d]
      BY <2>4, <2>6, <3>1
    <3> QED BY <2>3, <3>2, <3>3
  <2>8. Rows /\ batchOf' \in [BatchOrders -> Batches \cup {NoBatch}] /\ UNCHANGED <<old, expired>>
    BY <2>4, UnsavedMoves DEF BatchInv
  <2> QED BY <1>1, <2>4, <2>7, <2>8
<1>3. ASSUME admin[a] # NoRequest,
             NEW b \in Batches, b = admin[a].batch, Rows, UNCHANGED <<old, expired>>,
             batchOf' \in [BatchOrders -> Batches \cup {NoBatch}],
             \/ Answers(a)
             \/ \E pc \in {"count", "release"} :
                  Became(a, pc) /\ (pc = "count" => admin[a].order \in BatchOrders)
      PROVE  RowMoves /\ BatchInv'
  <2>1. admin[a] \in RequestsForBatches /\ batchRow[b] # NoBatch
    BY <1>3 DEF BatchInv
  <2>2. Goes({"assign", "complete", "save", "count", "expire", "release"}, b)
    <3>1. CASE Answers(a)
      BY <3>1 DEF Answers, BatchInv
    <3>2. ASSUME NEW pc \in {"count", "release"}, Became(a, pc), pc = "count" => admin[a].order \in BatchOrders
          PROVE  Goes({"assign", "complete", "save", "count", "expire", "release"}, b)
      <4>1. PICK c : c = admin[a]
        OBVIOUS
      <4>2. PICK d : d = [c EXCEPT !.pc = pc]
        OBVIOUS
      <4>3. admin' = [admin EXCEPT ![a] = d] /\ admin'[a] = d
        BY <3>2, <4>1, <4>2 DEF Became, BatchInv
      <4>4. c \in [pc : {"assign", "complete", "save", "count", "expire", "release"}, batch : Batches,
                   row : BatchRows, order : BatchOrders \cup {NoBatch}]
        BY <2>1, <4>1 DEF RequestsForBatches
      <4>5. d \in RequestsForBatches /\ d.pc = pc /\ d.batch = c.batch /\ d.order = c.order
        BY ONLY <4>2, <4>4, pc \in {"count", "release"} DEF RequestsForBatches
      <4> QED BY <1>3, <3>2, <4>1, <4>3, <4>5
    <3> QED BY <1>3, <3>1, <3>2
  <2> QED BY <1>1, <1>3, <2>1, <2>2
<1>4. ASSUME admin[a] # NoRequest
      PROVE  /\ admin[a] \in RequestsForBatches /\ admin[a].batch \in Batches
             /\ admin[a].row \in BatchRows /\ batchRow[admin[a].batch] \in BatchRows
  BY <1>4 DEF BatchInv, RequestsForBatches
<1>5. ASSUME NEW b \in Batches, b = admin[a].batch, admin[a] # NoRequest, UNCHANGED <<batchOf, old, expired>>,
             \/ Answers(a) \/ Became(a, "release"),
             \/ UNCHANGED batchRow
             \/ \E row \in BatchRows : Saved(b, row) /\
                  \/ row.status \in EndedBatch
                  \/ batchRow[b].status = "active" /\ row.status = "delivering"
                  \/ row.status = batchRow[b].status /\ row.courier = batchRow[b].courier
      PROVE  RowMoves /\ BatchInv'
  <2>1. Rows
    BY <1>5, SavedMoves, UnsavedMoves
  <2> QED BY <1>3, <1>5, <2>1 DEF BatchInv
<1>6. ASSUME NEW courier \in BatchCouriers, AssignBatch(a, courier) PROVE RowMoves /\ BatchInv'
  <2>1. admin[a] # NoRequest /\ Answers(a) /\ UNCHANGED <<batchOf, old, expired>>
    BY <1>6 DEF AssignBatch, NoRequest
  <2>2. PICK b \in Batches, row \in BatchRows : b = admin[a].batch /\ row = batchRow[b]
    BY <1>4, <2>1
  <2>3. PICK new : new = [[row EXCEPT !.status = "delivering"] EXCEPT !.courier = courier]
    OBVIOUS
  <2>4. new \in BatchRows /\ new.status = "delivering"
    <3>1. "delivering" \in OpenBatch \cup EndedBatch
      BY DEF OpenBatch
    <3>2. row \in [status : OpenBatch \cup EndedBatch, courier : BatchCouriers \cup {NoCourier}, total : Nat]
      BY DEF BatchRows
    <3> QED BY ONLY <2>3, <3>1, <3>2, courier \in BatchCouriers DEF BatchRows
  <2>5. UNCHANGED batchRow \/ (batchRow[b].status = "active" /\ Saved(b, new))
    <3>1. CASE batchRow[b].status = "active"
      BY <1>6, <2>2, <2>3, <3>1 DEF AssignBatch
    <3>2. CASE batchRow[b].status # "active"
      BY <1>6, <2>2, <3>2 DEF AssignBatch
    <3> QED BY <3>1, <3>2
  <2> QED BY <1>5, <2>1, <2>2, <2>4, <2>5
<1>7. ASSUME CompleteBatch(a) \/ ForceExpireBatch(a) PROVE RowMoves /\ BatchInv'
  <2>1. admin[a] # NoRequest /\ UNCHANGED <<batchOf, old, expired>> /\ (Answers(a) \/ Became(a, "release"))
    BY <1>7 DEF CompleteBatch, ForceExpireBatch, NoRequest
  <2>2. PICK b \in Batches, row \in BatchRows : b = admin[a].batch /\ row = admin[a].row
    BY <1>4, <2>1
  <2>3. PICK s \in EndedBatch : Saved(b, [row EXCEPT !.status = s])
    BY <1>7, <2>2 DEF CompleteBatch, ForceExpireBatch, EndedBatch
  <2>4. PICK new : new = [row EXCEPT !.status = s]
    OBVIOUS
  <2>5. new \in BatchRows /\ new.status = s
    <3>1. row \in [status : OpenBatch \cup EndedBatch, courier : BatchCouriers \cup {NoCourier}, total : Nat]
      BY DEF BatchRows
    <3> QED BY ONLY <2>4, <3>1, s \in EndedBatch DEF BatchRows
  <2> QED BY <1>5, <2>1, <2>2, <2>3, <2>4, <2>5
<1>8. ASSUME CountOrder(a) PROVE RowMoves /\ BatchInv'
  <2>1. admin[a] # NoRequest /\ Answers(a) /\ UNCHANGED <<batchOf, old, expired>>
    BY <1>8 DEF CountOrder, NoRequest
  <2>2. PICK b \in Batches, row \in BatchRows : b = admin[a].batch /\ row = batchRow[b]
    BY <1>4, <2>1
  <2>3. PICK new : new = [row EXCEPT !.total = row.total + 1]
    OBVIOUS
  <2>4. new \in BatchRows /\ new.status = row.status /\ new.courier = row.courier
    <3>1. row \in [status : OpenBatch \cup EndedBatch, courier : BatchCouriers \cup {NoCourier}, total : Nat]
      BY DEF BatchRows
    <3> QED BY ONLY <2>3, <3>1 DEF BatchRows
  <2>5. Saved(b, new)
    BY <1>8, <2>2, <2>3 DEF CountOrder
  <2> QED BY <1>5, <2>1, <2>2, <2>4, <2>5
<1>9. ASSUME AddOrderToBatch(a) \/ ReleaseOrders(a) \/ GiveUpBatch(a) PROVE RowMoves /\ BatchInv'
  <2>1. admin[a] # NoRequest /\ UNCHANGED <<batchRow, old, expired>>
    BY <1>9 DEF AddOrderToBatch, ReleaseOrders, GiveUpBatch, NoRequest
  <2>2. PICK b \in Batches : b = admin[a].batch
    BY <1>4, <2>1
  <2>3. batchOf' \in [BatchOrders -> Batches \cup {NoBatch}]
    <3>1. batchOf \in [BatchOrders -> Batches \cup {NoBatch}]
      BY DEF BatchInv
    <3>2. CASE AddOrderToBatch(a)
      BY <2>2, <3>1, <3>2 DEF AddOrderToBatch
    <3>3. CASE ReleaseOrders(a)
      BY <3>1, <3>3 DEF ReleaseOrders
    <3>4. CASE GiveUpBatch(a)
      BY <3>1, <3>4 DEF GiveUpBatch
    <3> QED BY <1>9, <3>2, <3>3, <3>4
  <2>4. Answers(a) \/ (Became(a, "count") /\ admin[a].order \in BatchOrders)
    BY <1>9, <2>1 DEF AddOrderToBatch, ReleaseOrders, GiveUpBatch, BatchInv
  <2>5. Rows
    BY <2>1, UnsavedMoves
  <2> QED BY <1>3, <2>1, <2>2, <2>3, <2>4, <2>5
<1> QED BY <1>2, <1>6, <1>7, <1>8, <1>9 DEF Administer

\* The job saves rows of its own list, and finds only old ones.
LEMMA BatchStep ==
  ASSUME BatchInv, BatchesNext
  PROVE  RowMoves /\ BatchInv'
<1> DEFINE Rows == /\ RowMoves /\ batchRow' \in [Batches -> BatchRows \cup {NoBatch}]
                   /\ \A c \in Batches : batchRow[c] # NoBatch => batchRow'[c] # NoBatch
<1>1. ASSUME Rows, UNCHANGED <<batchOf, admin>>, old' \subseteq Batches, expired' \subseteq old',
             \A b \in old' : batchRow[b] # NoBatch
      PROVE  RowMoves /\ BatchInv'
  <2>1. \A a \in BatchAdmins : admin[a] # NoRequest => admin[a].batch \in Batches
    BY DEF BatchInv, RequestsForBatches
  <2> QED BY <1>1, <2>1 DEF BatchInv
<1>2. ASSUME NEW b \in Batches, NEW courier \in BatchCouriers \cup {NoCourier}, CreateBatch(b, courier)
      PROVE  RowMoves /\ BatchInv'
  <2>1. PICK new : new = [status |-> "active", courier |-> courier, total |-> 0]
    OBVIOUS
  <2>2. new \in BatchRows
    BY <2>1 DEF BatchRows, OpenBatch
  <2>3. Saved(b, new) /\ batchRow[b] = NoBatch /\ UNCHANGED <<batchOf, old, admin, expired>>
    BY <1>2, <2>1 DEF CreateBatch
  <2> QED BY <1>1, <2>2, <2>3, SavedMoves DEF BatchInv
<1>3. ASSUME NEW b \in Batches, ExpireBatch(b) PROVE RowMoves /\ BatchInv'
  <2>1. /\ UNCHANGED <<batchOf, old, admin>> /\ expired' \subseteq expired
        /\ b \in expired /\ (UNCHANGED batchRow \/ Saved(b, [batchRow[b] EXCEPT !.status = ExpireAction]))
    BY <1>3 DEF ExpireBatch
  <2>2. PICK row \in BatchRows : row = batchRow[b]
    BY <2>1 DEF BatchInv
  <2>3. PICK new : new = [row EXCEPT !.status = ExpireAction]
    OBVIOUS
  <2>4. ExpireAction \in EndedBatch
    BY BatchAssumption DEF EndedBatch
  <2>5. new \in BatchRows /\ new.status = ExpireAction
    <3>1. row \in [status : OpenBatch \cup EndedBatch, courier : BatchCouriers \cup {NoCourier}, total : Nat]
      BY DEF BatchRows
    <3> QED BY ONLY <2>3, <2>4, <3>1 DEF BatchRows
  <2>6. Rows
    BY <2>1, <2>2, <2>3, <2>4, <2>5, SavedMoves, UnsavedMoves
  <2> QED BY <1>1, <2>1, <2>6 DEF BatchInv
<1>4. ASSUME NEW b \in Batches, AgeBatch(b) PROVE RowMoves /\ BatchInv'
  BY <1>1, <1>4, UnsavedMoves DEF AgeBatch, BatchInv
<1>5. ASSUME FindExpired PROVE RowMoves /\ BatchInv'
  BY <1>1, <1>5, UnsavedMoves DEF FindExpired, Expirable, BatchInv
<1> QED BY <1>2, <1>3, <1>4, <1>5, AdminStep DEF BatchesNext

\* A trip keeps its courier until it ends, a batch that ended stays so, and the
\* job ends no batch younger than the age limit, whoever assigns, fills,
\* completes and expires it at once (batch.go, batch_expiry.go).
THEOREM BatchesAreKept == BatchesSpec => BatchesKept
<1>1. BatchesInit => BatchInv
  BY DEF BatchesInit, BatchInv
<1>2. BatchInv /\ [BatchesNext]_batchVars => BatchInv'
  <2>1. BatchInv /\ UNCHANGED batchVars => BatchInv'
    BY DEF BatchInv, batchVars
  <2> QED BY <2>1, BatchStep
<1>3. BatchInv => BatchTypeOK /\ YoungSpared
  <2>1. BatchInv => \A a \in BatchAdmins : admin[a].pc \in {"idle", "assign", "complete", "save", "count", "expire", "release"}
    <3>1. SUFFICES ASSUME BatchInv, NEW a \in BatchAdmins
                   PROVE  admin[a].pc \in {"idle", "assign", "complete", "save", "count", "expire", "release"}
      OBVIOUS
    <3>2. admin[a] = NoRequest \/ admin[a] \in RequestsForBatches
      BY <3>1 DEF BatchInv
    <3> QED BY <3>2 DEF NoRequest, RequestsForBatches
  <2> QED BY <2>1 DEF BatchInv, BatchTypeOK, YoungSpared
<1>4. BatchInv /\ [BatchesNext]_batchVars => RowMoves \/ UNCHANGED batchVars
  BY BatchStep
<1> DEFINE Trip == \A b \in Batches :
             batchRow[b] # NoBatch /\ batchRow[b].status = "delivering" /\ batchRow'[b].status \in OpenBatch
               => batchRow'[b].status = "delivering" /\ batchRow'[b].courier = batchRow[b].courier
           End == \A b \in Batches :
             batchRow[b] # NoBatch /\ batchRow[b].status \in EndedBatch => batchRow'[b].status \in EndedBatch
<1>5. RowMoves => Trip /\ End
  BY DEF RowMoves, OpenBatch, EndedBatch
<1>6. BatchInv /\ [BatchesNext]_batchVars => (Trip \/ UNCHANGED batchVars) /\ (End \/ UNCHANGED batchVars)
  BY <1>4, <1>5
<1> QED BY <1>1, <1>2, <1>3, <1>6, PTL DEF BatchesSpec, BatchesKept, OneCourierPerTrip, EndedBatchStays

-----------------------------------------------------------------------------
(* The split of a zone.  First what the steps of the calendar come to: the     *)
(* recursion has a solution, and so many steps and then so many more are all   *)
(* of them at once, because nothing leads away from the target.                *)

LEMMA LeastNumber ==
  ASSUME NEW S, S \subseteq Nat, S # {}
  PROVE  \E x \in S : \A y \in S : x <= y
<1> DEFINE Below == {ss \in Nat \X Nat : ss[1] < ss[2]}
<1>1. IsWellFoundedOn(Below, Nat)
  BY NatLessThanWellFounded DEF OpToRel
<1>2. PICK x \in S : \A y \in S : ~(<<y, x>> \in Below)
  <2> HIDE DEF Below
  <2> QED  BY <1>1, WFMin
<1>3. \A y \in S : y \in Nat /\ x \in Nat
  OBVIOUS
<1>4. \A y \in S : ~(y < x)
  BY <1>2, <1>3
<1> HIDE DEF Below
<1> QED  BY <1>3, <1>4

Splits == Int \X Int
NextSplit(split) == <<split[1] + StepPlatform, split[2] + StepStore>>
Target == <<TargetPlatform, TargetStore>>

\* One turn of the loop over the steps, if f has the rest of them.
Turn(f, n) ==
  [split \in Splits |->
     IF n = 0 THEN split ELSE IF PastTarget(NextSplit(split)[1]) THEN Target ELSE f[n - 1][NextSplit(split)]]

LEMMA TurnsUpTo ==
  ASSUME NEW m \in Nat
  PROVE  \E f : f = [n \in 0..m |-> Turn(f, n)]
<1> DEFINE Bad == {k \in Nat : ~\E f : f = [n \in 0..k |-> Turn(f, n)]}
<1>1. SUFFICES ASSUME Bad # {} PROVE FALSE
  OBVIOUS
<1>2. PICK k \in Bad : \A j \in Bad : k <= j
  <2>1. Bad \subseteq Nat
    OBVIOUS
  <2> HIDE DEF Bad
  <2> QED BY <1>1, <2>1, LeastNumber
<1>3. k \in Nat
  OBVIOUS
<1>4. CASE k = 0
  <2>1. PICK f : f = [n \in 0..0 |-> [split \in Splits |-> split]]
    OBVIOUS
  <2>2. \A n \in 0..0 : Turn(f, n) = [split \in Splits |-> split]
    BY DEF Turn
  <2>3. f = [n \in 0..0 |-> Turn(f, n)]
    BY <2>1, <2>2
  <2> QED BY <1>4, <2>3
<1>5. CASE k # 0
  <2>1. k - 1 \in Nat /\ k - 1 \notin Bad
    BY <1>2, <1>3, <1>5
  <2>2. PICK f : f = [n \in 0..(k - 1) |-> Turn(f, n)]
    BY <2>1
  <2>3. PICK g : g = [n \in 0..k |-> IF n = k THEN Turn(f, k) ELSE f[n]]
    OBVIOUS
  <2>4. ASSUME NEW n \in 0..k PROVE g[n] = Turn(g, n)
    <3>1. n # 0 => g[n - 1] = f[n - 1]
      BY <2>3, <2>4, <1>3
    <3>2. Turn(g, n) = Turn(f, n)
      BY <3>1 DEF Turn
    <3>3. n # k => f[n] = Turn(f, n)
      BY <2>2, <2>4, <1>3
    <3> QED BY <2>3, <2>4, <3>2, <3>3
  <2>5. g = [n \in 0..k |-> Turn(g, n)]
    BY <2>3, <2>4
  <2> QED BY <2>5
<1> QED BY <1>4, <1>5

LEMMA StepsAreTurns == AfterSteps = [n \in 0..MaxMonth |-> Turn(AfterSteps, n)]
<1>1. AfterSteps = CHOOSE f : f = [n \in 0..MaxMonth |-> Turn(f, n)]
  BY DEF AfterSteps, Turn, Splits, NextSplit, Target
<1>2. \E f : f = [n \in 0..MaxMonth |-> Turn(f, n)]
  BY TurnsUpTo, ZoneAssumption
<1> QED BY <1>1, <1>2

\* No step, the last one, and the one with more behind it.
LEMMA FirstStep ==
  ASSUME NEW n \in 0..MaxMonth, NEW split \in Splits
  PROVE  /\ n = 0 => AfterSteps[n][split] = split
         /\ n # 0 /\ PastTarget(NextSplit(split)[1]) => AfterSteps[n][split] = Target
         /\ n # 0 /\ ~PastTarget(NextSplit(split)[1]) => AfterSteps[n][split] = AfterSteps[n - 1][NextSplit(split)]
<1>1. PICK f : f = AfterSteps
  OBVIOUS
<1>2. f = [i \in 0..MaxMonth |-> Turn(f, i)]
  BY <1>1, StepsAreTurns
<1>3. f[n] = Turn(f, n)
  BY <1>2
<1>4. f[n][split] = IF n = 0 THEN split ELSE IF PastTarget(NextSplit(split)[1]) THEN Target ELSE f[n - 1][NextSplit(split)]
  BY <1>3 DEF Turn
<1> QED BY <1>1, <1>4

LEMMA NextIsSplit ==
  ASSUME NEW split \in Splits
  PROVE  NextSplit(split) \in Splits /\ Target \in Splits
BY ZoneAssumption DEF NextSplit, Splits, Target

\* Who begins short of the target stays there.
Short(split) == split \in Splits /\ ~PastTarget(split[1])

LEMMA StepsStayShort ==
  ASSUME NEW m \in 0..MaxMonth, NEW start, Short(start)
  PROVE  Short(AfterSteps[m][start])
<1> DEFINE Bad == {n \in 0..MaxMonth : \E split \in Splits : Short(split) /\ ~Short(AfterSteps[n][split])}
<1>1. SUFFICES ASSUME Bad # {} PROVE FALSE
  BY DEF Short
<1>2. PICK n \in Bad : \A j \in Bad : n <= j
  <2>1. Bad \subseteq Nat
    OBVIOUS
  <2> HIDE DEF Bad
  <2> QED BY <1>1, <2>1, LeastNumber
<1>3. PICK split \in Splits : Short(split) /\ ~Short(AfterSteps[n][split])
  OBVIOUS
<1>4. n # 0 /\ n \in 0..MaxMonth
  BY <1>3, FirstStep
<1>5. Short(Target)
  BY NextIsSplit, <1>3, ZoneAssumption DEF Short, Target, PastTarget
<1>6. ~PastTarget(NextSplit(split)[1]) /\ AfterSteps[n][split] = AfterSteps[n - 1][NextSplit(split)]
  BY <1>3, <1>4, <1>5, FirstStep
<1>7. Short(NextSplit(split))
  BY <1>6, NextIsSplit DEF Short
<1>8. n - 1 \in Bad
  BY <1>3, <1>4, <1>6, <1>7, ZoneAssumption DEF Short
<1> QED BY <1>2, <1>4, <1>8, ZoneAssumption

\* The target is not left any more.
LEMMA TargetStays ==
  ASSUME NEW n \in 0..MaxMonth, StepPlatform # 0
  PROVE  AfterSteps[n][Target] = Target
<1>1. Target \in Splits /\ PastTarget(NextSplit(Target)[1])
  BY ZoneAssumption DEF Target, NextSplit, PastTarget, Splits
<1> QED BY <1>1, FirstStep

LEMMA StepsAdd ==
  ASSUME NEW n \in 0..MaxMonth, NEW k \in 0..MaxMonth, n + k \in 0..MaxMonth, NEW start \in Splits
  PROVE  AfterSteps[n + k][start] = AfterSteps[k][AfterSteps[n][start]]
<1> DEFINE Bad == {i \in 0..MaxMonth : i + k \in 0..MaxMonth /\
                     \E split \in Splits : AfterSteps[i + k][split] # AfterSteps[k][AfterSteps[i][split]]}
<1>1. SUFFICES ASSUME Bad # {} PROVE FALSE
  OBVIOUS
<1>2. PICK i \in Bad : \A j \in Bad : i <= j
  <2>1. Bad \subseteq Nat
    OBVIOUS
  <2> HIDE DEF Bad
  <2> QED BY <1>1, <2>1, LeastNumber
<1>3. PICK split \in Splits : AfterSteps[i + k][split] # AfterSteps[k][AfterSteps[i][split]]
  OBVIOUS
<1>4. i \in 0..MaxMonth /\ i + k \in 0..MaxMonth /\ MaxMonth \in Nat
  BY ZoneAssumption
<1>5. i # 0
  BY <1>3, <1>4, FirstStep
<1>6. i - 1 \in 0..MaxMonth /\ (i - 1) + k \in 0..MaxMonth /\ (i + k) - 1 = (i - 1) + k /\ i + k # 0
  BY <1>4, <1>5
<1>7. CASE PastTarget(NextSplit(split)[1])
  <2>1. AfterSteps[i][split] = Target /\ AfterSteps[i + k][split] = Target
    BY <1>4, <1>5, <1>6, <1>7, FirstStep
  <2>2. StepPlatform # 0
    BY <1>7, ZoneAssumption DEF PastTarget
  <2> QED BY <1>3, <2>1, <2>2, TargetStays
<1>8. CASE ~PastTarget(NextSplit(split)[1])
  <2>1. AfterSteps[i][split] = AfterSteps[i - 1][NextSplit(split)]
    BY <1>4, <1>5, <1>8, FirstStep
  <2>2. AfterSteps[i + k][split] = AfterSteps[(i - 1) + k][NextSplit(split)]
    BY <1>4, <1>6, <1>8, FirstStep
  <2>3. i - 1 \in Bad
    BY <1>3, <1>6, <2>1, <2>2, NextIsSplit
  <2> QED BY <1>2, <1>4, <2>3
<1> QED BY <1>7, <1>8

LEMMA StepsOfMonth ==
  ASSUME NEW m \in 0..MaxMonth, NEW last \in 0..MaxMonth, last <= m
  PROVE  StepsUntil(last) \in 0..MaxMonth /\ StepsUntil(m) \in 0..MaxMonth
BY ZoneAssumption DEF StepsUntil

-----------------------------------------------------------------------------
(* The row of a zone, and what jobs and handlers hold of it.                   *)

\* What a request or a job may name of a row.
Columns(change) ==
  \A f \in DOMAIN change :
    \/ f \in {"platform", "store", "min", "radius", "max"} /\ change[f] \in Int
    \/ f = "density" /\ change[f] \in DOMAIN Poisson
    \/ f = "active" /\ change[f] \in BOOLEAN

LEMMA OverIsZone ==
  ASSUME NEW row \in Zone, NEW change, Columns(change)
  PROVE  /\ Over(change, row) \in Zone /\ Over(change, row).last = row.last
         /\ "platform" \notin DOMAIN change /\ "store" \notin DOMAIN change =>
              Over(change, row).platform = row.platform /\ Over(change, row).store = row.store
         /\ "platform" \in DOMAIN change /\ "store" \in DOMAIN change =>
              Over(change, row).platform = change.platform /\ Over(change, row).store = change.store
<1> DEFINE new == Over(change, row)
<1>1. DOMAIN row = {"platform", "store", "last", "min", "radius", "max", "density", "active"}
  BY DEF Zone
<1>2. new = [f \in DOMAIN row |-> IF f \in DOMAIN change THEN change[f] ELSE row[f]]
  BY DEF Over
<1> HIDE DEF new
<1>3. /\ new.platform = IF "platform" \in DOMAIN change THEN change.platform ELSE row.platform
      /\ new.store = IF "store" \in DOMAIN change THEN change.store ELSE row.store
      /\ new.last = row.last
  BY <1>1, <1>2 DEF Columns
<1>4. /\ new.min = IF "min" \in DOMAIN change THEN change.min ELSE row.min
      /\ new.radius = IF "radius" \in DOMAIN change THEN change.radius ELSE row.radius
      /\ new.max = IF "max" \in DOMAIN change THEN change.max ELSE row.max
      /\ new.density = IF "density" \in DOMAIN change THEN change.density ELSE row.density
      /\ new.active = IF "active" \in DOMAIN change THEN change.active ELSE row.active
  BY <1>1, <1>2
<1>5. /\ row.platform \in Int /\ row.store \in Int /\ row.last \in 0..MaxMonth
      /\ row.min \in Int /\ row.radius \in Int /\ row.max \in Int
      /\ row.density \in DOMAIN Poisson /\ row.active \in BOOLEAN
  BY DEF Zone
<1>6. /\ new.platform \in Int /\ new.store \in Int /\ new.last \in 0..MaxMonth
      /\ new.min \in Int /\ new.radius \in Int /\ new.max \in Int
      /\ new.density \in DOMAIN Poisson /\ new.active \in BOOLEAN
  BY <1>3, <1>4, <1>5 DEF Columns
<1>7. new = [platform |-> new.platform, store |-> new.store, last |-> new.last, min |-> new.min,
             radius |-> new.radius, max |-> new.max, density |-> new.density, active |-> new.active]
  BY <1>1, <1>2
<1>8. new \in Zone
  BY <1>6, <1>7 DEF Zone
<1> QED BY <1>3, <1>8 DEF new

\* A percentage pair that goes with a date of the past.
Dated(split) == split.last <= month /\ <<split.platform, split.store>> = Scheduled(split.last)

SplitHeld(h) == h.platform \in Int /\ h.store \in Int /\ h.last \in 0..MaxMonth

RadiusHeld(h) == h.min \in Int /\ h.radius \in Int /\ h.max \in Int /\ h.density \in DOMAIN Poisson

\* The administrator holds a row, the decay job a split and then the one of this
\* month, the calibration radii and then one.
Holds(j) ==
  /\ DOMAIN zjob[j] = {"pc", "holds", "stale"}
  /\ zjob[j].pc \in {"idle", "read", "decided"} /\ zjob[j].stale \in BOOLEAN
  /\ j \in Admins /\ zjob[j].pc = "decided" => zjob[j].holds \in Zone /\ Dated(zjob[j].holds)
  /\ j \in DecayJobs /\ zjob[j].pc = "read" => SplitHeld(zjob[j].holds) /\ Dated(zjob[j].holds)
  /\ j \in DecayJobs /\ zjob[j].pc = "decided" =>
       zjob[j].holds = [platform |-> Scheduled(month)[1], store |-> Scheduled(month)[2]]
  /\ j \in CalibrationJobs /\ zjob[j].pc = "read" => RadiusHeld(zjob[j].holds)
  /\ j \in CalibrationJobs /\ zjob[j].pc = "decided" =>
       DOMAIN zjob[j].holds = {"radius"} /\ zjob[j].holds.radius \in Int

ZoneInv ==
  /\ zone \in Zone /\ Dated(zone) /\ month \in 0..MaxMonth /\ mature \in BOOLEAN /\ raced \in BOOLEAN
  /\ zjob = [j \in ZoneJobs |-> zjob[j]]
  /\ \A j \in ZoneJobs : Holds(j)

LEMMA RawIsNumber ==
  ASSUME NEW z, RadiusHeld(z), NEW many \in BOOLEAN, NEW slow \in BOOLEAN
  PROVE  CalibratedRaw(z, many, slow) \in Int
<1>1. GetSuggestedRadiusByDensity(z, FALSE) \in Int
  BY ZoneAssumption DEF GetSuggestedRadiusByDensity, GetEffectiveRadius, RadiusHeld, Least, Most
<1> DEFINE r0 == IF z.density = 0 THEN z.radius * 1000
                 ELSE GetSuggestedRadiusByDensity(z, FALSE) * 700 + z.radius * 300
<1> DEFINE r1 == IF many THEN (r0 * 11) \div 10 ELSE r0
<1>2. z.radius * 1000 \in Int /\ GetSuggestedRadiusByDensity(z, FALSE) * 700 + z.radius * 300 \in Int
  <2>1. \A x, y \in Int : x * 1000 \in Int /\ y * 700 + x * 300 \in Int
    OBVIOUS
  <2>2. z.radius \in Int
    BY DEF RadiusHeld
  <2> QED BY ONLY <1>1, <2>1, <2>2
<1>3. r0 \in Int
  BY <1>2
<1>4. \A r \in Int : (r * 9) \div 10 \in Int /\ (r * 11) \div 10 \in Int
  OBVIOUS
<1>5. r1 \in Int
  <2> HIDE DEF r0
  <2> QED BY <1>3, <1>4
<1>6. CalibratedRaw(z, many, slow) = IF slow THEN (r1 * 9) \div 10 ELSE r1
  BY DEF CalibratedRaw
<1> HIDE DEF r1
<1> QED BY <1>4, <1>5, <1>6

LEMMA CalibratedIsNumber ==
  ASSUME NEW z, RadiusHeld(z), NEW many \in BOOLEAN, NEW slow \in BOOLEAN
  PROVE  Calibrated(z, many, slow) \in Int
<1>1. ASSUME NEW raw \in Int, NEW low \in Int, NEW high \in Int PROVE (Least(Most(raw, low), high) + 500) \div 1000 \in Int
  BY DEF Least, Most
<1>2. Most(GlobalMin, z.min) * 1000 \in Int /\ Least(GlobalMax, z.max) * 1000 \in Int
  BY DEF Most, Least, GlobalMin, GlobalMax, RadiusHeld
<1>3. PICK raw \in Int, low \in Int, high \in Int :
        /\ raw = CalibratedRaw(z, many, slow)
        /\ low = Most(GlobalMin, z.min) * 1000 /\ high = Least(GlobalMax, z.max) * 1000
  BY RawIsNumber, <1>2
<1>4. Calibrated(z, many, slow) = (Least(Most(raw, low), high) + 500) \div 1000
  BY <1>3 DEF Calibrated
<1> QED BY <1>1, <1>4

\* Calibration stays between the least and the widest radius of the zone.
LEMMA CalibratedIsWithin ==
  ASSUME NEW z, RadiusHeld(z), InOrder(z), NEW many \in BOOLEAN, NEW slow \in BOOLEAN
  PROVE  z.min <= Calibrated(z, many, slow) /\ Calibrated(z, many, slow) <= z.max
<1>1. PICK raw \in Int : raw = CalibratedRaw(z, many, slow)
  BY RawIsNumber
<1>2. PICK a \in Int, b \in Int : a = z.min /\ b = z.max /\ 0 <= a /\ a <= b /\ a <= 200
  BY DEF RadiusHeld, InOrder, GlobalMax
<1>3. PICK low \in Int, high \in Int : low = Most(GlobalMin, z.min) * 1000 /\ high = Least(GlobalMax, z.max) * 1000
  BY <1>2 DEF Most, Least, GlobalMin, GlobalMax
<1>4. low >= a * 1000 /\ high >= a * 1000 /\ high <= b * 1000
  BY <1>2, <1>3 DEF Most, Least, GlobalMin, GlobalMax
<1>5. PICK x \in Int : x = Least(Most(raw, low), high)
  BY DEF Least, Most
<1>6. a * 1000 <= x /\ x <= b * 1000
  BY <1>4, <1>5 DEF Least, Most
<1>7. a <= (x + 500) \div 1000 /\ (x + 500) \div 1000 <= b
  BY <1>6
<1>8. Calibrated(z, many, slow) = (x + 500) \div 1000
  BY <1>1, <1>3, <1>5 DEF Calibrated
<1> QED BY <1>2, <1>7, <1>8

\* What nobody changed is still so, and so is what one job holds now.
LEMMA OthersHold ==
  ASSUME ZoneInv, NEW j \in ZoneJobs, UNCHANGED <<zone, month, mature, raced>>,
         NEW t, t = [pc |-> t.pc, holds |-> t.holds, stale |-> t.stale],
         zjob' = [zjob EXCEPT ![j] = t], Holds(j)'
  PROVE  ZoneInv'
<1>1. ASSUME NEW i \in ZoneJobs, i # j PROVE Holds(i)'
  <2>1. zjob'[i] = zjob[i] /\ Holds(i)
    BY <1>1 DEF ZoneInv
  <2> QED BY <2>1 DEF Holds, Dated
<1>2. Dated(zone)'
  BY DEF ZoneInv, Dated
<1>3. zjob' = [i \in ZoneJobs |-> zjob'[i]]
  BY DEF ZoneInv
<1> QED BY <1>1, <1>2, <1>3 DEF ZoneInv

LEMMA ReadsKeeps ==
  ASSUME ZoneInv, NEW j \in ZoneJobs, NEW pc, NEW h, Reads(j, pc, h),
         \/ j \in Admins /\ pc = "decided" /\ h \in Zone /\ Dated(h)
         \/ j \in DecayJobs /\ pc = "read" /\ SplitHeld(h) /\ Dated(h)
         \/ j \in CalibrationJobs /\ pc = "read" /\ RadiusHeld(h)
  PROVE  ZoneInv'
<1>1. PICK t : t = [pc |-> pc, holds |-> h, stale |-> FALSE]
  OBVIOUS
<1>2. zjob' = [zjob EXCEPT ![j] = t] /\ UNCHANGED <<zone, month, mature, raced>>
  BY <1>1 DEF Reads
<1>3. zjob'[j] = t
  BY <1>2 DEF ZoneInv
<1>4. Holds(j)'
  <2>1. \/ j \in Admins /\ j \notin DecayJobs /\ j \notin CalibrationJobs
        \/ j \in DecayJobs /\ j \notin Admins /\ j \notin CalibrationJobs
        \/ j \in CalibrationJobs /\ j \notin Admins /\ j \notin DecayJobs
    BY ZoneAssumption DEF ZoneJobs
  <2>2. Dated(h) => h.last <= month' /\ <<h.platform, h.store>> = Scheduled(h.last)
    BY <1>2 DEF Dated
  <2> QED BY <1>1, <1>3, <2>1, <2>2 DEF Holds, Dated
<1> QED BY <1>1, <1>2, <1>4, OthersHold

LEMMA DecidesKeeps ==
  ASSUME ZoneInv, NEW j \in ZoneJobs, NEW changes \in BOOLEAN, NEW h, Decides(j, changes, h), zjob[j].pc = "read",
         changes => \/ j \in DecayJobs /\ h = [platform |-> Scheduled(month)[1], store |-> Scheduled(month)[2]]
                    \/ j \in CalibrationJobs /\ DOMAIN h = {"radius"} /\ h.radius \in Int,
         j \notin Admins
  PROVE  ZoneInv'
<1>1. PICK t : t = IF changes THEN [pc |-> "decided", holds |-> h, stale |-> zjob[j].stale] ELSE Rest
  OBVIOUS
<1>2. zjob' = [zjob EXCEPT ![j] = t] /\ UNCHANGED <<zone, month, mature, raced>>
  BY <1>1 DEF Decides
<1>3. zjob'[j] = t /\ zjob[j].stale \in BOOLEAN
  BY <1>2 DEF ZoneInv, Holds
<1>4. Holds(j)'
  <2>1. \/ j \in DecayJobs /\ j \notin CalibrationJobs
        \/ j \in CalibrationJobs /\ j \notin DecayJobs
    BY ZoneAssumption DEF ZoneJobs
  <2>2. CASE changes
    <3>1. /\ t.pc = "decided" /\ t.holds = h /\ t.stale = zjob[j].stale
          /\ DOMAIN t = {"pc", "holds", "stale"}
      BY <1>1, <2>2
    <3> QED BY <1>2, <1>3, <2>1, <2>2, <3>1 DEF Holds
  <2>3. CASE ~changes
    BY <1>1, <1>3, <2>3 DEF Holds, Rest
  <2> QED BY <2>2, <2>3
<1>5. t = [pc |-> t.pc, holds |-> t.holds, stale |-> t.stale]
  BY <1>1 DEF Rest
<1> QED BY <1>2, <1>4, <1>5, OthersHold

LEMMA WritesKeeps ==
  ASSUME ZoneInv, NEW j \in ZoneJobs, NEW row \in Zone, Dated(row), Writes(j, row)
  PROVE  ZoneInv'
<1>1. zone' = row /\ UNCHANGED <<month, mature>> /\ raced' \in BOOLEAN
  BY DEF Writes, ZoneInv, Holds
<1>2. zjob' = [i \in ZoneJobs |->
       IF i = j THEN Rest
       ELSE [zjob[i] EXCEPT !.stale = (zjob[i].pc # "idle" /\ (@ \/ row # zone))]]
  BY DEF Writes
<1>3. ASSUME NEW i \in ZoneJobs PROVE Holds(i)'
  <2>1. CASE i = j
    BY <1>2, <2>1 DEF Holds, Rest
  <2>2. CASE i # j
    <3>1. PICK t : t = zjob[i]
      OBVIOUS
    <3>2. DOMAIN t = {"pc", "holds", "stale"} /\ t.stale \in BOOLEAN /\ Holds(i)
      BY <3>1 DEF ZoneInv, Holds
    <3>3. zjob'[i] = [t EXCEPT !.stale = (t.pc # "idle" /\ (t.stale \/ row # zone))]
      BY <1>2, <2>2, <3>1
    <3>4. zjob'[i].pc = t.pc /\ zjob'[i].holds = t.holds /\ zjob'[i].stale \in BOOLEAN
          /\ DOMAIN zjob'[i] = {"pc", "holds", "stale"}
      BY <3>2, <3>3
    <3> QED BY <1>1, <3>1, <3>2, <3>4 DEF Holds, Dated
  <2> QED BY <2>1, <2>2
<1>4. zjob' = [i \in ZoneJobs |-> zjob'[i]]
  BY <1>2
<1>5. Dated(zone)'
  BY <1>1 DEF Dated
<1> QED BY <1>1, <1>3, <1>4, <1>5 DEF ZoneInv

\* Steps that are due come to the split of this month.
LEMMA DueSteps ==
  ASSUME ZoneInv, NEW z, SplitHeld(z), Dated(z), NEW m, m = StepsUntil(month) - StepsUntil(z.last),
         StepsUntil(z.last) < StepsUntil(month)
  PROVE  NewSplit(z, m) = [platform |-> Scheduled(month)[1], store |-> Scheduled(month)[2]]
<1>1. StepsUntil(z.last) \in 0..MaxMonth /\ StepsUntil(month) \in 0..MaxMonth /\ MaxMonth \in Nat
  BY StepsOfMonth, ZoneAssumption DEF ZoneInv, SplitHeld, Dated
<1>2. m \in 0..MaxMonth /\ StepsUntil(z.last) + m = StepsUntil(month)
  BY <1>1
<1>3. <<InitialPlatform, InitialStore>> \in Splits
  BY ZoneAssumption DEF Splits
<1>4. AfterSteps[StepsUntil(month)][<<InitialPlatform, InitialStore>>]
        = AfterSteps[m][AfterSteps[StepsUntil(z.last)][<<InitialPlatform, InitialStore>>]]
  BY <1>1, <1>2, <1>3, StepsAdd
<1>5. Scheduled(month) = AfterSteps[m][<<z.platform, z.store>>]
  BY <1>4 DEF Scheduled, Dated
<1> QED BY <1>5 DEF NewSplit

LEMMA ScheduledIsSplit ==
  ASSUME NEW m \in 0..MaxMonth, ~PastTarget(InitialPlatform)
  PROVE  /\ Scheduled(m) \in Splits /\ ~PastTarget(Scheduled(m)[1])
         /\ <<Scheduled(m)[1], Scheduled(m)[2]>> = Scheduled(m)
<1>1. Short(<<InitialPlatform, InitialStore>>)
  BY ZoneAssumption DEF Short, Splits
<1>2. StepsUntil(m) \in 0..MaxMonth
  BY StepsOfMonth
<1>3. Short(Scheduled(m))
  BY <1>1, <1>2, StepsStayShort DEF Scheduled
<1> QED BY <1>3 DEF Short, Splits

LEMMA ZoneStep ==
  ASSUME SplitLeftToJob, ~TurnsDuringRun, ZoneInv, ZoneNext
  PROVE  ZoneInv'
<1>1. ASSUME NEW a \in Admins, SaveZone(a) PROVE ZoneInv'
  <2>1. a \in ZoneJobs /\ zjob[a].pc = "decided" /\ Writes(a, zjob[a].holds)
    BY <1>1 DEF SaveZone, Writes, ZoneJobs
  <2>2. zjob[a].holds \in Zone /\ Dated(zjob[a].holds)
    BY <2>1, <1>1 DEF ZoneInv, Holds
  <2> QED BY <2>1, <2>2, WritesKeeps
<1>2. ASSUME NEW a \in Admins, NEW patch \in Patches, ReadZone(a, patch) PROVE ZoneInv'
  <2>1. Columns(patch) /\ "platform" \notin DOMAIN patch /\ "store" \notin DOMAIN patch
    BY ZoneAssumption DEF Columns, SplitLeftToJob
  <2>2. PICK h : h = Over(patch, zone)
    OBVIOUS
  <2>3. h \in Zone /\ h.last = zone.last /\ h.platform = zone.platform /\ h.store = zone.store
    BY <2>1, <2>2, OverIsZone DEF ZoneInv
  <2>4. Dated(h)
    BY <2>3 DEF ZoneInv, Dated
  <2>5. Reads(a, "decided", h) /\ a \in ZoneJobs
    BY <1>2, <2>2 DEF ReadZone, ZoneJobs
  <2> QED BY <2>3, <2>4, <2>5, ReadsKeeps
<1>3. ASSUME NEW d \in DecayJobs, FetchSplitZone(d) PROVE ZoneInv'
  <2>1. PICK h : h = SplitOf(zone)
    OBVIOUS
  <2>2. SplitHeld(h) /\ Dated(h)
    BY <2>1 DEF SplitOf, SplitHeld, ZoneInv, Zone, Dated
  <2>3. Reads(d, "read", h) /\ d \in ZoneJobs
    BY <1>3, <2>1 DEF FetchSplitZone, ZoneJobs
  <2> QED BY <2>2, <2>3, ReadsKeeps
<1>4. ASSUME NEW d \in DecayJobs, Decay(d) PROVE ZoneInv'
  <2>1. PICK z : z = zjob[d].holds
    OBVIOUS
  <2>2. PICK changes \in BOOLEAN : changes <=> StepsUntil(z.last) < StepsUntil(month) /\ mature
    OBVIOUS
  <2>3. PICK h : h = NewSplit(z, IF StepsUntil(z.last) < StepsUntil(month) THEN StepsUntil(month) - StepsUntil(z.last) ELSE 0)
    OBVIOUS
  <2>4. d \in ZoneJobs /\ zjob[d].pc = "read" /\ d \notin Admins
    BY <1>4, ZoneAssumption DEF Decay, ZoneJobs
  <2>5. Decides(d, changes, h)
    BY <1>4, <2>1, <2>2, <2>3 DEF Decay, Decides
  <2>6. SplitHeld(z) /\ Dated(z)
    BY <2>1, <2>4 DEF ZoneInv, Holds
  <2>7. changes => h = [platform |-> Scheduled(month)[1], store |-> Scheduled(month)[2]]
    BY <2>2, <2>3, <2>6, DueSteps
  <2> QED BY <2>4, <2>5, <2>7, DecidesKeeps
<1>5. ASSUME NEW d \in DecayJobs, SaveSplit(d) PROVE ZoneInv'
  <2>1. PICK dated : dated = [zone EXCEPT !.last = month]
    OBVIOUS
  <2>2. zone \in Zone /\ month \in 0..MaxMonth
    BY DEF ZoneInv
  <2>3. dated \in Zone /\ dated.last = month
    BY <2>1, <2>2 DEF Zone
  <2>4. PICK h : h = zjob[d].holds
    OBVIOUS
  <2>5. PICK row : row = Over(h, dated)
    OBVIOUS
  <2>6. d \in ZoneJobs /\ Writes(d, row) /\ zjob[d].pc = "decided"
    BY <1>5, <2>1, <2>4, <2>5 DEF SaveSplit, Writes, ZoneJobs
  <2>7. h = [platform |-> Scheduled(month)[1], store |-> Scheduled(month)[2]]
    BY <2>4, <2>6 DEF ZoneInv, Holds
  <2>8. Scheduled(month) \in Splits /\ <<Scheduled(month)[1], Scheduled(month)[2]>> = Scheduled(month)
    BY <2>2, ScheduledIsSplit DEF SplitLeftToJob
  <2>9. Columns(h) /\ "platform" \in DOMAIN h /\ "store" \in DOMAIN h
    BY <2>7, <2>8 DEF Columns, Splits
  <2>10. row \in Zone /\ row.last = month /\ row.platform = Scheduled(month)[1] /\ row.store = Scheduled(month)[2]
    BY <2>3, <2>5, <2>7, <2>9, OverIsZone
  <2>11. Dated(row)
    BY <2>2, <2>8, <2>10, ZoneAssumption DEF Dated
  <2> QED BY <2>6, <2>10, <2>11, WritesKeeps
<1>6. ASSUME NEW k \in CalibrationJobs, FetchZone(k) PROVE ZoneInv'
  <2>1. PICK h : h = RadiusOf(zone)
    OBVIOUS
  <2>2. RadiusHeld(h)
    BY <2>1 DEF RadiusOf, RadiusHeld, ZoneInv, Zone
  <2>3. Reads(k, "read", h) /\ k \in ZoneJobs
    BY <1>6, <2>1 DEF FetchZone, ZoneJobs
  <2> QED BY <2>2, <2>3, ReadsKeeps
<1>7. ASSUME NEW k \in CalibrationJobs, NEW many \in BOOLEAN, NEW slow \in BOOLEAN, Calibrate(k, many, slow)
      PROVE ZoneInv'
  <2>1. PICK z : z = zjob[k].holds
    OBVIOUS
  <2>2. PICK r : r = Calibrated(z, many, slow)
    OBVIOUS
  <2>3. k \in ZoneJobs /\ zjob[k].pc = "read" /\ k \notin Admins /\ Decides(k, r # z.radius, [radius |-> r])
    BY <1>7, <2>1, <2>2, ZoneAssumption DEF Calibrate, ZoneJobs
  <2>4. r \in Int
    BY <2>1, <2>2, <2>3, CalibratedIsNumber DEF ZoneInv, Holds
  <2>5. PICK h : h = [radius |-> r]
    OBVIOUS
  <2>6. DOMAIN h = {"radius"} /\ h.radius \in Int
    BY <2>4, <2>5
  <2>7. PICK changes \in BOOLEAN : changes <=> r # z.radius
    OBVIOUS
  <2>8. Decides(k, changes, h)
    BY <2>3, <2>5, <2>7 DEF Decides
  <2> QED BY <2>3, <2>6, <2>8, DecidesKeeps
<1>8. ASSUME NEW k \in CalibrationJobs, SaveRadius(k) PROVE ZoneInv'
  <2>1. PICK h : h = zjob[k].holds
    OBVIOUS
  <2>2. PICK row : row = Over(h, zone)
    OBVIOUS
  <2>3. k \in ZoneJobs /\ Writes(k, row) /\ zjob[k].pc = "decided"
    BY <1>8, <2>1, <2>2 DEF SaveRadius, Writes, ZoneJobs
  <2>4. Columns(h) /\ "platform" \notin DOMAIN h /\ "store" \notin DOMAIN h
    BY <2>1, <2>3 DEF ZoneInv, Holds, Columns
  <2>5. row \in Zone /\ row.last = zone.last /\ row.platform = zone.platform /\ row.store = zone.store
    BY <2>2, <2>4, OverIsZone DEF ZoneInv
  <2>6. Dated(row)
    BY <2>5 DEF ZoneInv, Dated
  <2> QED BY <2>3, <2>5, <2>6, WritesKeeps
<1>9. ASSUME MonthTurns PROVE ZoneInv'
  <2>1. /\ month' = month + 1 /\ month' \in 0..MaxMonth /\ UNCHANGED <<zone, mature, zjob, raced>>
        /\ \A d \in DecayJobs : zjob[d].pc # "decided"
    BY <1>9, ZoneAssumption DEF MonthTurns, ZoneInv
  <2>2. ASSUME NEW s, s.last \in 0..MaxMonth, Dated(s) PROVE s.last <= month' /\ <<s.platform, s.store>> = Scheduled(s.last)
    BY <2>1, <2>2 DEF Dated, ZoneInv
  <2>3. ASSUME NEW j \in ZoneJobs PROVE Holds(j)'
    BY <2>1, <2>2 DEF ZoneInv, Holds, SplitHeld, Dated, Zone
  <2>4. Dated(zone)'
    BY <2>1, <2>2 DEF ZoneInv, Dated, Zone
  <2> QED BY <2>1, <2>3, <2>4 DEF ZoneInv
<1>10. ASSUME Matures PROVE ZoneInv'
  BY <1>10 DEF Matures, ZoneInv, Holds, Dated
<1> QED BY <1>1, <1>2, <1>3, <1>4, <1>5, <1>6, <1>7, <1>8, <1>9, <1>10 DEF ZoneNext

LEMMA ZoneStarts == ZoneInit => ZoneInv
<1> SUFFICES ASSUME ZoneInit PROVE ZoneInv
  OBVIOUS
<1>1. zone \in Zone /\ zone.last = 0 /\ zone.platform = InitialPlatform /\ zone.store = InitialStore
  BY ZoneAssumption DEF ZoneInit, Never
<1>2. 0 \in 0..MaxMonth /\ StepsUntil(0) = 0
  BY ZoneAssumption DEF StepsUntil
<1>3. <<InitialPlatform, InitialStore>> \in Splits
  BY ZoneAssumption DEF Splits
<1>4. Scheduled(0) = <<InitialPlatform, InitialStore>>
  BY <1>2, <1>3, FirstStep DEF Scheduled
<1>5. Dated(zone)
  BY <1>1, <1>4 DEF Dated, ZoneInit
<1>6. \A j \in ZoneJobs : Holds(j)
  BY DEF ZoneInit, Holds, Rest
<1> QED BY <1>1, <1>2, <1>5, <1>6 DEF ZoneInit, ZoneInv

LEMMA SplitFollows == SplitLeftToJob /\ ZoneInv => SplitKept
<1> SUFFICES ASSUME SplitLeftToJob, ZoneInv PROVE SplitKept
  OBVIOUS
<1>1. zone.last \in 0..MaxMonth
  BY DEF ZoneInv, Zone
<1>2. ~PastTarget(Scheduled(zone.last)[1])
  BY <1>1, ScheduledIsSplit DEF SplitLeftToJob
<1> QED BY <1>2 DEF ZoneInv, Holds, Dated, ZoneTypeOK, NeverPastTarget, SplitMatchesDate, SplitKept

\* The commission of a zone is the one the calendar gives for the month it was last
\* adjusted in and stays short of its target, whoever saves the row meanwhile
\* (split_decay_job.go, zone_handler.go), as long as the administrator leaves it to
\* the job and no month ends while the job is at its update.
THEOREM SplitsFollowTheCalendar == SplitLeftToJob /\ ~TurnsDuringRun => (ZoneSpec => []SplitKept)
<1> SUFFICES ASSUME SplitLeftToJob, ~TurnsDuringRun PROVE ZoneSpec => []SplitKept
  OBVIOUS
<1>1. ZoneInv /\ [ZoneNext]_zoneVars => ZoneInv'
  <2>1. ZoneInv /\ UNCHANGED zoneVars => ZoneInv'
    BY DEF ZoneInv, Holds, Dated, zoneVars
  <2> QED BY <2>1, ZoneStep
<1> QED BY ZoneStarts, <1>1, SplitFollows, PTL DEF ZoneSpec

-----------------------------------------------------------------------------
(* The radii of a zone.  While nobody has written over a row that had changed, an  *)
(* administrator's row has radii in order, and a calibration that is not stale    *)
(* holds what the zone still has.                                                *)

SameRadii(h) == h.min = zone.min /\ h.radius = zone.radius /\ h.max = zone.max
WithinInv ==
  ~raced =>
    /\ InOrder(zone)
    /\ \A a \in Admins : zjob[a].pc = "decided" => InOrder(zjob[a].holds)
    /\ \A k \in CalibrationJobs : ~zjob[k].stale =>
         /\ zjob[k].pc = "read" => SameRadii(zjob[k].holds)
         /\ zjob[k].pc = "decided" => zone.min <= zjob[k].holds.radius /\ zjob[k].holds.radius <= zone.max

LEMMA RowIsNumbers ==
  ASSUME NEW row \in Zone
  PROVE  /\ row.min \in Int /\ row.radius \in Int /\ row.max \in Int
         /\ DOMAIN row = {"platform", "store", "last", "min", "radius", "max", "density", "active"}
BY DEF Zone

\* A job comes to hold something, and the row is as it was.
LEMMA HeldKeepsRadii ==
  ASSUME ZoneInv, WithinInv, NEW j \in ZoneJobs, NEW t, zjob' = [zjob EXCEPT ![j] = t], UNCHANGED <<zone, raced>>,
         ~raced /\ j \in Admins /\ t.pc = "decided" => InOrder(t.holds),
         ~raced /\ j \in CalibrationJobs /\ ~t.stale /\ t.pc = "read" => SameRadii(t.holds),
         ~raced /\ j \in CalibrationJobs /\ ~t.stale /\ t.pc = "decided" =>
           zone.min <= t.holds.radius /\ t.holds.radius <= zone.max
  PROVE  WithinInv'
<1>1. zjob'[j] = t /\ \A i \in ZoneJobs \ {j} : zjob'[i] = zjob[i]
  BY DEF ZoneInv
<1>2. Admins \subseteq ZoneJobs /\ CalibrationJobs \subseteq ZoneJobs
  BY DEF ZoneJobs
<1> SUFFICES ASSUME ~raced PROVE WithinInv'
  BY DEF WithinInv
<1>3. ASSUME NEW a \in Admins, zjob'[a].pc = "decided" PROVE InOrder(zjob'[a].holds)
  BY <1>1, <1>2, <1>3 DEF WithinInv
<1>4. ASSUME NEW k \in CalibrationJobs, ~zjob'[k].stale
      PROVE  /\ zjob'[k].pc = "read" => SameRadii(zjob'[k].holds)
             /\ zjob'[k].pc = "decided" => zone.min <= zjob'[k].holds.radius /\ zjob'[k].holds.radius <= zone.max
  <2>1. CASE k = j
    BY <1>1, <1>4, <2>1
  <2>2. CASE k # j
    BY <1>1, <1>2, <1>4, <2>2 DEF WithinInv
  <2> QED BY <2>1, <2>2
<1> QED BY <1>3, <1>4 DEF WithinInv, SameRadii, InOrder

\* A row is written; whoever still holds something of another one is stale.
LEMMA WrittenKeepsRadii ==
  ASSUME ZoneInv, WithinInv, NEW j \in ZoneJobs, NEW row, Writes(j, row),
         ~raced /\ ~zjob[j].stale => InOrder(row)
  PROVE  WithinInv'
<1>1. zone' = row /\ raced' = (raced \/ zjob[j].stale)
  BY DEF Writes
<1> SUFFICES ASSUME ~raced' PROVE WithinInv'
  BY DEF WithinInv
<1>2. ~raced /\ ~zjob[j].stale
  BY <1>1
<1>3. InOrder(zone)'
  BY <1>1, <1>2 DEF InOrder
<1>4. Admins \subseteq ZoneJobs /\ CalibrationJobs \subseteq ZoneJobs
  BY DEF ZoneJobs
<1>5. ASSUME NEW i \in ZoneJobs, zjob'[i].pc # "idle"
      PROVE  /\ zjob'[i].pc = zjob[i].pc /\ zjob'[i].holds = zjob[i].holds
             /\ ~zjob'[i].stale => ~zjob[i].stale /\ row = zone
  <2>1. zjob' = [x \in ZoneJobs |->
          IF x = j THEN Rest ELSE [zjob[x] EXCEPT !.stale = (zjob[x].pc # "idle" /\ (@ \/ row # zone))]]
    BY DEF Writes
  <2>2. i # j
    BY <1>5, <2>1 DEF Rest
  <2>3. PICK t : t = zjob[i] /\ DOMAIN t = {"pc", "holds", "stale"} /\ t.stale \in BOOLEAN
    BY DEF ZoneInv, Holds
  <2>4. zjob'[i] = [t EXCEPT !.stale = (t.pc # "idle" /\ (t.stale \/ row # zone))]
    BY <2>1, <2>2, <2>3
  <2>5. zjob'[i].pc = t.pc /\ zjob'[i].holds = t.holds /\ (zjob'[i].stale <=> (t.pc # "idle" /\ (t.stale \/ row # zone)))
    BY <2>3, <2>4
  <2> QED BY <1>5, <2>3, <2>5
<1>6. ASSUME NEW a \in Admins, zjob'[a].pc = "decided" PROVE InOrder(zjob[a].holds) /\ zjob'[a].holds = zjob[a].holds
  BY <1>2, <1>4, <1>5, <1>6 DEF WithinInv
<1>7. ASSUME NEW k \in CalibrationJobs, ~zjob'[k].stale
      PROVE  /\ zjob'[k].pc = "read" => /\ zjob'[k].holds.min = zone'.min
                                       /\ zjob'[k].holds.radius = zone'.radius
                                       /\ zjob'[k].holds.max = zone'.max
             /\ zjob'[k].pc = "decided" => zone'.min <= zjob'[k].holds.radius /\ zjob'[k].holds.radius <= zone'.max
  BY <1>1, <1>2, <1>4, <1>5, <1>7 DEF WithinInv, SameRadii
<1> QED BY <1>3, <1>6, <1>7 DEF WithinInv, SameRadii, InOrder

\* What a change leaves of a row's radii.
LEMMA RadiiOver ==
  ASSUME NEW row \in Zone, NEW change, NEW new, new = Over(change, row)
  PROVE  /\ new.min = IF "min" \in DOMAIN change THEN change.min ELSE row.min
         /\ new.radius = IF "radius" \in DOMAIN change THEN change.radius ELSE row.radius
         /\ new.max = IF "max" \in DOMAIN change THEN change.max ELSE row.max
BY RowIsNumbers DEF Over

LEMMA WithinStep ==
  ASSUME RadiiInOrder, ZoneInv, WithinInv, ZoneNext
  PROVE  WithinInv'
<1>1. ASSUME NEW a \in Admins, SaveZone(a) PROVE WithinInv'
  <2>1. a \in ZoneJobs /\ zjob[a].pc = "decided" /\ Writes(a, zjob[a].holds)
    BY <1>1 DEF SaveZone, Writes, ZoneJobs
  <2>2. ~raced /\ ~zjob[a].stale => InOrder(zjob[a].holds)
    BY <1>1, <2>1 DEF WithinInv
  <2> QED BY <2>1, <2>2, WrittenKeepsRadii
<1>2. ASSUME NEW a \in Admins, NEW patch \in Patches, ReadZone(a, patch) PROVE WithinInv'
  <2>1. PICK h : h = Over(patch, zone)
    OBVIOUS
  <2>2. ASSUME ~raced PROVE InOrder(h)
    <3>1. zone \in Zone /\ InOrder(zone)
      BY <2>2 DEF ZoneInv, WithinInv
    <3>2. CASE DOMAIN patch \cap {"min", "radius", "max"} = {}
      <4>1. h.min = zone.min /\ h.radius = zone.radius /\ h.max = zone.max
        BY <2>1, <3>1, <3>2, RadiiOver
      <4> QED BY <3>1, <4>1 DEF InOrder
    <3>3. CASE DOMAIN patch \cap {"min", "radius", "max"} # {}
      <4>1. {"min", "radius", "max"} \subseteq DOMAIN patch /\ InOrder(patch)
        BY <3>3 DEF RadiiInOrder
      <4>2. h.min = patch.min /\ h.radius = patch.radius /\ h.max = patch.max
        BY <2>1, <3>1, <4>1, RadiiOver
      <4> QED BY <4>1, <4>2 DEF InOrder
    <3> QED BY <3>2, <3>3
  <2>3. PICK t : t = [pc |-> "decided", holds |-> h, stale |-> FALSE]
    OBVIOUS
  <2>4. a \in ZoneJobs /\ a \notin CalibrationJobs /\ t.holds = h
        /\ zjob' = [zjob EXCEPT ![a] = t] /\ UNCHANGED <<zone, raced>>
    BY <1>2, <2>1, <2>3, ZoneAssumption DEF ReadZone, Reads, ZoneJobs
  <2> QED BY <2>2, <2>4, HeldKeepsRadii
<1>3. ASSUME NEW d \in DecayJobs, FetchSplitZone(d) \/ Decay(d) PROVE WithinInv'
  <2>1. d \in ZoneJobs /\ d \notin Admins /\ d \notin CalibrationJobs
    BY ZoneAssumption DEF ZoneJobs
  <2>2. UNCHANGED <<zone, raced>> /\ \E t : zjob' = [zjob EXCEPT ![d] = t]
    BY <1>3 DEF FetchSplitZone, Decay, Reads, Decides
  <2>3. PICK t : zjob' = [zjob EXCEPT ![d] = t]
    BY <2>2
  <2> QED BY <2>1, <2>2, <2>3, HeldKeepsRadii
<1>4. ASSUME NEW d \in DecayJobs, SaveSplit(d) PROVE WithinInv'
  <2>1. PICK dated : dated = [zone EXCEPT !.last = month]
    OBVIOUS
  <2>2. dated \in Zone /\ dated.min = zone.min /\ dated.radius = zone.radius /\ dated.max = zone.max
    BY <2>1 DEF ZoneInv, Zone
  <2>3. PICK h : h = zjob[d].holds
    OBVIOUS
  <2>4. PICK row : row = Over(h, dated)
    OBVIOUS
  <2>5. d \in ZoneJobs /\ Writes(d, row) /\ zjob[d].pc = "decided"
    BY <1>4, <2>1, <2>3, <2>4 DEF SaveSplit, Writes, ZoneJobs
  <2>6. DOMAIN h = {"platform", "store"}
    BY <2>3, <2>5 DEF ZoneInv, Holds
  <2>7. row.min = zone.min /\ row.radius = zone.radius /\ row.max = zone.max
    BY <2>2, <2>4, <2>6, RadiiOver
  <2>8. ~raced => InOrder(row)
    BY <2>7 DEF WithinInv, InOrder
  <2> QED BY <2>5, <2>8, WrittenKeepsRadii
<1>5. ASSUME NEW k \in CalibrationJobs, FetchZone(k) PROVE WithinInv'
  <2>1. PICK h : h = RadiusOf(zone)
    OBVIOUS
  <2>2. SameRadii(h)
    BY <2>1 DEF RadiusOf, SameRadii
  <2>3. PICK t : t = [pc |-> "read", holds |-> h, stale |-> FALSE]
    OBVIOUS
  <2>4. k \in ZoneJobs /\ k \notin Admins /\ t.holds = h /\ t.pc = "read"
        /\ zjob' = [zjob EXCEPT ![k] = t] /\ UNCHANGED <<zone, raced>>
    BY <1>5, <2>1, <2>3, ZoneAssumption DEF FetchZone, Reads, ZoneJobs
  <2> QED BY <2>2, <2>4, HeldKeepsRadii
<1>6. ASSUME NEW k \in CalibrationJobs, NEW many \in BOOLEAN, NEW slow \in BOOLEAN, Calibrate(k, many, slow)
      PROVE  WithinInv'
  <2>1. PICK z : z = zjob[k].holds
    OBVIOUS
  <2>2. PICK r : r = Calibrated(z, many, slow)
    OBVIOUS
  <2>3. PICK t : t = IF r # z.radius
                     THEN [pc |-> "decided", holds |-> [radius |-> r], stale |-> zjob[k].stale] ELSE Rest
    OBVIOUS
  <2>4. k \in ZoneJobs /\ k \notin Admins /\ zjob[k].pc = "read"
        /\ zjob' = [zjob EXCEPT ![k] = t] /\ UNCHANGED <<zone, raced>>
    BY <1>6, <2>1, <2>2, <2>3, ZoneAssumption DEF Calibrate, Decides, ZoneJobs
  <2>5. t.pc # "read"
    BY <2>3 DEF Rest
  <2>6. ASSUME ~raced, ~t.stale, t.pc = "decided" PROVE zone.min <= t.holds.radius /\ t.holds.radius <= zone.max
    <3>1. t.holds.radius = r /\ t.stale = zjob[k].stale
      BY <2>3, <2>6 DEF Rest
    <3>2. InOrder(zone) /\ z.min = zone.min /\ z.radius = zone.radius /\ z.max = zone.max
      BY <2>1, <2>4, <2>6, <3>1 DEF WithinInv, SameRadii
    <3>3. InOrder(z)
      BY <3>2 DEF InOrder
    <3>4. RadiusHeld(z)
      BY <2>1, <2>4 DEF ZoneInv, Holds
    <3> QED BY <2>2, <3>1, <3>2, <3>3, <3>4, CalibratedIsWithin
  <2> QED BY <2>4, <2>5, <2>6, HeldKeepsRadii
<1>7. ASSUME NEW k \in CalibrationJobs, SaveRadius(k) PROVE WithinInv'
  <2>1. PICK h : h = zjob[k].holds
    OBVIOUS
  <2>2. PICK row : row = Over(h, zone)
    OBVIOUS
  <2>3. k \in ZoneJobs /\ Writes(k, row) /\ zjob[k].pc = "decided"
    BY <1>7, <2>1, <2>2 DEF SaveRadius, Writes, ZoneJobs
  <2>4. zone \in Zone /\ DOMAIN h = {"radius"}
    BY <2>1, <2>3 DEF ZoneInv, Holds
  <2>5. row.min = zone.min /\ row.radius = h.radius /\ row.max = zone.max
    BY <2>2, <2>4, RadiiOver
  <2>6. ASSUME ~raced, ~zjob[k].stale PROVE InOrder(row)
    <3>1. InOrder(zone) /\ zone.min <= h.radius /\ h.radius <= zone.max
      BY <2>1, <2>3, <2>6 DEF WithinInv
    <3> QED BY <2>5, <3>1 DEF InOrder
  <2> QED BY <2>3, <2>6, WrittenKeepsRadii
<1>8. ASSUME MonthTurns \/ Matures PROVE WithinInv'
  BY <1>8 DEF MonthTurns, Matures, WithinInv, SameRadii, InOrder
<1> QED BY <1>1, <1>2, <1>3, <1>4, <1>5, <1>6, <1>7, <1>8 DEF ZoneNext

\* Radii in order make the last search the widest: the peak hours only narrow one.
LEMMA StagesWithin ==
  ASSUME RadiiInOrder, NEW z \in Zone, InOrder(z), NEW peak \in BOOLEAN, NEW i \in 1..3
  PROVE  RadiusStages(z, peak)[i] <= RadiusStages(z, peak)[3]
<1>1. PICK a \in Int, r \in Int, m \in Int, times \in Int :
        a = z.min /\ r = z.radius /\ m = z.max /\ times = PeakTimes
  BY RowIsNumbers DEF RadiiInOrder
<1>2. 0 <= a /\ a <= r /\ r <= m /\ 0 <= times /\ times <= 100
  BY <1>1 DEF InOrder, RadiiInOrder
<1>3. PICK x \in Int : x = (r * times) \div 100
  BY <1>1
<1>4. x <= r
  <2>1. r * times <= r * 100
    BY <1>1, <1>2
  <2>2. PICK y \in Int : y = r * times
    BY <1>1
  <2> QED BY <1>1, <1>3, <2>1, <2>2
<1>5. PICK base \in Int : base = GetEffectiveRadius(z, peak) /\ base <= m
  BY <1>1, <1>2, <1>3, <1>4 DEF GetEffectiveRadius, Most
<1>6. PICK dense \in Int : dense = GetSuggestedRadiusByDensity(z, peak) /\ dense <= m
  <2>1. z.density \in DOMAIN Poisson /\ Poisson[z.density] \in Int
    BY ZoneAssumption DEF Zone
  <2> QED BY <1>1, <1>5, <2>1 DEF GetSuggestedRadiusByDensity, Least, Most
<1>7. PICK first \in Int : first = (IF base < dense /\ dense < m THEN dense ELSE base) /\ first <= m
  BY <1>5, <1>6
<1>8. PICK second \in Int : second = Least((base * 17) \div 10, m) /\ second <= m
  BY <1>1, <1>5 DEF Least
<1>9. RadiusStages(z, peak) = <<first, second, m>>
  BY <1>1, <1>5, <1>6, <1>7, <1>8 DEF RadiusStages
<1> QED BY <1>1, <1>7, <1>8, <1>9

\* A zone's split is the one its date asks for; and unless somebody has written over
\* a row that had changed meanwhile, calibration leaves the radius between the least
\* and the widest of the zone, and no stage of a search is wider than its last
\* (calibration_job.go, matching_engine.go, zone_handler.go), if those who make and
\* change a zone give radii in order.
THEOREM ZonesAreKept == SplitLeftToJob /\ RadiiInOrder /\ ~TurnsDuringRun => (ZoneSpec => []ZonesKept)
<1> SUFFICES ASSUME SplitLeftToJob, RadiiInOrder, ~TurnsDuringRun PROVE ZoneSpec => []ZonesKept
  OBVIOUS
<1> DEFINE Inv == ZoneInv /\ WithinInv
<1>1. ZoneInit => Inv
  <2>1. ZoneInit => WithinInv
    BY DEF ZoneInit, WithinInv, RadiiInOrder, Rest, ZoneJobs
  <2> QED BY <2>1, ZoneStarts
<1>2. Inv /\ [ZoneNext]_zoneVars => Inv'
  <2>1. Inv /\ UNCHANGED zoneVars => Inv'
    BY DEF ZoneInv, Holds, Dated, WithinInv, SameRadii, InOrder, zoneVars
  <2>2. Inv /\ ZoneNext => Inv'
    BY ZoneStep, WithinStep
  <2> QED BY <2>1, <2>2
<1>3. Inv => ZonesKept
  <2> SUFFICES ASSUME Inv PROVE ZonesKept
    OBVIOUS
  <2>1. SplitKept
    BY SplitFollows
  <2>2. ASSUME ~raced PROVE SearchesWithinLimit
    <3>1. zone \in Zone /\ InOrder(zone)
      BY <2>2 DEF ZoneInv, WithinInv
    <3>2. \A peak \in BOOLEAN : \A i \in 1..3 : RadiusStages(zone, peak)[i] <= RadiusStages(zone, peak)[3]
      BY <3>1, StagesWithin
    <3> QED BY <3>1, <3>2 DEF SearchesWithinLimit, InOrder
  <2> QED BY <2>1, <2>2 DEF ZonesKept, SearchesWithinLimit
<1> QED BY <1>1, <1>2, <1>3, PTL DEF ZoneSpec
=============================================================================
