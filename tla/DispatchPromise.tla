--------------------------- MODULE DispatchPromise ---------------------------
(* What the dispatch of orders promises: an order a courier was asked for is  *)
(* not forgotten before a courier was found, unless a process or a database   *)
(* call fails.                                                                *)
EXTENDS Naturals

CONSTANT Orders

VARIABLES
  waiting,    \* orders somebody still looks for a courier for
  answered,   \* orders a courier was found for
  faults      \* crashes and failed calls so far

promiseVars == <<waiting, answered, faults>>

Promised == waiting = {} /\ answered = {} /\ faults = 0

Ask(o) == waiting' = waiting \cup {o} /\ UNCHANGED <<answered, faults>>

\* Found once may leave a second search for the same order behind.
Found(o) == /\ o \in waiting
            /\ answered' = answered \cup {o}
            /\ waiting' \in {waiting, waiting \ {o}}
            /\ UNCHANGED faults

\* A search that is left over ends.
Settle(o) == /\ o \in waiting \cap answered
             /\ waiting' = waiting \ {o}
             /\ UNCHANGED <<answered, faults>>

\* What a fault left undone may come to light later.
Fault == faults' = faults + 1 /\ waiting' \subseteq waiting /\ UNCHANGED answered

Forget(o) == faults > 0 /\ waiting' = waiting \ {o} /\ UNCHANGED <<answered, faults>>

PromiseNext == Fault \/ \E o \in Orders : Ask(o) \/ Found(o) \/ Settle(o) \/ Forget(o)

PromiseSpec == Promised /\ [][PromiseNext]_promiseVars
=============================================================================
