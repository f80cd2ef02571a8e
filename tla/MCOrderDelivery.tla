--------------------------- MODULE MCOrderDelivery ---------------------------
(* An instance of OrderDelivery for TLC.  Goroutines, and couriers, are        *)
(* interchangeable: of two idle goroutines the first begins, and the first     *)
(* courier is the first to accept.  A behaviour has one fault at most, or new  *)
(* pickup codes, and not both.                                                 *)
EXTENDS OrderDelivery, TLC

CONSTANTS o1, c1, c2, w1, w2

OneOrder == {o1}
TwoCouriers == {c1, c2}
TwoWorkers == {w1, w2}

VARIABLE part

InTurn ==
  /\ job[w2].step = "idle" /\ job'[w2].step # "idle" => job[w1].step # "idle"
  /\ \A w \in Workers : job'[w].courier = c2 =>
       sol[o1].courier # Nobody \/ \E v \in Workers : job[v].courier # Nobody

InPart == IF part = "faults" THEN /\ \A w \in Workers : job'[w].step # "code.save"
                                  /\ crashes' + dbErrors' <= 1
                             ELSE crashes' + dbErrors' = 0

OrdersInit == Init /\ part \in {"faults", "codes"}
OrdersNext == Next /\ UNCHANGED part /\ InTurn /\ InPart
OrdersSpec == OrdersInit /\ [][OrdersNext]_<<vars, part>> /\ Fairness
=============================================================================
