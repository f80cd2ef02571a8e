------------------------------ MODULE MCDispatch ------------------------------
(* Instances for TLC of the parts of the dispatch engine, which share no       *)
(* variable: finding couriers, tuning the zones and batches of orders.  A      *)
(* behaviour belongs to one part and leaves the others as they began, so the   *)
(* run explores each and not their product.                                   *)
EXTENDS CourierDispatch, ZoneTuning, DeliveryBatches, TLC

CONSTANTS p1, p2, h1, c1, o1, o2, a1, d1, d2, k1, b1, x1, x2

OneProcess   == {p1}
TwoProcesses == {p1, p2}
OneHandler   == {h1}
OneCourier   == {c1}
OneOrder     == {o1}
TwoOrders    == {o1, o2}
NearAndFar   == {1, 3}

OneAdmin       == {a1}
OneDecay       == {d1}
TwoDecays      == {d1, d2}
OneCalibration == {k1}
MinusTwo       == -2
\* 3 / (pi * 0.012) and 3 / (pi * 0.3), the roots in tenths of a kilometre.
DensityRadius  == (0 :> 0) @@ (1 :> 89) @@ (2 :> 17)
NewZone        == {CreateZone("medium", <<>>)}
SomePatches    == {"active" :> FALSE, "density" :> 1, "density" :> 2,
                   ("min" :> 25) @@ ("radius" :> 25) @@ ("max" :> 60)}

ASSUME PatchesAssumption == RadiiInOrder /\ SplitLeftToJob

OneBatch       == {b1}
TwoBatchers    == {x1, x2}

VARIABLE part

engineVars == <<part, dispatchVars, zoneVars, batchVars>>

EngineInit == /\ part \in {"couriers", "zones", "batches"}
              /\ DispatchInit /\ ZoneInit /\ BatchesInit
EngineNext ==
  /\ UNCHANGED part
  /\ \/ part = "couriers" /\ DispatchNext /\ UNCHANGED <<zoneVars, batchVars>>
     \/ part = "zones" /\ ZoneNext /\ UNCHANGED <<dispatchVars, batchVars>>
     \/ part = "batches" /\ BatchesNext /\ UNCHANGED <<dispatchVars, zoneVars>>

\* Each part is fair as its own module says.  No fair action of the batches is
\* possible before one was made, so their fairness asks nothing of the other
\* parts; a zone, which is there from the start, has to be told.
ZonesFair == /\ \A a \in Admins : WF_zoneVars(part = "zones" /\ SaveZone(a))
             /\ \A d \in DecayJobs : WF_zoneVars(part = "zones" /\ (FetchSplitZone(d) \/ Decay(d) \/ SaveSplit(d)))

EngineSpec == EngineInit /\ [][EngineNext]_engineVars /\ ZonesFair /\ BatchFairness

-----------------------------------------------------------------------------
\* The daily jobs get their work done: the split of a zone reaches the calendar, and
\* an old batch ends.
JobsKeepUp == SplitCatchesUp /\ OldBatchEnds
=============================================================================
