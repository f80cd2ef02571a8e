------------------------------ MODULE ZoneTuning ------------------------------
(***************************************************************************)
(* A zone and those who change it: the administrator's handlers, which read  *)
(* the row and save all of it; the daily job that moves the commission from  *)
(* its initial to its target value as months go by; and the daily job that   *)
(* calibrates the delivery radius.  Each reads in one step and writes in     *)
(* another.                                                                 *)
(*                                                                         *)
(* Radii are tenths of a kilometre, percentages whole numbers.               *)
(***************************************************************************)
EXTENDS Integers, FiniteSets

CONSTANTS
  Admins, DecayJobs, CalibrationJobs,   \* goroutines
  NewZones,          \* rows CreateZone may make, see Zone
  Patches,           \* what an administrator may ask for: functions on fields of a zone
  Poisson,           \* density |-> sqrt(3 / (pi * density)), a function
  PeakTimes,         \* the peak multiplier in percent, a positive number
  InitialPlatform, InitialStore,        \* the split of a new zone
  TargetPlatform, TargetStore,          \* the split of a mature zone
  StepPlatform, StepStore, StepMonths,  \* what changes, and how often
  MaxMonth, MaxEdits,                 \* bounds
  TurnsDuringRun     \* TRUE: a month may end while the decay job runs

Never == 0           \* split_last_adjusted_at is null
ZoneJobs == Admins \cup DecayJobs \cup CalibrationJobs

VARIABLES
  zone,      \* the row
  month,     \* months since the zone was created; 0 is the first
  mature,    \* the zone has the orders and couriers the decay asks for
  zjob,      \* a job or handler: its place, what it holds of the row (as read, or
             \* to be written), and whether the row has changed since
  raced,     \* somebody wrote over a row that had changed since he read it
  edits      \* requests and calibrations so far

zoneVars == <<zone, month, mature, zjob, raced, edits>>

\* The handlers check no number of a request.
Zone == [platform : Int, store : Int, last : 0..MaxMonth,
         min : Int, radius : Int, max : Int, density : DOMAIN Poisson, active : BOOLEAN]

\* A new zone has the initial split and was never adjusted; a request may name any
\* column but the date (zone_handler.go:248-249, 274-309).  The decay job divides
\* by the months of a step.
ASSUME ZoneAssumption ==
  /\ Admins \cap DecayJobs = {} /\ (Admins \cup DecayJobs) \cap CalibrationJobs = {}
  /\ {InitialPlatform, InitialStore, TargetPlatform, TargetStore, StepPlatform, StepStore} \subseteq Int
  /\ StepMonths \in Nat \ {0} /\ MaxMonth \in Nat /\ MaxEdits \in Nat /\ TurnsDuringRun \in BOOLEAN
  /\ PeakTimes \in Int /\ \A d \in DOMAIN Poisson : Poisson[d] \in Int
  /\ \A z \in NewZones :
       z \in Zone /\ z.platform = InitialPlatform /\ z.store = InitialStore /\ z.last = Never
  /\ \A patch \in Patches : \A f \in DOMAIN patch :
       \/ f \in {"platform", "store", "min", "radius", "max"} /\ patch[f] \in Int
       \/ f = "density" /\ patch[f] \in DOMAIN Poisson
       \/ f = "active" /\ patch[f] \in BOOLEAN

ZoneTypeOK ==
  /\ zone \in Zone /\ month \in 0..MaxMonth /\ mature \in BOOLEAN /\ raced \in BOOLEAN
  /\ \A j \in ZoneJobs : zjob[j].pc \in {"idle", "read", "decided"} /\ zjob[j].stale \in BOOLEAN

Rest == [pc |-> "idle", holds |-> <<>>, stale |-> FALSE]

ZoneInit ==
  /\ zone \in NewZones
  /\ month = 0 /\ mature \in BOOLEAN /\ raced = FALSE /\ edits = 0
  /\ zjob = [j \in ZoneJobs |-> Rest]

\* The columns of change are written over a row.
Over(change, row) == [f \in DOMAIN row |-> IF f \in DOMAIN change THEN change[f] ELSE row[f]]

SplitOf(row)  == [platform |-> row.platform, store |-> row.store, last |-> row.last]
RadiusOf(row) == [min |-> row.min, radius |-> row.radius, max |-> row.max, density |-> row.density]

Reads(j, pc, what) ==
  /\ zjob[j].pc = "idle" /\ zjob' = [zjob EXCEPT ![j] = [pc |-> pc, holds |-> what, stale |-> FALSE]]
  /\ UNCHANGED <<zone, month, mature, raced>>

\* Nothing to change, or a change decided on.
Decides(j, changes, change) ==
  /\ zjob' = [zjob EXCEPT ![j] =
                IF changes THEN [pc |-> "decided", holds |-> change, stale |-> zjob[j].stale] ELSE Rest]
  /\ UNCHANGED <<zone, month, mature, raced, edits>>

Writes(j, row) ==
  /\ zjob[j].pc = "decided"
  /\ zone' = row /\ raced' = (raced \/ zjob[j].stale)
  /\ zjob' = [i \in ZoneJobs |->
       IF i = j THEN Rest
       ELSE [zjob[i] EXCEPT !.stale = (zjob[i].pc # "idle" /\ (@ \/ row # zone))]]
  /\ UNCHANGED <<month, mature, edits>>

-----------------------------------------------------------------------------
(* zone_handler.go: UpdateZone, DeleteZone and CalibrateZone read the row,    *)
(* set the fields of the request, and save every column.                      *)

\* Radii for a city of a size, where nothing is known yet.
GetInitialRadiusByCitySize(size) ==
  CASE size = "small"  -> [radius |-> 60, min |-> 40, max |-> 150]
    [] size = "medium" -> [radius |-> 40, min |-> 25, max |-> 100]
    [] size = "large"  -> [radius |-> 25, min |-> 15, max |-> 60]
    [] size = "metro"  -> [radius |-> 20, min |-> 10, max |-> 50]
    [] OTHER           -> [radius |-> 50, min |-> 20, max |-> 100]

\* A new zone: what the request names, and defaults.  The split starts at its
\* initial value and has never been adjusted.
CreateZone(size, given) ==
  LET radii == Over(given, GetInitialRadiusByCitySize(size))
  IN [platform |-> InitialPlatform, store |-> InitialStore, last |-> Never, density |-> 0, active |-> TRUE,
      radius |-> radii.radius, min |-> radii.min, max |-> radii.max]

ReadZone(a, patch) ==
  /\ edits < MaxEdits /\ edits' = edits + 1
  /\ Reads(a, "decided", Over(patch, zone))

SaveZone(a) == Writes(a, zjob[a].holds)

-----------------------------------------------------------------------------
(* split_decay_job.go *)

\* The job asks for the active zones.
FetchSplitZone(d) == zone.active /\ Reads(d, "read", SplitOf(zone)) /\ UNCHANGED edits

StepsUntil(m) == m \div StepMonths

PastTarget(platform) ==
  \/ StepPlatform > 0 /\ platform > TargetPlatform
  \/ StepPlatform < 0 /\ platform < TargetPlatform

\* n steps from a platform and a store percentage, never past the target.
AfterSteps[n \in 0..MaxMonth] ==
  [split \in Int \X Int |->
     LET next == <<split[1] + StepPlatform, split[2] + StepStore>>
     IN IF n = 0 THEN split
        ELSE IF PastTarget(next[1]) THEN <<TargetPlatform, TargetStore>>
        ELSE AfterSteps[n - 1][next]]

NewSplitUncapped(z, steps) ==   \* mutant of NewSplit: the target is passed
  [platform |-> z.platform + steps * StepPlatform, store |-> z.store + steps * StepStore]

NewSplit(z, steps) ==
  LET split == AfterSteps[steps][<<z.platform, z.store>>]
  IN [platform |-> split[1], store |-> split[2]]

DecayOneStep(d) ==   \* mutant of Decay: steps that were missed are not made up for
  LET z == zjob[d].holds
  IN /\ zjob[d].pc = "read"
     /\ Decides(d, StepsUntil(z.last) < StepsUntil(month) /\ mature, NewSplit(z, 1))

\* The steps the calendar allows and nobody has taken, if the zone is mature.
Decay(d) ==
  LET z == zjob[d].holds  taken == StepsUntil(z.last)  due == StepsUntil(month)
  IN /\ zjob[d].pc = "read"
     /\ Decides(d, taken < due /\ mature, NewSplit(z, IF taken < due THEN due - taken ELSE 0))

SaveUndated(d) ==   \* mutant of SaveSplit: the date is not written with the split
  Writes(d, Over(zjob[d].holds, zone))

\* Three columns are updated; the date is that of the write.
SaveSplit(d) == Writes(d, Over(zjob[d].holds, [zone EXCEPT !.last = month]))

-----------------------------------------------------------------------------
(* matching_engine.go, calibration_job.go *)

Least(x, y) == IF x < y THEN x ELSE y
Most(x, y)  == IF x > y THEN x ELSE y

\* The radius of the first search, less in the peak hours.
GetEffectiveRadius(z, peak) ==
  IF peak THEN Most((z.radius * PeakTimes) \div 100, z.min) ELSE z.radius

GetSuggestedRadiusByDensity(z, peak) ==
  IF z.density = 0 THEN GetEffectiveRadius(z, peak)
  ELSE Least(Most(Poisson[z.density], z.min), z.max)

\* The three radii a search goes through.
RadiusStages(z, peak) ==
  LET base  == GetEffectiveRadius(z, peak)
      dense == GetSuggestedRadiusByDensity(z, peak)
  IN <<IF base < dense /\ dense < z.max THEN dense ELSE base,
       Least((base * 17) \div 10, z.max), z.max>>

\* Kilometres in thousandths of a tenth, rounded at the end as the code does.
CalibratedRaw(z, manyUnmatched, slow) ==
  LET r0 == IF z.density = 0 THEN z.radius * 1000
            ELSE GetSuggestedRadiusByDensity(z, FALSE) * 700 + z.radius * 300
      r1 == IF manyUnmatched THEN (r0 * 11) \div 10 ELSE r0
  IN IF slow THEN (r1 * 9) \div 10 ELSE r1

GlobalMin == 10
GlobalMax == 200

CalibratedFree(z, manyUnmatched, slow) ==   \* mutant of Calibrated: no limits
  (CalibratedRaw(z, manyUnmatched, slow) + 500) \div 1000

Calibrated(z, manyUnmatched, slow) ==
  LET low  == Most(GlobalMin, z.min) * 1000
      high == Least(GlobalMax, z.max) * 1000
  IN (Least(Most(CalibratedRaw(z, manyUnmatched, slow), low), high) + 500) \div 1000

FetchZone(k) == /\ zone.active /\ Reads(k, "read", RadiusOf(zone))
                /\ edits < MaxEdits /\ edits' = edits + 1

\* A job that would change nothing writes nothing.
Calibrate(k, manyUnmatched, slow) ==
  LET z == zjob[k].holds  r == Calibrated(z, manyUnmatched, slow)
  IN /\ zjob[k].pc = "read" /\ Decides(k, r # z.radius, [radius |-> r])

SaveRadius(k) == Writes(k, Over(zjob[k].holds, zone))

-----------------------------------------------------------------------------
MonthTurns ==
  /\ month < MaxMonth
  /\ TurnsDuringRun \/ \A d \in DecayJobs : zjob[d].pc # "decided"
  /\ month' = month + 1
  /\ UNCHANGED <<zone, mature, zjob, raced, edits>>

Matures == ~mature /\ mature' = TRUE /\ UNCHANGED <<zone, month, zjob, raced, edits>>

ZoneNext ==
  \/ \E a \in Admins : SaveZone(a) \/ \E patch \in Patches : ReadZone(a, patch)
  \/ \E d \in DecayJobs : FetchSplitZone(d) \/ Decay(d) \/ SaveSplit(d)
  \/ \E k \in CalibrationJobs :
       \/ FetchZone(k) \/ SaveRadius(k)
       \/ \E manyUnmatched, slow \in BOOLEAN : Calibrate(k, manyUnmatched, slow)
  \/ MonthTurns \/ Matures

\* Goroutines run on, and the decay job ticks every day.
ZoneFairness ==
  /\ \A a \in Admins : WF_zoneVars(SaveZone(a))
  /\ \A d \in DecayJobs : WF_zoneVars(FetchSplitZone(d) \/ Decay(d) \/ SaveSplit(d))

ZoneSpec == ZoneInit /\ [][ZoneNext]_zoneVars /\ ZoneFairness

-----------------------------------------------------------------------------
\* The administrator leaves the split, which begins short of its target, to the job.
SplitLeftToJob ==
  /\ ~PastTarget(InitialPlatform)
  /\ \A patch \in Patches : DOMAIN patch \cap {"platform", "store"} = {}

\* The commission stays short of its target ("Nunca ultrapassa o split alvo",
\* zone.go:283), though rows from before are saved over the job's.
NeverPastTarget == ~PastTarget(zone.platform)

Scheduled(m) == AfterSteps[StepsUntil(m)][<<InitialPlatform, InitialStore>>]

\* The commission of a zone is the one the calendar gives for the month it was
\* last adjusted in, whoever saves the row meanwhile: no step is taken twice
\* and none is dropped.
SplitMatchesDate == <<zone.platform, zone.store>> = Scheduled(zone.last)

\* A mature zone reaches the commission of the calendar, however often an
\* administrator's save takes the row back to what he had read.
SplitCatchesUp ==
  zone.active /\ mature /\ month = MaxMonth
    ~> ~zone.active \/ <<zone.platform, zone.store>> = Scheduled(MaxMonth)

\* Unless two writers meet, the last search is the widest one and calibration
\* stays within the limits the administrator set ("limite absoluto, mesmo em
\* busca progressiva", zone.go:32).
SearchesWithinLimit ==
  ~raced => /\ zone.min <= zone.radius /\ zone.radius <= zone.max
            /\ \A peak \in BOOLEAN : \A i \in 1..3 :
                 RadiusStages(zone, peak)[i] <= RadiusStages(zone, peak)[3]

\* Whoever makes a zone, or changes a radius of one, gives radii in order; none is
\* wider than the calibration allows, and the peak hours narrow them.  No handler
\* asks for it.
InOrder(radii) == 0 <= radii.min /\ radii.min <= radii.radius /\ radii.radius <= radii.max /\ radii.min <= GlobalMax
RadiiInOrder ==
  /\ PeakTimes \in 0..100
  /\ \A z \in NewZones : InOrder(z)
  /\ \A patch \in Patches :
       DOMAIN patch \cap {"min", "radius", "max"} # {} =>
         {"min", "radius", "max"} \subseteq DOMAIN patch /\ InOrder(patch)

\* A zone's split is the one its date asks for, within its target, and a search in
\* it is within its radii.
SplitKept == ZoneTypeOK /\ NeverPastTarget /\ SplitMatchesDate
ZonesKept == SplitKept /\ SearchesWithinLimit
=============================================================================
