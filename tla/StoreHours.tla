------------------------------ MODULE StoreHours -----------------------------
(***************************************************************************)
(* The opening hours of a store (auth_api models/opening.go): a window and a    *)
(* break for each day of the week, windows that pass midnight, and what the     *)
(* app says of a store that is closed.                                        *)
(***************************************************************************)
EXTENDS Integers, FiniteSets

CONSTANTS
  Week,              \* days of the week
  Day,               \* instants of a day
  NoDay, ClosedDay,  \* no row; a row with is_open = false
  DayRows            \* rows a day may have: [open, close, breakStart, breakEnd]

ASSUME HoursAssumption == Week \in Nat /\ Week > 1 /\ Day \in Nat \ {0}

VARIABLES
  hours,       \* business_hours: day |-> row
  manual,      \* the button of the panel
  clock        \* instants since the week began

hourVars == <<hours, manual, clock>>

DaysOfWeek == 0..(Week - 1)
AnyDay     == DayRows \cup {NoDay, ClosedDay}
HoursInit == hours \in [DaysOfWeek -> AnyDay] /\ manual \in BOOLEAN /\ clock = 0

\* saveBusinessHours: idx_est_day keeps one row for each day.
SaveBusinessHours(d, row) ==
  /\ hours' = [hours EXCEPT ![d] = row] /\ UNCHANGED <<manual, clock>>
Toggle == manual' = ~manual /\ UNCHANGED <<hours, clock>>
TimePasses == clock' = (clock + 1) % (Week * Day) /\ UNCHANGED <<hours, manual>>

-----------------------------------------------------------------------------
\* dayWindow: opening = closing is open all day; closing first passes midnight.
AllDay(h)    == h.open = h.close
From(h)      == IF AllDay(h) THEN 0 ELSE h.open
Overnight(h) == h.close < h.open
To(h)        == IF AllDay(h) THEN Day ELSE h.close
InBreak(h, m) == h.breakStart < h.breakEnd /\ m >= h.breakStart /\ m < h.breakEnd

InNight(h, m) == m >= From(h) /\ m < To(h)   \* mutant of InWindow: a night that ends before it begins
InWindow(h, m) == m >= From(h) /\ (Overnight(h) \/ m < To(h))

OpenToday(d, m)     == hours[d] \in DayRows /\ InWindow(hours[d], m) /\ ~InBreak(hours[d], m)
OpenSinceYesterday(d, m) ==
  LET h == hours[(d + Week - 1) % Week] IN h \in DayRows /\ Overnight(h) /\ m < h.close

NoRows == \A d \in DaysOfWeek : hours[d] = NoDay
Shut   == [open |-> FALSE, at |-> -1, day |-> 0]

AheadOfBreaks(t) ==   \* mutant of Ahead: who is in the break is told of tomorrow
  LET d == t \div Day  m == t % Day
  IN {n \in 0..(Week - 1) :
        LET h == hours[(d + n) % Week] IN h \in DayRows /\ (n = 0 => From(h) > m)}

\* Where the app says a closed store opens next: later today, after the break,
\* or on one of the days that follow.
Ahead(t)  == LET d == t \div Day  m == t % Day
             IN {n \in 0..(Week - 1) :
                   LET h == hours[(d + n) % Week]
                   IN h \in DayRows /\ (n = 0 => From(h) > m \/ InBreak(h, m))}
NextOpening(t) ==
  IF Ahead(t) = {} THEN Shut
  ELSE LET n == CHOOSE n \in Ahead(t) : \A k \in Ahead(t) : n <= k
           h == hours[(t \div Day + n) % Week]
       IN [open |-> FALSE, day |-> n,
           at |-> IF n = 0 /\ From(h) <= t % Day THEN h.breakEnd ELSE h.open]

OpeningAt(t) ==
  LET d == t \div Day  m == t % Day
  IN IF ~manual THEN Shut
     ELSE IF NoRows \/ OpenToday(d, m) \/ OpenSinceYesterday(d, m)
     THEN [open |-> TRUE, at |-> -1, day |-> 0]
     ELSE NextOpening(t)

HoursNext ==
  \/ TimePasses \/ Toggle
  \/ \E d \in DaysOfWeek, row \in AnyDay : SaveBusinessHours(d, row)
HoursSpec == HoursInit /\ [][HoursNext]_hourVars

-----------------------------------------------------------------------------
\* What the rows must be for the properties below.  Nothing in the code asks for it:
\* saveBusinessHours keeps the times as they come, and validHHMM takes "29:59".

\* Times are times of a day.
ClockTimes ==
  LET Time == 0..(Day - 1)
  IN DayRows \subseteq [open : Time, close : Time, breakStart : Time, breakEnd : Time]

\* Open all day is written from the beginning of the day; a break that does not end
\* before the store opens begins after it does, and ends before it closes.
BreaksInside ==
  \A h \in DayRows :
    /\ AllDay(h) => h.open = 0
    /\ h.breakStart < h.breakEnd /\ From(h) < h.breakEnd =>
         From(h) < h.breakStart /\ (Overnight(h) \/ h.breakEnd < To(h))

\* The times of week at which the store is announced open are those of the
\* shifts, each taken from its day and followed over midnight, without the
\* break in it.
Shift(d)   == LET h == hours[d]  begin == d * Day + From(h)
                  end == d * Day + To(h) + (IF Overnight(h) THEN Day ELSE 0)
              IN {t % (Week * Day) : t \in begin..(end - 1)}
                   \ {t % (Week * Day) : t \in (d * Day + h.breakStart)..(d * Day + h.breakEnd - 1)}
OpenAsPlanned ==
  manual /\ ~NoRows =>
    (OpeningAt(clock).open <=> clock \in UNION {Shift(d) : d \in {e \in DaysOfWeek : hours[e] \in DayRows}})

\* What a closed store announces is kept: it is closed until then, and open then.
PromiseKept ==
  LET o == OpeningAt(clock)
      then == (clock \div Day + o.day) * Day + o.at
  IN manual /\ ~o.open /\ o.at >= 0 =>
       /\ OpeningAt(then % (Week * Day)).open
       /\ \A t \in clock..(then - 1) : ~OpeningAt(t % (Week * Day)).open

\* A store is open when its plan or its owner says so, and until when it says.
HoursKept == OpenAsPlanned /\ PromiseKept

-----------------------------------------------------------------------------
\* "Proximo horario de abertura em ate 7 dias ... Vazio se aberta ou se nao ha
\* horario cadastrado" (opening.go:41-42): a store that opens on one day of the
\* week, asked after it closed, has none to tell.
OpeningIsAnnounced == manual /\ ~NoRows => OpeningAt(clock).open \/ OpeningAt(clock).at >= 0
=============================================================================
