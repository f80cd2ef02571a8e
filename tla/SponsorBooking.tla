---------------------------- MODULE SponsorBooking ----------------------------
(***************************************************************************)
(* Sponsored listings: a store books days at the top of the list, in a zone *)
(* with a few slots per day, and pays from its wallet (in the transaction   *)
(* that creates the booking) or by PIX (the booking holds its slots for a   *)
(* day; a webhook or a periodic scan of the gateway turns it on).  Money    *)
(* that arrives when the slots are gone goes back to the store's wallet.    *)
(*                                                                         *)
(* Bookings are created under a lock of the zone, all in one step here.     *)
(* Every other handler reads the row, without a lock, in one step (snap)    *)
(* and writes it in another.  One zone; time is counted in days.            *)
(***************************************************************************)
EXTENDS WalletLedger, FiniteSets

CONSTANTS
  NumBookings,   \* bound: bookings made
  LastDay,       \* bound: days that pass, and that can be booked
  Slots,         \* SponsorSlotsPerDay
  MaxDays,       \* SponsorMaxDays of one booking
  PendingHold,   \* days an unpaid booking holds its slots (24 h)
  ScanWindow,    \* days the scan looks back (48 h)
  Savings,       \* what each store has in its wallet at first
  Handlers,      \* request goroutines
  Scanner,       \* the goroutine of the reconciliation loop
  NoBooking,     \* an idle worker has no booking
  MaxTroubles    \* bound: process restarts, while no handlers have met

Bookings == 1..NumBookings
Days     == 1..LastDay
Workers  == Handlers \cup {Scanner}

\* sponsor:<id>, sponsor-refund:<id>, and the sales a store lives from.
DebitRef(b)  == <<"sponsor", b>>
RefundRef(b) == <<"sponsor-refund", b>>
SaleRef(s)   == <<"sale", s>>

ASSUME SponsorAssumption ==
  /\ NumBookings \in Nat /\ LastDay \in Nat \ {0} /\ Slots \in Nat \ {0}
  /\ MaxDays \in Nat \ {0}
  /\ PendingHold \in Nat /\ ScanWindow \in Nat
  /\ Scanner \notin Handlers /\ NoBooking \notin Bookings
  /\ Days \subseteq Amounts
  /\ Savings \in [Wallets -> Amounts \cup {0}]
  /\ \A b \in Bookings : {DebitRef(b), RefundRef(b)} \subseteq Refs
  /\ \A s \in Wallets : SaleRef(s) \in Refs
  /\ MaxTroubles \in Nat

VARIABLES
  today,    \* the current day
  row,      \* sponsor_bookings
  pix,      \* what the gateway knows of the PIX of each booking
  job,      \* what each worker is doing
  scan,     \* the scan: the time it began, the bookings it has still to ask for
  clashed,  \* a job began on a booking another job was working on, or a day
            \* ended while a job or a scan was running
  crashes

vars == <<balance, ledger, today, row, pix, job, scan, clashed, crashes>>

\* Days 0: not set.  One day costs one unit of money.
Row == [status : {"none", "pending", "active", "cancelled"},
        store : Wallets, first : Days, last : Days, created : Days,
        expires : Nat, paid : BOOLEAN, charged : BOOLEAN, cancelledOn : 0..LastDay]
NoRow == [status |-> "none"]

Job == [step : {"issue", "confirm", "settle", "refund.read", "refund.write", "cancel"},
        on : Bookings, snap : Row \cup {NoRow}, now : Days]
Idle == [step |-> "idle", on |-> NoBooking]

TypeOK == /\ LedgerTypeOK
          /\ today \in Days
          /\ row \in [Bookings -> Row \cup {NoRow}]
          /\ pix \in [Bookings -> {"none", "open", "paid"}]
          /\ job \in [Workers -> Job \cup {Idle}]
          /\ \A w \in Workers : job[w] # Idle => row[job[w].on] # NoRow
          /\ scan \in [now : Days, batch : SUBSET Bookings]
          /\ clashed \in BOOLEAN
          /\ crashes \in 0..MaxTroubles

\* What a store has sold so far is in its wallet (PaymentSettlement).
Sold(s) ==
  IF Savings[s] = 0 THEN <<>>
  ELSE <<[type |-> "credit", amount |-> Savings[s], before |-> 0,
          after |-> Savings[s], ref |-> SaleRef(s)]>>

Init == /\ balance = Savings
        /\ ledger = [s \in Wallets |-> Sold(s)]
        /\ today = 1
        /\ row = [b \in Bookings |-> NoRow]
        /\ pix = [b \in Bookings |-> "none"]
        /\ job = [w \in Workers |-> Idle]
        /\ scan = [now |-> 1, batch |-> {}]
        /\ clashed = FALSE
        /\ crashes = 0

-----------------------------------------------------------------------------
At(w, step) == job[w] # Idle /\ job[w].step = step
Proceed(w, step) == job' = [job EXCEPT ![w].step = step]
Finish(w) == job' = [job EXCEPT ![w] = Idle]

\* Bound: after a clash only the scan, which is fair, may clash again; clashes
\* and crashes together are MaxTroubles.
Allowed(w) == w = Scanner \/ (~clashed /\ crashes < MaxTroubles)

\* An idle worker reads the booking and goes on with what it read.
Start(w, step, b, now) ==
  /\ job[w] = Idle
  /\ job' = [job EXCEPT ![w] = [step |-> step, on |-> b, snap |-> row[b], now |-> now]]
  /\ LET clash == \E v \in Workers : job[v].on = b
     IN /\ clash => Allowed(w)
        /\ clashed' = (clashed \/ clash)

SetRow(b, fields) == row' = [row EXCEPT ![b] = fields]

\* Mutant of Price: the last day is free.
PriceExclusive(r) == r.last - r.first

Price(r) == r.last - r.first + 1
Covers(r, d) == r.first <= d /\ d <= r.last

\* holdsSlot: active, or pending and not expired at time now.
Holds(r, now) ==
  r.status = "active" \/ (r.status = "pending" /\ r.expires > now)

\* SponsorOccupancy.
Occupancy(d, now) ==
  Cardinality({b \in Bookings : Holds(row[b], now) /\ Covers(row[b], d)})

\* SponsorCheckAvailability: no booking of the store overlaps and every day has
\* a slot left.
Available(s, days, now) ==
  /\ \A b \in Bookings : Holds(row[b], now) /\ row[b].store = s =>
       \A d \in days : ~Covers(row[b], d)
  /\ \A d \in days : Occupancy(d, now) < Slots

-----------------------------------------------------------------------------
\* Availability, the row and the debit in one transaction under the zone lock.
CreateSponsorBooking(w, s, first, last, payWith) ==
  LET b == 1 + Cardinality({a \in Bookings : row[a] # NoRow})
      new == [status |-> IF payWith = "wallet" THEN "active" ELSE "pending",
              store |-> s, first |-> first, last |-> last, created |-> today,
              expires |-> IF payWith = "wallet" THEN 0 ELSE today + PendingHold,
              paid |-> payWith = "wallet", charged |-> FALSE, cancelledOn |-> 0]
  IN /\ job[w] = Idle /\ b \in Bookings
     /\ today <= first /\ last - first \in 0..MaxDays - 1
     /\ Available(s, first..last, today)
     /\ SetRow(b, new)
     /\ IF payWith = "wallet"
          THEN /\ AdjustWalletBalance(s, "debit", Price(new), DebitRef(b))
               /\ UNCHANGED job
          ELSE /\ job' = [job EXCEPT ![w] =
                    [step |-> "issue", on |-> b, snap |-> new, now |-> today]]
               /\ UNCHANGED ledgerVars
     /\ UNCHANGED <<today, pix, scan, clashed, crashes>>

\* issueSponsorPix: the gateway makes the charge, or is down and the booking
\* waits for an admin.
IssueSponsorPix(w) ==
  LET b == job[w].on
  IN /\ At(w, "issue")
     /\ \/ /\ pix' = [pix EXCEPT ![b] = "open"]
           /\ SetRow(b, [row[b] EXCEPT !.charged = TRUE])
        \/ UNCHANGED <<pix, row>>
     /\ Finish(w)
     /\ UNCHANGED <<ledgerVars, today, scan, clashed, crashes>>

\* The store pays the PIX, whatever became of the booking (external).
PayPix(b) ==
  /\ pix[b] = "open"
  /\ pix' = [pix EXCEPT ![b] = "paid"]
  /\ UNCHANGED <<ledgerVars, today, row, job, scan, clashed, crashes>>

-----------------------------------------------------------------------------
(* Turning a booking on: activateSponsorBooking and its callers. *)

\* The webhook of a charge the gateway says is paid, early, late or again.
SettleSponsorCharge(w, b) ==
  /\ pix[b] = "paid" /\ row[b].charged
  /\ Start(w, "settle", b, today)
  /\ UNCHANGED <<ledgerVars, today, row, pix, scan, crashes>>

\* An admin saw the money arrive.
ConfirmSponsorPayment(w, b) ==
  /\ row[b].status \in {"pending", "active"}
  /\ Start(w, "confirm", b, today)
  /\ UNCHANGED <<ledgerVars, today, row, pix, scan, crashes>>

\* Mutant of SlotsGone: an expired booking is taken as still held.
SlotsGoneNever(r, now) == FALSE

\* An expired booking whose days were sold in the meantime.
SlotsGone(r, now) == r.expires <= now /\ ~Available(r.store, r.first..r.last, now)

\* Under the zone lock: the row is written by what was read before.
ActivateSponsorBooking(w) ==
  LET b == job[w].on  snap == job[w].snap
      usable == snap.status = "pending" /\ ~SlotsGone(snap, job[w].now)
  IN /\ At(w, "settle") \/ At(w, "confirm")
     /\ IF usable
          THEN SetRow(b, [row[b] EXCEPT !.status = "active", !.paid = TRUE, !.expires = 0])
          ELSE UNCHANGED row
     /\ IF usable \/ snap.status = "active" \/ At(w, "confirm")
          THEN Finish(w) ELSE Proceed(w, "refund.read")
     /\ UNCHANGED <<ledgerVars, today, pix, scan, clashed, crashes>>

-----------------------------------------------------------------------------
(* Giving money back. *)

\* The refund is credited, unless it was before.
Refund(b, r) ==
  \/ AdjustWalletBalance(r.store, "credit", Price(r), RefundRef(b))
  \/ Duplicate(r.store, "credit", RefundRef(b)) /\ UNCHANGED ledgerVars

\* refundSponsorToWallet: the row is read ...
RefundRead(w) ==
  /\ At(w, "refund.read")
  /\ job' = [job EXCEPT ![w].step = "refund.write", ![w].snap = row[job[w].on]]
  /\ UNCHANGED <<ledgerVars, today, row, pix, scan, clashed, crashes>>

\* ... cancelled unless it was, and the money credited.
RefundWrite(w) ==
  LET b == job[w].on
      kept == job[w].snap.status = "cancelled"
  IN /\ At(w, "refund.write")
     /\ SetRow(b, [row[b] EXCEPT !.status = IF kept THEN @ ELSE "cancelled",
                     !.cancelledOn = IF kept THEN @ ELSE job[w].now,
                     !.paid = TRUE])
     /\ Refund(b, job[w].snap)
     /\ Finish(w)
     /\ UNCHANGED <<today, pix, scan, clashed, crashes>>

\* The store cancels before the first day, an admin whenever.
CancelSponsorBooking(w, b, admin) ==
  /\ row[b].status \in {"pending", "active"}
  /\ admin \/ row[b].first > today
  /\ Start(w, "cancel", b, today)
  /\ UNCHANGED <<ledgerVars, today, row, pix, scan, crashes>>

\* Mutant of PaidBack: what was not paid is given back too.
PaidBackAlways(snap, now) == snap.first > now

\* Mutant of PaidBack: nothing is given back.
PaidBackNever(snap, now) == FALSE

\* A booking that was paid and has not begun.
PaidBack(snap, now) == snap.status = "active" /\ snap.first > now

CancelWrite(w) ==
  LET b == job[w].on
  IN /\ At(w, "cancel")
     /\ SetRow(b, [row[b] EXCEPT !.status = "cancelled", !.cancelledOn = job[w].now])
     /\ IF PaidBack(job[w].snap, job[w].now)
          THEN Refund(b, job[w].snap) ELSE UNCHANGED ledgerVars
     /\ Finish(w)
     /\ UNCHANGED <<today, pix, scan, clashed, crashes>>

-----------------------------------------------------------------------------
(* ReconcileSponsorPixOnce: one query, then the gateway is asked for each. *)

\* Mutant of Unpaid: a cancelled booking is not looked at.
UnpaidPendingOnly(b) ==
  /\ row[b].status = "pending" /\ row[b].charged /\ ~row[b].paid
  /\ row[b].created + ScanWindow >= today

Unpaid(b) ==
  /\ row[b].status \in {"pending", "cancelled"} /\ row[b].charged /\ ~row[b].paid
  /\ row[b].created + ScanWindow >= today

ScanStart ==
  /\ scan.batch = {} /\ job[Scanner] = Idle
  /\ \E b \in Bookings : Unpaid(b)
  /\ scan' = [now |-> today, batch |-> {b \in Bookings : Unpaid(b)}]
  /\ UNCHANGED <<ledgerVars, today, row, pix, job, clashed, crashes>>

\* A charge that is paid is settled as of the time the scan began.
ScanNext ==
  \E b \in scan.batch :
    /\ job[Scanner] = Idle
    /\ scan' = [scan EXCEPT !.batch = @ \ {b}]
    /\ IF pix[b] = "paid" THEN Start(Scanner, "settle", b, scan.now)
                             ELSE UNCHANGED <<job, clashed>>
    /\ UNCHANGED <<ledgerVars, today, row, pix, crashes>>

-----------------------------------------------------------------------------
Busy == scan.batch # {} \/ \E w \in Workers : job[w] # Idle

NextDay ==
  /\ today < LastDay
  /\ today' = today + 1
  /\ Busy => (~clashed /\ crashes < MaxTroubles)
  /\ clashed' = (clashed \/ Busy)
  /\ UNCHANGED <<ledgerVars, row, pix, job, scan, crashes>>

Crash ==
  /\ crashes < MaxTroubles /\ ~clashed /\ Busy
  /\ crashes' = crashes + 1
  /\ job' = [w \in Workers |-> Idle]
  /\ scan' = [scan EXCEPT !.batch = {}]
  /\ UNCHANGED <<ledgerVars, today, row, pix, clashed>>

JobStep(w) == \/ IssueSponsorPix(w) \/ ActivateSponsorBooking(w)
              \/ RefundRead(w) \/ RefundWrite(w) \/ CancelWrite(w)

SponsorRequest(w) ==
  \/ \E s \in Wallets, first, last \in Days, payWith \in {"wallet", "pix"} :
       CreateSponsorBooking(w, s, first, last, payWith)
  \/ \E b \in Bookings :
       \/ SettleSponsorCharge(w, b) \/ ConfirmSponsorPayment(w, b)
       \/ \E admin \in BOOLEAN : CancelSponsorBooking(w, b, admin)

Reconcile == ScanStart \/ ScanNext

Next == \/ \E w \in Workers : JobStep(w)
        \/ \E w \in Handlers : SponsorRequest(w)
        \/ Reconcile \/ NextDay \/ Crash
        \/ \E b \in Bookings : PayPix(b)

\* Goroutines run; the scan ticks every five minutes.
Fairness == (\A w \in Workers : WF_vars(JobStep(w))) /\ WF_vars(Reconcile)

Spec == Init /\ [][Next]_vars /\ Fairness

-----------------------------------------------------------------------------
Charged(b)  == row[b] # NoRow /\ HasLedgerEntry(row[b].store, "debit", DebitRef(b))
Refunded(b) == row[b] # NoRow /\ HasLedgerEntry(row[b].store, "credit", RefundRef(b))
Calm == ~clashed

\* No day has more bookings than slots, those that wait for their payment
\* included ("Dia lotado nao e vendido", sponsor_booking.go:21).
SlotsNotOversold == \A d \in Days : Occupancy(d, today) <= Slots

SlotsNotOversoldWhenCalm == Calm => SlotsNotOversold

\* What a store gets back it had paid, by its wallet, its PIX or an admin's
\* word, however handlers race (sponsor.go:275, sponsor_pix.go:199-201).
RefundOnlyPaid == \A b \in Bookings : Refunded(b) => row[b].paid

\* As long as no two handlers meet on a booking, a paid one is either on and
\* not given back, or off and given back unless an admin took it down after
\* its first day began (sponsor.go:264-285, sponsor_pix.go:193-201).
PaidIsHonoured ==
  Calm => \A b \in Bookings :
    /\ row[b].status = "active" => row[b].paid /\ ~Refunded(b)
    /\ row[b].status = "cancelled" /\ row[b].paid =>
         Refunded(b) \/ row[b].cancelledOn >= row[b].first

\* What the store booked and what the wallet shows are the same story.
SponsorInv == TypeOK /\ SlotsNotOversoldWhenCalm /\ RefundOnlyPaid /\ PaidIsHonoured

\* A PIX that is paid turns the booking on or comes back to the wallet, its
\* webhook lost or the process restarted, within the days the scan looks back;
\* unless two handlers meet, or an admin took the booking down after its first
\* day began (sponsor_pix.go:208-210).
EveryPixHonoured ==
  \A b \in Bookings :
    pix[b] = "paid" ~>
      \/ row[b].status = "active" \/ Refunded(b) \/ ~Calm
      \/ row[b].status # "none" /\ row[b].created + ScanWindow < today
      \/ row[b].status = "cancelled" /\ row[b].cancelledOn >= row[b].first
=============================================================================
