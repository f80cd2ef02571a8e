-------------------------- MODULE PaymentSettlement --------------------------
(***************************************************************************)
(* The money path of payment_api: a charge is created, confirmed, settled   *)
(* (the store's share credited to its wallet, or a repasse debt recorded),  *)
(* refunded, approved or rejected by an admin, and picked up by the         *)
(* reconciliation job.                                                      *)
(*                                                                         *)
(* Every handler is a sequence of separately committed database calls, so   *)
(* it is a process with a pc: the row it read (snap) and the gateway answer *)
(* it read (seen) may be old when it acts on them.  A crash drops every     *)
(* running handler between two calls.  Wallet movements are steps of        *)
(* WalletLedger, whose atomicity WalletTx establishes.                      *)
(***************************************************************************)
EXTENDS WalletLedger, FiniteSets, FiniteSetsExt

CONSTANTS
  Payments,      \* rows of payments; a charge id is the payment itself
  Orders,
  Handlers,      \* request goroutines
  Reconciler,    \* the goroutine of StartPaymentReconciliation
  NoPayment,     \* an idle worker has no payment
  Kind,          \* how each payment is charged, see Kinds
  OrderOf,       \* payments.order_id
  StoreOf,       \* payments.establishment_id: the wallet of the store
  Shares,        \* the store's shares of a payment, in cents, that the zone's
                 \* percentages may give: they are read at every settlement
  DebtAmount,    \* delivery + commission owed by the store for an order
  CreditLimit,   \* REPASSE_CREDIT_LIMIT_CENTS
  WithdrawRefs,  \* references of the stores' withdrawals ("wd:...")
  KnownCharges,  \* charges the webhook's gateway, AbacatePay, answers for
  Reviewed,      \* payments an admin approves or rejects by hand
  SplitAmounts,  \* store shares an admin may write with ProcessSplit
  Serial,        \* TRUE: one handler runs at a time (no interleaving)
  MaxCrashes,    \* bound: process restarts
  MaxDbErrors    \* bound: failed database calls

\* "pix": custody, with a charge id.  "noid": custody without one (cards and
\* the PIX branch of ProcessPayment).  "origin": split at the origin.
\* "repasse": at the origin, the store receiving everything and owing its part.
Kinds == {"pix", "noid", "origin", "repasse"}

ASSUME PaymentAssumption ==
  /\ Kind \in [Payments -> Kinds]
  /\ OrderOf \in [Payments -> Orders]
  /\ StoreOf \in [Payments -> Wallets]
  /\ Shares \in [Payments -> (SUBSET (Amounts \cup {0})) \ {{}}]
  /\ SplitAmounts \subseteq Amounts \cup {0}
  /\ Reviewed \subseteq Payments
  /\ KnownCharges \subseteq Payments
  /\ Payments \cup WithdrawRefs \subseteq Refs
  /\ Payments \cap WithdrawRefs = {}
  /\ Reconciler \notin Handlers
  /\ NoPayment \notin Payments
  /\ CreditLimit \in Nat /\ DebtAmount \in [Orders -> Nat]
  /\ Serial \in BOOLEAN
  /\ MaxCrashes \in Nat /\ MaxDbErrors \in Nat

Workers == Handlers \cup {Reconciler}

VARIABLES
  gateway,   \* the status the payment gateway holds for each charge
  row,       \* the payments table
  debt,      \* establishment_debts, one row per order
  points,    \* orders with an "earn" row in loyalty_transactions
  refused,   \* payments whose reversal was logged as "NAO debitada"
  pc, on,    \* each worker's place and payment
  seen,      \* the gateway status the worker acts on
  snap,      \* the payments row the worker read
  mark,      \* establishment_credited_at is among the worker's setFields
  share,     \* the store's share among the split_rules of its setFields
  batch,     \* rows the reconciliation query returned and not yet settled
  crashes, dbErrors

workerVars == <<pc, on, seen, snap, mark, share, batch>>
vars == <<balance, ledger, gateway, row, debt, points, refused, workerVars,
          crashes, dbErrors>>

GatewayStatuses == {"none", "PENDING", "CONFIRMED", "EXPIRED", "CANCELLED",
                    "REFUNDED", "REFUSED"}
\* "none": the row does not exist.
RowStatuses == {"none", "PENDING", "CONFIRMED", "EXPIRED", "CANCELLED",
                "REFUNDED", "REFUSED", "REJECTED", "SPLIT"}
\* The age of confirmed_at: unset, inside the 2 min grace period, inside the
\* 7 day window of the job, beyond it.
Ages == {"none", "fresh", "due", "old"}

Row == [status : RowStatuses, confirmedAt : Ages, creditedAt : BOOLEAN,
        rules : Amounts \cup {0}]
NoRow == [status |-> "none", confirmedAt |-> "none", creditedAt |-> FALSE,
          rules |-> 0]

PCs == {"idle", "insert", "confirm.check", "status.read", "status.write",
        "publish.read", "settle.pay", "settle.write", "settle.points",
        "refund.read", "refund.reverse", "refund.write"}

TypeOK == /\ LedgerTypeOK
          /\ gateway \in [Payments -> GatewayStatuses]
          /\ row \in [Payments -> Row]
          /\ debt \in [Orders -> {"none", "open", "waived"}]
          /\ points \subseteq Orders
          /\ refused \subseteq Payments
          /\ pc \in [Workers -> PCs]
          /\ on \in [Workers -> Payments \cup {NoPayment}]
          /\ \A w \in Workers : pc[w] # "idle" => on[w] \in Payments
          /\ seen \in [Workers -> GatewayStatuses]
          /\ snap \in [Workers -> Row]
          /\ mark \in [Workers -> BOOLEAN]
          /\ share \in [Workers -> Amounts \cup {0}]
          /\ batch \subseteq Payments \X Row
          /\ crashes \in 0..MaxCrashes
          /\ dbErrors \in 0..MaxDbErrors

Init == /\ LedgerInit
        /\ gateway = [p \in Payments |-> "none"]
        /\ row = [p \in Payments |-> NoRow]
        /\ debt = [o \in Orders |-> "none"]
        /\ points = {}
        /\ refused = {}
        /\ pc = [w \in Workers |-> "idle"]
        /\ on = [w \in Workers |-> NoPayment]
        /\ seen = [w \in Workers |-> "none"]
        /\ snap = [w \in Workers |-> NoRow]
        /\ mark = [w \in Workers |-> FALSE]
        /\ share = [w \in Workers |-> 0]
        /\ batch = {}
        /\ crashes = 0
        /\ dbErrors = 0

-----------------------------------------------------------------------------
AtOrigin(p)  == Kind[p] \in {"origin", "repasse"}   \* payments.split_at_origin
HasCharge(p) == Kind[p] # "noid"                    \* abacatepay_id <> ''
RefAlwaysEmpty(p) == NoRef   \* mutant of Ref: the call forgets the reference

\* The reference of the store's credit and of its reversal: abacatepay_id.
Ref(p)       == IF HasCharge(p) THEN p ELSE NoRef

At(w, step)   == pc[w] = step
Goto(w, step) == pc' = [pc EXCEPT ![w] = step]

\* A worker takes a new job; under Serial it waits for every other one.
Free(w) == /\ At(w, "idle")
           /\ Serial => /\ \A v \in Workers : At(v, "idle")
                        /\ w # Reconciler => batch = {}

\* A free goroutine starts a job on p.
Start(w, p, step) == Free(w) /\ Goto(w, step) /\ on' = [on EXCEPT ![w] = p]

\* The job ends, with or without an error the caller sees.
Finish(w) == /\ Goto(w, "idle")
             /\ on' = [on EXCEPT ![w] = NoPayment]
             /\ seen' = [seen EXCEPT ![w] = "none"]
             /\ snap' = [snap EXCEPT ![w] = NoRow]
             /\ mark' = [mark EXCEPT ![w] = FALSE]
             /\ share' = [share EXCEPT ![w] = 0]

Continue(w, step) == Goto(w, step) /\ UNCHANGED <<on, seen, snap, mark, share>>

SetRow(p, fields) == row' = [row EXCEPT ![p] = fields]

money == <<balance, ledger, debt, points, refused>>
faults == <<crashes, dbErrors>>

-----------------------------------------------------------------------------
(* Charging: pix.go, card.go.  The gateway is charged before the row exists. *)

OpenDebt(s) ==
  MapThenSumSet(LAMBDA o : DebtAmount[o],
    {o \in Orders : debt[o] = "open"
                    /\ \E p \in Payments : OrderOf[p] = o /\ StoreOf[p] = s})

\* debtBlocksNewOrder: reaching the limit is enough.
ChargeDenied(p) == OpenDebt(StoreOf[p]) >= CreditLimit

\* The router creates the charge; a card is answered at once.
CreateCharge(w, p, answer) ==
  /\ Start(w, p, "insert")
  /\ row[p].status = "none" /\ gateway[p] = "none" /\ ~ChargeDenied(p)
  /\ HasCharge(p) => answer = "PENDING"
  /\ gateway' = [gateway EXCEPT ![p] = answer]
  /\ seen' = [seen EXCEPT ![w] = answer]
  /\ UNCHANGED <<row, snap, mark, share, batch, money, faults>>

InsertPayment(w) ==
  /\ At(w, "insert")
  /\ SetRow(on[w], [NoRow EXCEPT !.status = seen[w],
                      !.confirmedAt = IF seen[w] = "CONFIRMED" THEN "fresh" ELSE "none"])
  /\ Finish(w)
  /\ UNCHANGED <<gateway, batch, money, faults>>

\* The gateway moves a charge on its own (external).
GatewayMoves(p, status) ==
  /\ HasCharge(p)
  /\ \/ gateway[p] = "PENDING" /\ status \in {"CONFIRMED", "EXPIRED", "CANCELLED"}
     \/ gateway[p] = "CONFIRMED" /\ status = "REFUNDED"
  /\ gateway' = [gateway EXCEPT ![p] = status]
  /\ UNCHANGED <<row, workerVars, money, faults>>

-----------------------------------------------------------------------------
(* HandlePaymentWebhook.  A webhook is only a hint: the handler asks the     *)
(* gateway for the status and acts on the answer, however late.  The gateway *)
(* may send it early, late, again, or never.                                 *)

HandlePaymentWebhook(w, p) ==
  /\ HasCharge(p) /\ p \in KnownCharges /\ gateway[p] # "none"
  /\ Start(w, p, CASE gateway[p] = "REFUNDED"  -> "refund.read"
                   [] gateway[p] = "CONFIRMED" -> "confirm.check"
                   [] OTHER                    -> "status.read")
  /\ seen' = [seen EXCEPT ![w] = gateway[p]]
  /\ UNCHANGED <<gateway, row, snap, mark, share, batch, money, faults>>

\* A CONFIRMED answer for a payment already REFUNDED is ignored.
ConfirmCheck(w) ==
  /\ At(w, "confirm.check")
  /\ IF row[on[w]].status = "REFUNDED" THEN Finish(w) ELSE Continue(w, "status.read")
  /\ UNCHANGED <<gateway, row, batch, money, faults>>

\* updateLocalPaymentStatus is left: a CONFIRMED one goes on to
\* publishPaymentApproved, any other status ends the handler.
AfterStatus(w) ==
  IF seen[w] = "CONFIRMED" THEN Continue(w, "publish.read") ELSE Finish(w)

\* Mutant of StatusRead: an equal status is not skipped.
StatusReadNoSkip(w) ==
  /\ At(w, "status.read")
  /\ IF row[on[w]].status = "none" THEN AfterStatus(w) ELSE Continue(w, "status.write")
  /\ UNCHANGED <<gateway, row, batch, money, faults>>

\* updateLocalPaymentStatus reads the row and skips an equal status ...
StatusRead(w) ==
  /\ At(w, "status.read")
  /\ IF row[on[w]].status \in {"none", seen[w]} THEN AfterStatus(w)
                                              ELSE Continue(w, "status.write")
  /\ UNCHANGED <<gateway, row, batch, money, faults>>

\* ... and writes whatever the row has become since.
StatusWrite(w) ==
  /\ At(w, "status.write")
  /\ LET p == on[w]
     IN SetRow(p, [row[p] EXCEPT !.status = seen[w],
                     !.confirmedAt = IF seen[w] = "CONFIRMED" THEN "fresh" ELSE @])
  /\ AfterStatus(w)
  /\ UNCHANGED <<gateway, batch, money, faults>>

-----------------------------------------------------------------------------
(* publishPaymentApproved and settlePaymentApproved. *)

PublishRead(w) ==
  /\ At(w, "publish.read")
  /\ IF row[on[w]].status = "none"
       THEN Finish(w)
       ELSE /\ Goto(w, "settle.pay")
            /\ snap' = [snap EXCEPT ![w] = row[on[w]]]
            /\ UNCHANGED <<on, seen, mark, share>>
  /\ UNCHANGED <<gateway, row, batch, money, faults>>

\* The store's share, computed first of all from the percentages of that moment,
\* goes into the setFields, with the mark or without.
PayDone(w, marked, computed) ==
  /\ Goto(w, "settle.write")
  /\ mark' = [mark EXCEPT ![w] = marked]
  /\ share' = [share EXCEPT ![w] = computed]
  /\ UNCHANGED <<gateway, row, on, seen, snap, batch, points, refused, faults>>

\* Mutant of SettleSkip: what is skipped is marked as paid.
SettleSkipMarks(w) ==
  /\ At(w, "settle.pay")
  /\ snap[w].creditedAt \/ snap[w].status = "REFUNDED"
  /\ \E computed \in Shares[on[w]] : PayDone(w, TRUE, computed)
  /\ UNCHANGED <<balance, ledger, debt>>

\* The snapshot says there is nothing to pay.
SettleSkip(w) ==
  /\ At(w, "settle.pay")
  /\ snap[w].creditedAt \/ snap[w].status = "REFUNDED"
  /\ \E computed \in Shares[on[w]] : PayDone(w, FALSE, computed)
  /\ UNCHANGED <<balance, ledger, debt>>

ToPay(w) == At(w, "settle.pay") /\ ~snap[w].creditedAt /\ snap[w].status # "REFUNDED"

\* The store was paid at the origin; a repasse order leaves a debt, created
\* ON CONFLICT (order_id) DO NOTHING.
SettleAtOrigin(w) ==
  LET p == on[w]  o == OrderOf[p]
  IN /\ ToPay(w) /\ AtOrigin(p)
     /\ debt' = IF Kind[p] = "repasse" /\ debt[o] = "none"
                  THEN [debt EXCEPT ![o] = "open"] ELSE debt
     /\ \E computed \in Shares[p] : PayDone(w, TRUE, computed)
     /\ UNCHANGED <<balance, ledger>>

\* Mutant of SettleCredit: ErrDuplicateCredit is an error like any other.
SettleCreditDuplicateFails(w) ==
  LET p == on[w]  s == StoreOf[p]
  IN /\ ToPay(w) /\ ~AtOrigin(p)
     /\ \E computed \in Shares[p] \ {0} :
          \/ /\ AdjustWalletBalance(s, "credit", computed, Ref(p))
             /\ PayDone(w, TRUE, computed)
          \/ /\ Duplicate(s, "credit", Ref(p))
             /\ Finish(w)
             /\ UNCHANGED <<balance, ledger, gateway, row, batch, points, refused, faults>>
     /\ UNCHANGED debt

\* Custody: credit the store's wallet; a duplicate credit counts as paid,
\* whatever amount it was made of.
SettleCredit(w) ==
  LET p == on[w]  s == StoreOf[p]
  IN /\ ToPay(w) /\ ~AtOrigin(p)
     /\ \E computed \in Shares[p] :
          \/ computed = 0 /\ PayDone(w, FALSE, 0) /\ UNCHANGED <<balance, ledger>>
          \/ /\ computed > 0
             /\ AdjustWalletBalance(s, "credit", computed, Ref(p))
             /\ PayDone(w, TRUE, computed)
          \/ /\ computed > 0 /\ Duplicate(s, "credit", Ref(p))
             /\ PayDone(w, TRUE, computed)
             /\ UNCHANGED <<balance, ledger>>
     /\ UNCHANGED debt

\* Mutant of SettleWrite: the split rules are not among the fields.
SettleWriteNoRules(w) ==
  /\ At(w, "settle.write")
  /\ SetRow(on[w], [row[on[w]] EXCEPT !.status = "CONFIRMED",
                                     !.creditedAt = @ \/ mark[w]])
  /\ Continue(w, "settle.points")
  /\ UNCHANGED <<gateway, batch, money, faults>>

\* The final UPDATE: always CONFIRMED, the split rules just computed, also over
\* those of an earlier credit, and the marks.
SettleWrite(w) ==
  /\ At(w, "settle.write")
  /\ LET p == on[w]
     IN SetRow(p, [status      |-> "CONFIRMED",
                   confirmedAt |-> IF snap[w].confirmedAt = "none"
                                     THEN "fresh" ELSE row[p].confirmedAt,
                   creditedAt  |-> row[p].creditedAt \/ mark[w],
                   rules       |-> share[w]])
  /\ Continue(w, "settle.points")
  /\ UNCHANGED <<gateway, batch, money, faults>>

\* EarnPointsForOrder gives the points of an order once.
EarnPoints(w) ==
  /\ At(w, "settle.points")
  /\ points' = points \cup {OrderOf[on[w]]}
  /\ Finish(w)
  /\ UNCHANGED <<gateway, row, batch, balance, ledger, debt, refused, faults>>

-----------------------------------------------------------------------------
(* processPaymentRefund. *)

\* Mutant of RefundRead: what is reversed need not have been CONFIRMED.
RefundReadAnyStatus(w) ==
  /\ At(w, "refund.read")
  /\ IF row[on[w]].status \in {"none", "REFUNDED"}
       THEN Finish(w)
       ELSE /\ Goto(w, "refund.reverse")
            /\ snap' = [snap EXCEPT ![w] = row[on[w]]]
            /\ UNCHANGED <<on, seen, mark, share>>
  /\ UNCHANGED <<gateway, row, batch, money, faults>>

RefundRead(w) ==
  /\ At(w, "refund.read")
  /\ LET r == row[on[w]]
     IN IF r.status \in {"none", "REFUNDED"}
          THEN Finish(w)
          ELSE /\ Goto(w, IF r.status = "CONFIRMED" THEN "refund.reverse"
                                                    ELSE "refund.write")
               /\ snap' = [snap EXCEPT ![w] = r]
               /\ UNCHANGED <<on, seen, mark, share>>
  /\ UNCHANGED <<gateway, row, batch, money, faults>>

ReverseDone(w) ==
  /\ Continue(w, "refund.write")
  /\ UNCHANGED <<gateway, row, batch, points, faults>>

\* reverseWalletCredit takes back the share found in the split rules the
\* handler read; waiveRepasseDebt forgives an open debt.  The reversal of a
\* top-up never happens here: TopUp refuses every payment of an order.
RefundReverse(w) ==
  LET p == on[w]  s == StoreOf[p]  o == OrderOf[p]  taken == snap[w].rules
  IN /\ At(w, "refund.reverse")
     /\ \/ /\ ~AtOrigin(p) /\ taken > 0
           /\ AdjustWalletBalance(s, "debit", taken, Ref(p))
           /\ UNCHANGED <<debt, refused>>
        \/ /\ ~AtOrigin(p) /\ taken > 0
           /\ Insufficient(s, "debit", taken) /\ ~HasLedgerEntry(s, "debit", Ref(p))
           /\ refused' = refused \cup {p}
           /\ UNCHANGED <<balance, ledger, debt>>
        \/ /\ ~AtOrigin(p)
           /\ taken = 0 \/ HasLedgerEntry(s, "debit", Ref(p))
           /\ UNCHANGED <<balance, ledger, debt, refused>>
        \/ /\ AtOrigin(p)
           /\ debt' = IF Kind[p] = "repasse" /\ debt[o] = "open"
                        THEN [debt EXCEPT ![o] = "waived"] ELSE debt
           /\ UNCHANGED <<balance, ledger, refused>>
     /\ ReverseDone(w)

RefundWrite(w) ==
  /\ At(w, "refund.write")
  /\ SetRow(on[w], [row[on[w]] EXCEPT !.status = "REFUNDED"])
  /\ Finish(w)
  /\ UNCHANGED <<gateway, batch, money, faults>>

-----------------------------------------------------------------------------
(* reconciliation.go: one query, then its rows settled one by one. *)

Due(p) == /\ row[p].status = "CONFIRMED" /\ ~row[p].creditedAt
          /\ row[p].confirmedAt = "due"

ReconcileScan ==
  /\ Free(Reconciler) /\ batch = {}
  /\ \E p \in Payments : Due(p)
  /\ batch' = {<<p, row[p]>> : p \in {q \in Payments : Due(q)}}
  /\ UNCHANGED <<gateway, row, pc, on, seen, snap, mark, share, money, faults>>

ReconcileNext ==
  \E item \in batch :
    /\ Start(Reconciler, item[1], "settle.pay")
    /\ snap' = [snap EXCEPT ![Reconciler] = item[2]]
    /\ batch' = batch \ {item}
    /\ UNCHANGED <<gateway, row, seen, mark, share, money, faults>>

-----------------------------------------------------------------------------
(* admin.go, split.go, and the store's withdrawals. *)

\* Mutant of ApprovePayment: UPDATE ... WHERE id = ?, whatever the status.
ApprovePaymentAnyStatus(w, p) ==
  /\ Free(w) /\ p \in Reviewed /\ row[p].status # "none"
  /\ SetRow(p, [row[p] EXCEPT !.status = "CONFIRMED", !.confirmedAt = "fresh"])
  /\ UNCHANGED <<gateway, workerVars, money, faults>>

\* UPDATE ... WHERE status = 'PENDING'; a charge goes on to be settled in a
\* goroutine, a payment without one is left to the reconciliation.
ApprovePayment(w, p) ==
  /\ Free(w) /\ p \in Reviewed /\ row[p].status = "PENDING"
  /\ SetRow(p, [row[p] EXCEPT !.status = "CONFIRMED", !.confirmedAt = "fresh"])
  /\ IF HasCharge(p) THEN Start(w, p, "publish.read") /\ UNCHANGED <<seen, snap, mark, share>>
                     ELSE UNCHANGED <<pc, on, seen, snap, mark, share>>
  /\ UNCHANGED <<gateway, batch, money, faults>>

RejectPayment(w, p) ==
  /\ Free(w) /\ p \in Reviewed /\ row[p].status = "PENDING"
  /\ SetRow(p, [row[p] EXCEPT !.status = "REJECTED"])
  /\ UNCHANGED <<gateway, workerVars, money, faults>>

\* Mutant of ProcessSplit: the status is not set to SPLIT.
ProcessSplitKeepsStatus(w, p, amount) ==
  /\ Free(w) /\ row[p].status # "none"
  /\ SetRow(p, [row[p] EXCEPT !.rules = amount])
  /\ UNCHANGED <<gateway, workerVars, money, faults>>

\* An admin writes split rules by hand, whatever the status.
ProcessSplit(w, p, amount) ==
  /\ Free(w) /\ row[p].status # "none"
  /\ SetRow(p, [row[p] EXCEPT !.status = "SPLIT", !.rules = amount])
  /\ UNCHANGED <<gateway, workerVars, money, faults>>

EstablishmentWithdraw(w, s, amount, r) ==
  /\ Free(w)
  /\ AdjustWalletBalance(s, "debit", amount, r)
  /\ UNCHANGED <<gateway, row, debt, points, refused, workerVars, faults>>

-----------------------------------------------------------------------------
(* Time and faults. *)

\* Two minutes, then seven days, pass over confirmed_at.
Ageing(p) ==
  /\ row[p].confirmedAt \in {"fresh", "due"}
  /\ SetRow(p, [row[p] EXCEPT !.confirmedAt = IF @ = "fresh" THEN "due" ELSE "old"])
  /\ UNCHANGED <<gateway, workerVars, money, faults>>

\* A database call of a handler fails: most handlers stop there; the webhook's
\* refund check and updateLocalPaymentStatus only log; a failed reversal is
\* logged and the payment is marked REFUNDED all the same.
DbError(w) ==
  /\ dbErrors < MaxDbErrors
  /\ dbErrors' = dbErrors + 1
  /\ \/ /\ pc[w] \in {"insert", "publish.read", "settle.pay", "settle.write",
                      "settle.points", "refund.read", "refund.write"}
        /\ Finish(w) /\ UNCHANGED refused
     \/ At(w, "confirm.check") /\ Continue(w, "status.read") /\ UNCHANGED refused
     \/ pc[w] \in {"status.read", "status.write"} /\ AfterStatus(w) /\ UNCHANGED refused
     \/ /\ At(w, "refund.reverse")
        /\ IF AtOrigin(on[w]) THEN Kind[on[w]] = "repasse" ELSE snap[w].rules > 0
        /\ refused' = refused \cup {on[w]}
        /\ Continue(w, "refund.write")
  /\ UNCHANGED <<balance, ledger, debt, points, gateway, row, batch, crashes>>

\* The process dies: every handler and the reconciliation batch are lost.
Crash ==
  /\ crashes < MaxCrashes
  /\ batch # {} \/ \E w \in Workers : ~At(w, "idle")
  /\ crashes' = crashes + 1
  /\ pc' = [w \in Workers |-> "idle"]
  /\ on' = [w \in Workers |-> NoPayment]
  /\ seen' = [w \in Workers |-> "none"]
  /\ snap' = [w \in Workers |-> NoRow]
  /\ mark' = [w \in Workers |-> FALSE]
  /\ share' = [w \in Workers |-> 0]
  /\ batch' = {}
  /\ UNCHANGED <<gateway, row, money, dbErrors>>

-----------------------------------------------------------------------------
\* The next database call of the job a worker is running.
JobStep(w) ==
  \/ InsertPayment(w) \/ ConfirmCheck(w) \/ StatusRead(w) \/ StatusWrite(w)
  \/ PublishRead(w) \/ SettleSkip(w) \/ SettleAtOrigin(w) \/ SettleCredit(w)
  \/ SettleWrite(w) \/ EarnPoints(w)
  \/ RefundRead(w) \/ RefundReverse(w) \/ RefundWrite(w)

\* A request reaches a free goroutine.
Request(w) ==
  \/ \E p \in Payments :
       \/ \E answer \in {"PENDING", "CONFIRMED", "REFUSED"} : CreateCharge(w, p, answer)
       \/ HandlePaymentWebhook(w, p)
       \/ ApprovePayment(w, p) \/ RejectPayment(w, p)
       \/ \E amount \in SplitAmounts : ProcessSplit(w, p, amount)
  \/ \E s \in Wallets, amount \in Amounts, r \in WithdrawRefs :
       EstablishmentWithdraw(w, s, amount, r)

Reconcile == ReconcileScan \/ ReconcileNext

Next ==
  \/ \E w \in Workers : JobStep(w) \/ DbError(w)
  \/ \E w \in Handlers : Request(w)
  \/ Reconcile
  \/ \E p \in Payments : Ageing(p) \/ \E status \in GatewayStatuses : GatewayMoves(p, status)
  \/ Crash

\* Goroutines run; the job ticks every five minutes and at start-up.
Fairness == /\ \A w \in Workers : WF_vars(JobStep(w))
            /\ WF_vars(Reconcile)

Spec == Init /\ [][Next]_vars /\ Fairness

-----------------------------------------------------------------------------
Credited(p) == HasLedgerEntry(StoreOf[p], "credit", Ref(p))
Reversed(p) == HasLedgerEntry(StoreOf[p], "debit", Ref(p))

\* establishment_credited_at is never set on a payment that did not pay the
\* store: with the mark set, reconciliation would never come back
\* (webhook.go:402-440).
MarkIsBacked ==
  \A p \in Payments : row[p].creditedAt =>
    CASE Kind[p] \in {"pix", "noid"} -> Credited(p)
      [] Kind[p] = "repasse"         -> debt[OrderOf[p]] # "none"
      [] OTHER                       -> TRUE

\* A store is credited at most once for each of its payments ("tentar de novo
\* e seguro", reconciliation.go:22-28).
OneCreditPerPayment ==
  \A s \in Wallets :
    Cardinality({i \in DOMAIN ledger[s] : ledger[s][i].type = "credit"})
      <= Cardinality({p \in Payments : StoreOf[p] = s /\ ~AtOrigin(p)})

\* The amounts the wallet of the store was credited, or debited, for a payment.
Moved(p, type) ==
  {entry.amount : entry \in {e \in Range(ledger[StoreOf[p]]) : e.type = type /\ e.ref = Ref(p)}}

\* The zone's percentages give the payment one share, whenever it is settled.
Steady(p) == \E amount \in Shares[p] : Shares[p] = {amount}

\* Handlers one at a time, and no split rules that an admin wrote by hand meet a
\* crash or a failed call: a refund reads those as if a settlement had written them.
Undisturbed == Serial /\ (SplitAmounts = {} \/ crashes + dbErrors = 0)

\* No store pays back a payment it never received, however often the payment was
\* settled and its split rules computed anew (webhook.go:161, 192).
NoReversalWithoutCredit ==
  Undisturbed => \A p \in Payments : HasCharge(p) /\ Reversed(p) => Credited(p)

\* And what it pays back is what it received, to the cent, as long as the zone's
\* percentages do not move: every replay writes split_rules over those of the
\* credit (webhook.go:374-377, 441), and the refund reads what it finds.
PaysBackTheCredit ==
  Undisturbed =>
    \A p \in Payments : HasCharge(p) /\ Steady(p) => Moved(p, "debit") \subseteq Moved(p, "credit")

\* Tables well typed, and a refund is of something the store received, of all of
\* it where the percentages stand still (webhook.go:161, 192-206, 246-300).
SettlementInv == TypeOK /\ NoReversalWithoutCredit /\ PaysBackTheCredit

\* When a CONFIRMED payment becomes REFUNDED and no process died and no call
\* failed, the credit of its store has been taken back, its debt waived, or the
\* refusal was logged for a person to look at (webhook.go:108-116, 193-196); unless
\* the percentages may leave the store nothing, for a replay then forgets the share
\* it was credited.
RefundIsReversed ==
  [][\A p \in Payments :
       /\ row[p].status = "CONFIRMED" /\ row'[p].status = "REFUNDED"
       /\ HasCharge(p) /\ crashes + dbErrors = 0
       => \/ p \in refused
          \/ ~AtOrigin(p) /\ (Credited(p) /\ 0 \notin Shares[p] => Reversed(p))
          \/ AtOrigin(p) /\ (Kind[p] = "repasse" => debt[OrderOf[p]] # "open")]_vars

\* Once REFUNDED, a payment is neither confirmed again nor credited again; only
\* an admin's ProcessSplit still writes on it ("prevents late CONFIRMED webhooks
\* from re-crediting a refunded payment", webhook.go:584-585).
RefundIsFinal ==
  [][\A p \in Payments : row[p].status = "REFUNDED" =>
       /\ row'[p].status \in {"REFUNDED", "SPLIT"}
       /\ Credited(p)' => Credited(p)]_vars

\* A replayed confirmation does not move confirmed_at forward again: while a
\* payment stays CONFIRMED its confirmation only grows older
\* (webhook.go:64-66, 386-397).
ConfirmedAtKept ==
  [][\A p \in Payments :
       /\ row[p].status = "CONFIRMED" /\ row'[p].status = "CONFIRMED"
       /\ row[p].confirmedAt # "none" /\ row'[p].confirmedAt = "fresh"
       => row[p].confirmedAt = "fresh"]_vars

\* With handlers one at a time, what a payment has been stays written: refunded
\* means given back and is final, and the time of its confirmation is the first one.
HistoryKept == RefundIsReversed /\ RefundIsFinal /\ ConfirmedAtKept

\* The reconciliation is the safety net of the money path: a confirmed payment
\* past the grace period ends up with its store paid, unless it leaves CONFIRMED
\* or the seven day window first, or its store has no share (reconciliation.go:10-20).
EveryPaymentSettles ==
  \A p \in Payments : Due(p) /\ 0 \notin Shares[p] ~> ~Due(p)

-----------------------------------------------------------------------------
(* What comments of the code say and the model refutes; README names the     *)
(* constants that show it.  No passing run checks these.                      *)

\* A refund takes from the store exactly what the settlement gave it ("Reverte SO o
\* que o settle de fato creditou", webhook.go:160; "split_rules: recalcula os mesmos
\* valores e sobrescreve", webhook.go:353).  When the zone's percentages move
\* between a settlement and its replay it takes another amount.
RefundTakesTheCredit ==
  \A p \in Payments : HasCharge(p) => Moved(p, "debit") \subseteq Moved(p, "credit")

\* A webhook never takes a confirmed payment back to where it was before ("skip
\* if payment is already at the target status or beyond", webhook.go:65).
StatusNeverGoesBack ==
  [][\A p \in Payments : row[p].status = "CONFIRMED" =>
       row'[p].status \notin {"PENDING", "EXPIRED", "CANCELLED"}]_vars

\* The open debt of a store stays within the limit ("um teto de fato - atingiu,
\* parou", repasse.go:48-50).
DebtCeiling == \A s \in Wallets : OpenDebt(s) <= CreditLimit
=============================================================================
