----------------------- MODULE PaymentSettlementProofs -----------------------
(***************************************************************************)
(* Proofs about PaymentSettlement, for any payments, kinds, shares, handlers, *)
(* crashes and failed calls: what is marked as paid was paid, no payment with   *)
(* a charge is credited twice, and, handlers one at a time, no store pays back  *)
(* what it never received, a refund is final and gives back what was paid, and *)
(* the first confirmation keeps its date.                                     *)
(*                                                                         *)
(* And about the router their charges go through, for any chain, any requests *)
(* and any number of callers: a request that is tied to one gateway is charged *)
(* nowhere else whatever answers are lost, and the test of a half open breaker *)
(* is being made unless it was wasted.                                        *)
(***************************************************************************)
EXTENDS PaymentSettlement, GatewayRouter, WalletLedgerProofs, FiniteSetTheorems

-----------------------------------------------------------------------------
(* Types.                                                                    *)

Tables == /\ gateway \in [Payments -> GatewayStatuses]
          /\ row \in [Payments -> Row]
          /\ debt \in [Orders -> {"none", "open", "waived"}]
          /\ points \subseteq Orders
          /\ refused \subseteq Payments

Jobs == /\ pc \in [Workers -> PCs]
        /\ on \in [Workers -> Payments \cup {NoPayment}]
        /\ \A w \in Workers : pc[w] # "idle" => on[w] \in Payments
        /\ seen \in [Workers -> GatewayStatuses]
        /\ snap \in [Workers -> Row]
        /\ mark \in [Workers -> BOOLEAN]
        /\ share \in [Workers -> Amounts \cup {0}]

Counts == /\ batch \subseteq Payments \X Row
          /\ crashes \in 0..MaxCrashes
          /\ dbErrors \in 0..MaxDbErrors

LEMMA ShapeIsTypeOK == TypeOK <=> LedgerTypeOK /\ Tables /\ Jobs /\ Counts
BY DEF TypeOK, Tables, Jobs, Counts

LEMMA FieldTypes ==
  /\ NoRow \in Row
  /\ \A r \in Row, s \in RowStatuses : [r EXCEPT !.status = s] \in Row
  /\ \A r \in Row, a \in Ages : [r EXCEPT !.confirmedAt = a] \in Row
  /\ \A r \in Row, s \in RowStatuses, a \in Ages :
       [r EXCEPT !.status = s, !.confirmedAt = a] \in Row
  /\ GatewayStatuses \subseteq RowStatuses
BY DEF NoRow, Row, RowStatuses, Ages, GatewayStatuses

LEMMA SharesOf == \A p \in Payments : Shares[p] \subseteq Amounts \cup {0}
BY PaymentAssumption

\* What Finish, Continue and the start of a job do to the workers.
LEMMA FinishJobs == ASSUME Jobs, NEW w \in Workers, Finish(w) PROVE Jobs'
<1>1. "idle" \in PCs /\ "none" \in GatewayStatuses /\ NoRow \in Row
  BY FieldTypes DEF PCs, GatewayStatuses
<1> QED BY <1>1 DEF Jobs, Finish, Goto

LEMMA ContinueJobs ==
  ASSUME Jobs, NEW w \in Workers, NEW step \in PCs, Continue(w, step), pc[w] # "idle"
  PROVE  Jobs'
BY DEF Jobs, Continue, Goto

LEMMA StartJobs ==
  ASSUME Jobs, NEW w \in Workers, NEW step \in PCs, NEW p \in Payments, Start(w, p, step),
         mark' = mark, share' = share,
         seen' = seen \/ \E s \in GatewayStatuses : seen' = [seen EXCEPT ![w] = s],
         snap' = snap \/ \E r \in Row : snap' = [snap EXCEPT ![w] = r]
  PROVE  Jobs'
BY DEF Jobs, Start, Goto

LEMMA SetRowTables ==
  ASSUME Tables, NEW p \in Payments, NEW r \in Row, SetRow(p, r),
         UNCHANGED <<gateway, debt, points, refused>>
  PROVE  Tables'
BY DEF Tables, SetRow

LEMMA OfJob ==
  ASSUME Jobs, Tables, NEW w \in Workers, pc[w] # "idle"
  PROVE  /\ on[w] \in Payments /\ OrderOf[on[w]] \in Orders /\ StoreOf[on[w]] \in Wallets
         /\ seen[w] \in GatewayStatuses /\ seen[w] \in RowStatuses /\ snap[w] \in Row
         /\ mark[w] \in BOOLEAN /\ share[w] \in Amounts \cup {0} /\ row[on[w]] \in Row /\ gateway[on[w]] \in GatewayStatuses
BY PaymentAssumption, FieldTypes DEF Jobs, Tables

LEMMA JobStepShape ==
  ASSUME Tables, Jobs, Counts, NEW w \in Workers, JobStep(w)
  PROVE  Tables' /\ Jobs' /\ Counts'
<1> USE DEF At
<1>0. pc[w] # "idle"
  BY DEF JobStep, InsertPayment, ConfirmCheck, StatusRead, StatusWrite, PublishRead, SettleSkip,
         SettleAtOrigin, ToPay, SettleCredit, SettleWrite, EarnPoints, RefundRead, RefundReverse,
         RefundWrite
<1>1. CASE InsertPayment(w)
  <2>1. [NoRow EXCEPT !.status = seen[w],
                      !.confirmedAt = IF seen[w] = "CONFIRMED" THEN "fresh" ELSE "none"] \in Row
    BY <1>0, OfJob, FieldTypes DEF Ages
  <2> QED BY <1>0, <1>1, <2>1, OfJob, SetRowTables, FinishJobs
          DEF InsertPayment, Counts, money, faults
<1>2. CASE ConfirmCheck(w)
  BY <1>0, <1>2, FinishJobs, ContinueJobs DEF ConfirmCheck, Tables, Counts, money, faults, PCs
<1>3. CASE StatusRead(w)
  BY <1>0, <1>3, FinishJobs, ContinueJobs
     DEF StatusRead, AfterStatus, Tables, Counts, money, faults, PCs
<1>4. CASE StatusWrite(w)
  <2>1. [row[on[w]] EXCEPT !.status = seen[w],
            !.confirmedAt = IF seen[w] = "CONFIRMED" THEN "fresh" ELSE @] \in Row
    <3>1. row[on[w]] \in Row /\ seen[w] \in RowStatuses
      BY <1>0, OfJob
    <3>2. row[on[w]].confirmedAt \in Ages /\ "fresh" \in Ages
      BY <3>1 DEF Row, Ages
    <3> QED BY <3>1, <3>2, FieldTypes
  <2>2. Tables'
    BY <1>0, <1>4, <2>1, OfJob, SetRowTables DEF StatusWrite, money
  <2> QED BY <1>0, <1>4, <2>2, FinishJobs, ContinueJobs
          DEF StatusWrite, AfterStatus, Counts, faults, PCs
<1>5. CASE PublishRead(w)
  <2>1. Jobs'
    <3>1. CASE row[on[w]].status = "none"
      BY <1>5, <3>1, FinishJobs DEF PublishRead
    <3>2. CASE row[on[w]].status # "none"
      BY <1>0, <1>5, <3>2, OfJob DEF PublishRead, Jobs, Goto, PCs
    <3> QED BY <3>1, <3>2
  <2> QED BY <1>5, <2>1 DEF PublishRead, Tables, Counts, money, faults
<1>6. ASSUME NEW marked \in BOOLEAN, NEW computed \in Amounts \cup {0}, PayDone(w, marked, computed),
             debt' \in [Orders -> {"none", "open", "waived"}]
      PROVE  Tables' /\ Jobs' /\ Counts'
  BY <1>0, <1>6 DEF PayDone, Tables, Jobs, Counts, Goto, faults, PCs
<1>7. CASE SettleSkip(w) \/ SettleCredit(w)
  <2>1. PICK marked \in BOOLEAN, computed \in Shares[on[w]] : PayDone(w, marked, computed)
    BY <1>7 DEF SettleSkip, SettleCredit
  <2>2. computed \in Amounts \cup {0} /\ debt' \in [Orders -> {"none", "open", "waived"}]
    BY <1>0, <1>7, OfJob, SharesOf DEF SettleSkip, SettleCredit, Tables
  <2> QED BY <1>6, <2>1, <2>2
<1>8. CASE SettleAtOrigin(w)
  <2>1. debt' \in [Orders -> {"none", "open", "waived"}]
    BY <1>0, <1>8, OfJob DEF SettleAtOrigin, Tables
  <2>2. PICK computed \in Shares[on[w]] : PayDone(w, TRUE, computed)
    BY <1>8 DEF SettleAtOrigin
  <2>3. computed \in Amounts \cup {0}
    BY <1>0, OfJob, SharesOf
  <2> QED BY <1>6, <2>1, <2>2, <2>3
<1>9. CASE SettleWrite(w)
  <2>1. [status |-> "CONFIRMED",
         confirmedAt |-> IF snap[w].confirmedAt = "none" THEN "fresh" ELSE row[on[w]].confirmedAt,
         creditedAt |-> row[on[w]].creditedAt \/ mark[w], rules |-> share[w]] \in Row
    BY <1>0, OfJob, PaymentAssumption DEF Row, RowStatuses, Ages
  <2>2. Tables'
    BY <1>0, <1>9, <2>1, OfJob, SetRowTables DEF SettleWrite, money
  <2> QED BY <1>0, <1>9, <2>2, ContinueJobs DEF SettleWrite, Counts, faults, PCs
<1>10. CASE EarnPoints(w)
  BY <1>0, <1>10, OfJob, FinishJobs DEF EarnPoints, Tables, Counts, faults
<1>11. CASE RefundRead(w)
  <2>1. Jobs'
    <3>1. CASE row[on[w]].status \in {"none", "REFUNDED"}
      BY <1>11, <3>1, FinishJobs DEF RefundRead
    <3>2. CASE row[on[w]].status \notin {"none", "REFUNDED"}
      BY <1>0, <1>11, <3>2, OfJob DEF RefundRead, Jobs, Goto, PCs
    <3> QED BY <3>1, <3>2
  <2> QED BY <1>11, <2>1 DEF RefundRead, Tables, Counts, money, faults
<1>12. CASE RefundReverse(w)
  <2>1. /\ debt' \in [Orders -> {"none", "open", "waived"}] /\ refused' \subseteq Payments
        /\ UNCHANGED <<gateway, row, points>>
    BY <1>0, <1>12, OfJob DEF RefundReverse, ReverseDone, Tables
  <2> QED BY <1>0, <1>12, <2>1, ContinueJobs
          DEF RefundReverse, ReverseDone, Tables, Counts, faults, PCs
<1>13. CASE RefundWrite(w)
  <2>1. [row[on[w]] EXCEPT !.status = "REFUNDED"] \in Row
    BY <1>0, OfJob, FieldTypes DEF RowStatuses
  <2> QED BY <1>0, <1>13, <2>1, OfJob, SetRowTables, FinishJobs
          DEF RefundWrite, Counts, money, faults
<1> QED BY <1>1, <1>2, <1>3, <1>4, <1>5, <1>7, <1>8, <1>9, <1>10, <1>11, <1>12, <1>13 DEF JobStep

\* A webhook starts the refund of what the gateway says was refunded, and
\* nothing else.
LEMMA WebhookStarts ==
  ASSUME NEW w \in Handlers, NEW p \in Payments, HandlePaymentWebhook(w, p)
  PROVE  /\ HasCharge(p)
         /\ \E step \in {"refund.read", "confirm.check", "status.read"} :
              Start(w, p, step) /\ (step = "refund.read" <=> gateway[p] = "REFUNDED")
         /\ seen' = [seen EXCEPT ![w] = gateway[p]]
         /\ UNCHANGED <<gateway, row, snap, mark, share, batch, money, faults>>
<1>1. CASE gateway[p] = "REFUNDED"
  <2>1. Start(w, p, "refund.read")
    BY <1>1, Zenon DEF HandlePaymentWebhook
  <2> QED BY <1>1, <2>1, Zenon DEF HandlePaymentWebhook
<1>2. CASE gateway[p] = "CONFIRMED"
  <2>1. gateway[p] # "REFUNDED"
    BY <1>2
  <2>2. Start(w, p, "confirm.check")
    BY <1>2, <2>1, Zenon DEF HandlePaymentWebhook
  <2>3. "confirm.check" # "refund.read"
    OBVIOUS
  <2> QED BY <2>1, <2>2, <2>3, Zenon DEF HandlePaymentWebhook
<1>3. CASE gateway[p] # "REFUNDED" /\ gateway[p] # "CONFIRMED"
  <2>1. Start(w, p, "status.read")
    BY <1>3, Zenon DEF HandlePaymentWebhook
  <2>2. "status.read" # "refund.read"
    OBVIOUS
  <2> QED BY <1>3, <2>1, <2>2, Zenon DEF HandlePaymentWebhook
<1> QED BY <1>1, <1>2, <1>3

LEMMA RequestShape ==
  ASSUME Tables, Jobs, Counts, NEW w \in Handlers, Request(w)
  PROVE  Tables' /\ Jobs' /\ Counts'
<1>0. w \in Workers
  BY DEF Workers
<1>1. ASSUME NEW p \in Payments, NEW answer \in {"PENDING", "CONFIRMED", "REFUSED"},
             CreateCharge(w, p, answer)
      PROVE  Tables' /\ Jobs' /\ Counts'
  <2>1. answer \in GatewayStatuses /\ "insert" \in PCs
    BY DEF GatewayStatuses, PCs
  <2>2. /\ Start(w, p, "insert") /\ seen' = [seen EXCEPT ![w] = answer]
        /\ gateway' = [gateway EXCEPT ![p] = answer]
        /\ UNCHANGED <<row, snap, mark, share, batch, money, faults>>
    BY <1>1 DEF CreateCharge
  <2>3. Jobs'
    BY <1>0, <2>1, <2>2, StartJobs
  <2> QED BY <2>1, <2>2, <2>3 DEF Tables, Counts, money, faults
<1>2. ASSUME NEW p \in Payments, HandlePaymentWebhook(w, p)
      PROVE  Tables' /\ Jobs' /\ Counts'
  <2>1. PICK step \in {"refund.read", "confirm.check", "status.read"} : Start(w, p, step)
    BY <1>2, WebhookStarts
  <2>2. /\ seen' = [seen EXCEPT ![w] = gateway[p]]
        /\ UNCHANGED <<gateway, row, snap, mark, share, batch, money, faults>>
    BY <1>2, WebhookStarts
  <2>3. gateway[p] \in GatewayStatuses /\ step \in PCs
    BY DEF Tables, PCs
  <2>4. Jobs'
    BY <1>0, <2>1, <2>2, <2>3, StartJobs
  <2> QED BY <2>2, <2>4 DEF Tables, Counts, money, faults
<1>3. ASSUME NEW p \in Payments, ApprovePayment(w, p)
      PROVE  Tables' /\ Jobs' /\ Counts'
  <2>1. [row[p] EXCEPT !.status = "CONFIRMED", !.confirmedAt = "fresh"] \in Row
    BY FieldTypes DEF Tables, RowStatuses, Ages
  <2>2. Tables'
    BY <1>3, <2>1, SetRowTables DEF ApprovePayment, money
  <2>3. CASE HasCharge(p)
    <3>1. Start(w, p, "publish.read") /\ UNCHANGED <<seen, snap, mark, share>> /\ "publish.read" \in PCs
      BY <1>3, <2>3 DEF ApprovePayment, PCs
    <3>2. Jobs'
      BY <1>0, <3>1, StartJobs
    <3> QED BY <1>3, <2>2, <3>2 DEF ApprovePayment, Counts, faults
  <2>4. CASE ~HasCharge(p)
    BY <1>3, <2>2, <2>4 DEF ApprovePayment, Counts, faults, Jobs
  <2> QED BY <2>3, <2>4
<1>4. ASSUME NEW p \in Payments, RejectPayment(w, p)
      PROVE  Tables' /\ Jobs' /\ Counts'
  <2>1. [row[p] EXCEPT !.status = "REJECTED"] \in Row
    BY FieldTypes DEF Tables, RowStatuses
  <2> QED BY <1>4, <2>1, SetRowTables
          DEF RejectPayment, Jobs, Counts, money, faults, workerVars
<1>5. ASSUME NEW p \in Payments, NEW amount \in SplitAmounts, ProcessSplit(w, p, amount)
      PROVE  Tables' /\ Jobs' /\ Counts'
  <2>1. [row[p] EXCEPT !.status = "SPLIT", !.rules = amount] \in Row
    BY PaymentAssumption DEF Tables, Row, RowStatuses
  <2> QED BY <1>5, <2>1, SetRowTables
          DEF ProcessSplit, Jobs, Counts, money, faults, workerVars
<1>6. ASSUME NEW s \in Wallets, NEW amount \in Amounts, NEW r \in WithdrawRefs,
             EstablishmentWithdraw(w, s, amount, r)
      PROVE  Tables' /\ Jobs' /\ Counts'
  BY <1>6 DEF EstablishmentWithdraw, Tables, Jobs, Counts, faults, workerVars
<1> QED BY <1>1, <1>2, <1>3, <1>4, <1>5, <1>6 DEF Request

LEMMA OtherShape ==
  ASSUME Tables, Jobs, Counts,
         \/ Reconcile \/ Crash
         \/ \E w \in Workers : DbError(w)
         \/ \E p \in Payments : Ageing(p)
         \/ \E p \in Payments, status \in GatewayStatuses : GatewayMoves(p, status)
  PROVE  Tables' /\ Jobs' /\ Counts'
<1>1. CASE ReconcileScan
  <2>1. {<<p, row[p]>> : p \in {q \in Payments : Due(q)}} \subseteq Payments \X Row
    BY DEF Tables
  <2> QED BY <1>1, <2>1 DEF ReconcileScan, Tables, Jobs, Counts, money, faults
<1>2. CASE ReconcileNext
  <2>1. PICK item \in batch :
          /\ Start(Reconciler, item[1], "settle.pay")
          /\ snap' = [snap EXCEPT ![Reconciler] = item[2]]
          /\ batch' = batch \ {item}
          /\ UNCHANGED <<gateway, row, seen, mark, share, money, faults>>
    BY <1>2 DEF ReconcileNext
  <2>2. item[1] \in Payments /\ item[2] \in Row
    BY DEF Counts
  <2>3. Reconciler \in Workers /\ "settle.pay" \in PCs
    BY DEF Workers, PCs
  <2>4. Jobs'
    BY <2>1, <2>2, <2>3, StartJobs
  <2> QED BY <2>1, <2>4 DEF Tables, Counts, money, faults
<1>3. CASE Crash
  <2>1. "idle" \in PCs /\ "none" \in GatewayStatuses /\ NoRow \in Row
    BY FieldTypes DEF PCs, GatewayStatuses
  <2>2. Jobs'
    BY <1>3, <2>1 DEF Crash, Jobs
  <2>3. crashes' \in 0..MaxCrashes
    BY <1>3, PaymentAssumption DEF Crash, Counts
  <2> QED BY <1>3, <2>2, <2>3 DEF Crash, Tables, Counts, money
<1>4. ASSUME NEW w \in Workers, DbError(w)
      PROVE  Tables' /\ Jobs' /\ Counts'
  <2>1. /\ dbErrors' \in 0..MaxDbErrors /\ crashes' = crashes /\ batch' = batch
        /\ UNCHANGED <<debt, points, gateway, row>>
    BY <1>4, PaymentAssumption DEF DbError, Counts
  <2>2. pc[w] # "idle"
    BY <1>4 DEF DbError, At
  <2>3. refused' \subseteq Payments
    BY <1>4, <2>2, OfJob DEF DbError, Tables
  <2>4. Jobs'
    <3>1. \/ Finish(w) \/ Continue(w, "status.read") \/ Continue(w, "publish.read")
          \/ Continue(w, "refund.write")
      BY <1>4 DEF DbError, AfterStatus
    <3> QED BY <2>2, <3>1, FinishJobs, ContinueJobs DEF PCs
  <2> QED BY <2>1, <2>3, <2>4 DEF Tables, Counts
<1>5. ASSUME NEW p \in Payments, Ageing(p)
      PROVE  Tables' /\ Jobs' /\ Counts'
  <2>1. [row[p] EXCEPT !.confirmedAt = IF @ = "fresh" THEN "due" ELSE "old"] \in Row
    BY FieldTypes DEF Tables, Ages
  <2> QED BY <1>5, <2>1, SetRowTables DEF Ageing, Jobs, Counts, money, faults, workerVars
<1>6. ASSUME NEW p \in Payments, NEW status \in GatewayStatuses, GatewayMoves(p, status)
      PROVE  Tables' /\ Jobs' /\ Counts'
  BY <1>6 DEF GatewayMoves, Tables, Jobs, Counts, money, faults, workerVars
<1> QED BY <1>1, <1>2, <1>3, <1>4, <1>5, <1>6 DEF Reconcile

-----------------------------------------------------------------------------
(* The ledger.                                                               *)

\* What a movement leaves behind: its own row, and those that were there.
LEMMA EntryAfter ==
  ASSUME LedgerTypeOK,
         NEW w \in Wallets, NEW type \in TxnTypes, NEW amount \in Amounts,
         NEW r \in References, AdjustWalletBalance(w, type, amount, r),
         NEW v \in Wallets, NEW t, NEW x
  PROVE  HasLedgerEntry(v, t, x)' <=>
           HasLedgerEntry(v, t, x) \/ (v = w /\ t = type /\ x = r)
<1>1. CASE v # w
  BY <1>1, PostedRow DEF HasLedgerEntry
<1>2. CASE v = w
  <2> DEFINE n == Len(ledger[w])
  <2>1. /\ n \in Nat /\ DOMAIN ledger[w] = 1..n /\ DOMAIN ledger'[w] = 1..(n + 1)
        /\ \A j \in 1..n : ledger'[w][j] = ledger[w][j]
        /\ ledger'[w][n + 1].type = type /\ ledger'[w][n + 1].ref = r
    <3>1. ledger'[w][n + 1] = NewEntry(w, type, amount, r)
      BY PostedRow
    <3>2. NewEntry(w, type, amount, r).type = type /\ NewEntry(w, type, amount, r).ref = r
      BY DEF NewEntry
    <3> QED BY <3>1, <3>2, PostedRow
  <2> HIDE DEF n
  <2>2. 1..(n + 1) = 1..n \cup {n + 1}
    BY <2>1
  <2> QED BY <1>2, <2>1, <2>2 DEF HasLedgerEntry
<1> QED BY <1>1, <1>2

\* The three ways money moves: a settlement pays a store, a refund takes it
\* back, a store withdraws.
Pays(p) == /\ ~AtOrigin(p)
           /\ \E amount \in Shares[p] \cap Amounts :
                AdjustWalletBalance(StoreOf[p], "credit", amount, Ref(p))

TakesBack(w) ==
  /\ pc[w] = "refund.reverse" /\ ~AtOrigin(on[w])
  /\ snap[w].rules \in Amounts /\ snap[w].rules > 0
  /\ AdjustWalletBalance(StoreOf[on[w]], "debit", snap[w].rules, Ref(on[w]))

Withdraws == \E s \in Wallets, amount \in Amounts, r \in WithdrawRefs :
               AdjustWalletBalance(s, "debit", amount, r)

LEMMA RefsOf ==
  /\ \A p \in Payments : Ref(p) \in References /\ StoreOf[p] \in Wallets
  /\ \A p \in Payments, q \in Payments : HasCharge(p) /\ Ref(q) = Ref(p) => p = q
  /\ \A p \in Payments, r \in WithdrawRefs : HasCharge(p) => Ref(p) # r
  /\ WithdrawRefs \subseteq References
BY PaymentAssumption, LedgerAssumption DEF Ref, References

LEMMA HowMoneyMoves ==
  ASSUME TypeOK, [Next]_vars
  PROVE  \/ UNCHANGED ledgerVars
         \/ \E w \in Workers : pc[w] = "settle.pay" /\ on[w] \in Payments /\ Pays(on[w])
         \/ \E w \in Workers : TakesBack(w)
         \/ Withdraws
<1> USE DEF ledgerVars
<1>1. ASSUME NEW w \in Workers, SettleCredit(w)
      PROVE  UNCHANGED ledgerVars \/ (pc[w] = "settle.pay" /\ on[w] \in Payments /\ Pays(on[w]))
  <2>1. on[w] \in Payments /\ pc[w] = "settle.pay"
    BY <1>1 DEF TypeOK, SettleCredit, ToPay, At
  <2>2. \A computed \in Shares[on[w]] : computed > 0 => computed \in Amounts
    BY <2>1, SharesOf
  <2> QED BY <1>1, <2>1, <2>2 DEF SettleCredit, Pays
<1>2. ASSUME NEW w \in Workers, RefundReverse(w)
      PROVE  UNCHANGED ledgerVars \/ TakesBack(w)
  <2>1. pc[w] = "refund.reverse" /\ snap[w].rules \in Amounts \cup {0}
    BY <1>2 DEF TypeOK, RefundReverse, At, Row
  <2>2. snap[w].rules > 0 => snap[w].rules \in Amounts
    BY <2>1
  <2> QED BY <1>2, <2>1, <2>2 DEF RefundReverse, TakesBack
<1>3. ASSUME NEW w \in Workers, JobStep(w), ~SettleCredit(w), ~RefundReverse(w)
      PROVE  UNCHANGED ledgerVars
  BY <1>3 DEF JobStep, InsertPayment, ConfirmCheck, StatusRead, StatusWrite, PublishRead,
              SettleSkip, SettleAtOrigin, SettleWrite, EarnPoints, RefundRead, RefundWrite, money
<1>4. ASSUME NEW w \in Handlers, Request(w)
      PROVE  UNCHANGED ledgerVars \/ Withdraws
  <2>1. ASSUME NEW p \in Payments, HandlePaymentWebhook(w, p)
        PROVE  UNCHANGED ledgerVars
    BY <2>1, WebhookStarts DEF money
  <2> QED BY <1>4, <2>1 DEF Request, CreateCharge, ApprovePayment, RejectPayment, ProcessSplit,
                           EstablishmentWithdraw, Withdraws, money
<1>5. CASE \/ Reconcile \/ Crash \/ UNCHANGED vars
           \/ \E w \in Workers : DbError(w)
           \/ \E p \in Payments : Ageing(p) \/ \E status \in GatewayStatuses : GatewayMoves(p, status)
  BY <1>5 DEF Reconcile, ReconcileScan, ReconcileNext, Crash, DbError, Ageing, GatewayMoves,
              vars, money
<1> QED BY <1>1, <1>2, <1>3, <1>4, <1>5 DEF Next

\* Whoever moves money does it as the ledger allows.
LEMMA SettlementMovesLedger ==
  TypeOK /\ [Next]_vars => [LedgerNext]_ledgerVars
<1> SUFFICES ASSUME TypeOK, [Next]_vars PROVE [LedgerNext]_ledgerVars
  OBVIOUS
<1>1. ASSUME NEW p \in Payments, Pays(p) PROVE LedgerNext
  BY <1>1, RefsOf DEF Pays, LedgerNext, TxnTypes
<1>2. ASSUME NEW w \in Workers, TakesBack(w) PROVE LedgerNext
  <2>1. on[w] \in Payments
    BY <1>2 DEF TypeOK, TakesBack
  <2> QED BY <1>2, <2>1, RefsOf DEF TakesBack, LedgerNext, TxnTypes
<1>3. ASSUME Withdraws PROVE LedgerNext
  BY <1>3, RefsOf DEF Withdraws, LedgerNext, TxnTypes
<1> QED BY <1>1, <1>2, <1>3, HowMoneyMoves

LEMMA TypeKeeps == TypeOK /\ LedgerInv /\ [Next]_vars => TypeOK' /\ LedgerInv'
<1> SUFFICES ASSUME TypeOK, LedgerInv, [Next]_vars PROVE TypeOK' /\ LedgerInv'
  OBVIOUS
<1>1. LedgerInv' /\ LedgerTypeOK'
  BY SettlementMovesLedger, LedgerNextInv DEF LedgerInv
<1>2. Tables /\ Jobs /\ Counts
  BY ShapeIsTypeOK
<1>3. ASSUME UNCHANGED vars PROVE Tables' /\ Jobs' /\ Counts'
  BY <1>2, <1>3 DEF vars, workerVars, Tables, Jobs, Counts
<1>4. Tables' /\ Jobs' /\ Counts'
  BY <1>2, <1>3, JobStepShape, RequestShape, OtherShape DEF Next
<1>5. (LedgerTypeOK /\ Tables /\ Jobs /\ Counts)' => TypeOK'
  BY DEF TypeOK, Tables, Jobs, Counts
<1> QED BY <1>1, <1>4, <1>5

-----------------------------------------------------------------------------
(* What is marked as paid was paid.                                          *)

Backed(p) == /\ Kind[p] \in {"pix", "noid"} => Credited(p)
             /\ Kind[p] = "repasse" => debt[OrderOf[p]] # "none"

\* Every credit in the ledger is the settlement of a payment in custody.
CreditsOK == \A s \in Wallets, r \in References :
  HasLedgerEntry(s, "credit", r) =>
    \E p \in Payments : StoreOf[p] = s /\ ~AtOrigin(p) /\ r = Ref(p)

\* Who carries the mark has paid; idle workers carry none.
MarksOK == /\ \A p \in Payments : row[p].creditedAt => Backed(p)
           /\ \A w \in Workers : pc[w] = "idle" => ~mark[w]
           /\ \A w \in Workers : mark[w] => Backed(on[w])

PayInv == TypeOK /\ LedgerInv /\ CreditsOK /\ MarksOK

LEMMA EntriesStay ==
  ASSUME TypeOK, [Next]_vars, NEW v \in Wallets, NEW t, NEW x
  PROVE  HasLedgerEntry(v, t, x) => HasLedgerEntry(v, t, x)'
<1>1. CASE UNCHANGED ledgerVars
  BY <1>1 DEF ledgerVars, HasLedgerEntry
<1>2. ASSUME LedgerNext PROVE HasLedgerEntry(v, t, x) => HasLedgerEntry(v, t, x)'
  BY <1>2, EntryAfter DEF LedgerNext, TypeOK
<1> QED BY <1>1, <1>2, SettlementMovesLedger

\* A row of the ledger that was not there is a payment's, or a store's debit.
LEMMA NewEntries ==
  ASSUME TypeOK, [Next]_vars, NEW v \in Wallets, NEW t, NEW x,
         HasLedgerEntry(v, t, x)', ~HasLedgerEntry(v, t, x)
  PROVE  \/ t = "credit" /\ \E w \in Workers : /\ pc[w] = "settle.pay" /\ on[w] \in Payments /\ Pays(on[w])
                                                 /\ StoreOf[on[w]] = v /\ x = Ref(on[w])
         \/ t = "debit" /\ \E w \in Workers : TakesBack(w) /\ x = Ref(on[w])
         \/ t = "debit" /\ x \in WithdrawRefs
<1>1. CASE UNCHANGED ledgerVars
  BY <1>1 DEF ledgerVars, HasLedgerEntry
<1>2. ASSUME NEW p \in Payments, Pays(p)
      PROVE  t = "credit" /\ StoreOf[p] = v /\ x = Ref(p)
  BY <1>2, EntryAfter, RefsOf DEF Pays, TypeOK, TxnTypes
<1>3. ASSUME NEW w \in Workers, TakesBack(w)
      PROVE  t = "debit" /\ x = Ref(on[w])
  <2>1. on[w] \in Payments
    BY <1>3 DEF TypeOK, TakesBack
  <2> QED BY <1>3, <2>1, EntryAfter, RefsOf DEF TakesBack, TypeOK, TxnTypes
<1>4. ASSUME Withdraws PROVE t = "debit" /\ x \in WithdrawRefs
  BY <1>4, EntryAfter, RefsOf DEF Withdraws, TypeOK, TxnTypes
<1> QED BY <1>1, <1>2, <1>3, <1>4, HowMoneyMoves

LEMMA CreditsKeep == PayInv /\ [Next]_vars => CreditsOK'
<1> SUFFICES ASSUME PayInv, [Next]_vars, NEW s \in Wallets, NEW r \in References,
                    HasLedgerEntry(s, "credit", r)'
             PROVE  \E p \in Payments : StoreOf[p] = s /\ ~AtOrigin(p) /\ r = Ref(p)
  BY DEF CreditsOK, AtOrigin, Ref, HasCharge
<1>1. CASE HasLedgerEntry(s, "credit", r)
  BY <1>1 DEF PayInv, CreditsOK
<1>2. CASE ~HasLedgerEntry(s, "credit", r)
  BY <1>2, NewEntries DEF PayInv, Pays
<1> QED BY <1>1, <1>2

\* A debt, once there, is waived but not forgotten.
LEMMA DebtStays ==
  ASSUME TypeOK, [Next]_vars, NEW o \in Orders, debt[o] # "none"
  PROVE  debt'[o] # "none"
<1>1. ASSUME NEW w \in Workers, JobStep(w) PROVE debt'[o] # "none"
  BY <1>1 DEF TypeOK, JobStep, InsertPayment, ConfirmCheck, StatusRead, StatusWrite, PublishRead,
              SettleSkip, SettleAtOrigin, SettleCredit, SettleWrite, EarnPoints, RefundRead,
              RefundReverse, RefundWrite, money
<1>2. ASSUME NEW w \in Handlers, Request(w) PROVE debt' = debt
  <2>1. ASSUME NEW p \in Payments, HandlePaymentWebhook(w, p) PROVE debt' = debt
    BY <2>1, WebhookStarts DEF money
  <2> QED BY <1>2, <2>1 DEF Request, CreateCharge, ApprovePayment, RejectPayment, ProcessSplit,
                           EstablishmentWithdraw, money
<1>3. CASE \/ Reconcile \/ Crash \/ UNCHANGED vars
           \/ \E w \in Workers : DbError(w)
           \/ \E p \in Payments : Ageing(p) \/ \E status \in GatewayStatuses : GatewayMoves(p, status)
  BY <1>3 DEF Reconcile, ReconcileScan, ReconcileNext, Crash, DbError, Ageing, GatewayMoves,
              vars, money
<1> QED BY <1>1, <1>2, <1>3 DEF Next

LEMMA BackedStays ==
  ASSUME TypeOK, [Next]_vars, NEW p \in Payments, Backed(p)
  PROVE  Backed(p)'
<1>1. StoreOf[p] \in Wallets /\ OrderOf[p] \in Orders
  BY PaymentAssumption
<1>2. Credited(p) => Credited(p)'
  BY <1>1, EntriesStay DEF Credited, Ref, HasCharge
<1>3. debt[OrderOf[p]] # "none" => debt'[OrderOf[p]] # "none"
  BY <1>1, DebtStays
<1> QED BY <1>2, <1>3 DEF Backed

\* What a settlement step pays for: when it ends with the mark, the store is
\* paid or its debt is recorded.
LEMMA PaidWhenMarked ==
  ASSUME PayInv, [Next]_vars, NEW w \in Workers, SettleCredit(w) \/ SettleAtOrigin(w)
  PROVE  /\ on'[w] = on[w] /\ pc'[w] # "idle" /\ on[w] \in Payments
         /\ mark'[w] => Backed(on[w])'
         /\ \A v \in Workers \ {w} : pc'[v] = pc[v] /\ on'[v] = on[v] /\ mark'[v] = mark[v]
         /\ SettleCredit(w) => share'[w] = 0 \/ Credited(on[w])'
         /\ share'[w] \in Shares[on[w]]
<1>0. PICK p \in Payments : p = on[w]
  BY DEF PayInv, TypeOK, SettleCredit, SettleAtOrigin, ToPay, At
<1>1. p \in Payments /\ StoreOf[p] \in Wallets /\ OrderOf[p] \in Orders /\ p = on[w]
  BY <1>0, PaymentAssumption
<1>2. /\ on'[w] = on[w] /\ pc'[w] # "idle"
      /\ \A v \in Workers \ {w} : pc'[v] = pc[v] /\ on'[v] = on[v] /\ mark'[v] = mark[v]
  BY DEF PayInv, TypeOK, SettleCredit, SettleAtOrigin, PayDone, Goto
<1>3. CASE SettleAtOrigin(w)
  <2>1. Kind[p] = "repasse" => debt'[OrderOf[p]] # "none"
    BY <1>1, <1>3 DEF PayInv, TypeOK, SettleAtOrigin
  <2>2. Kind[p] \notin {"pix", "noid"}
    BY <1>1, <1>3 DEF SettleAtOrigin, AtOrigin
  <2>3. ~SettleCredit(w)
    BY <1>3 DEF SettleAtOrigin, SettleCredit
  <2>4. share'[w] \in Shares[p]
    BY <1>1, <1>3 DEF PayInv, TypeOK, SettleAtOrigin, PayDone
  <2> QED BY <1>1, <1>2, <2>1, <2>2, <2>3, <2>4 DEF Backed
<1>4. CASE SettleCredit(w)
  <2>1. Kind[p] # "repasse"
    BY <1>1, <1>4 DEF SettleCredit, AtOrigin
  <2>0. PICK computed \in Shares[p] :
          \/ computed = 0 /\ PayDone(w, FALSE, 0) /\ UNCHANGED <<balance, ledger>>
          \/ /\ computed > 0 /\ AdjustWalletBalance(StoreOf[p], "credit", computed, Ref(p))
             /\ PayDone(w, TRUE, computed)
          \/ /\ computed > 0 /\ Duplicate(StoreOf[p], "credit", Ref(p))
             /\ PayDone(w, TRUE, computed) /\ UNCHANGED <<balance, ledger>>
    BY <1>1, <1>4 DEF SettleCredit
  <2>5. share'[w] = computed
    BY <2>0 DEF PayInv, TypeOK, PayDone
  <2>2. CASE computed = 0 /\ PayDone(w, FALSE, 0)
    <3>1. ~mark'[w]
      BY <2>2 DEF PayInv, TypeOK, PayDone
    <3> QED BY <1>1, <1>2, <2>2, <2>5, <3>1
  <2>3. CASE computed > 0 /\ AdjustWalletBalance(StoreOf[p], "credit", computed, Ref(p))
    <3>1. computed \in Amounts
      BY <1>1, <2>3, SharesOf
    <3>2. HasLedgerEntry(StoreOf[p], "credit", Ref(p))'
      BY <1>1, <2>3, <3>1, EntryAfter, RefsOf DEF PayInv, TypeOK, TxnTypes
    <3>3. Credited(p)'
      BY <3>2, <1>2 DEF Credited, Ref, HasCharge
    <3> QED BY <1>1, <1>2, <2>1, <2>5, <3>3 DEF Backed
  <2>4. CASE Duplicate(StoreOf[p], "credit", Ref(p))
    <3>1. PICK v \in Wallets : HasLedgerEntry(v, "credit", Ref(p))
      BY <2>4 DEF Duplicate
    <3>2. PICK q \in Payments : StoreOf[q] = v /\ Ref(p) = Ref(q)
      BY <1>1, <3>1, RefsOf DEF PayInv, CreditsOK
    <3>3. HasCharge(p)
      BY <2>4 DEF Duplicate, Ref
    <3>4. Credited(p)
      BY <1>1, <3>1, <3>2, <3>3, RefsOf DEF Credited
    <3>5. Credited(p)'
      BY <1>1, <1>2, <3>4, EntriesStay DEF Credited, Ref, HasCharge, PayInv
    <3> QED BY <1>1, <1>2, <2>1, <2>5, <3>5 DEF Backed
  <2> QED BY <2>0, <2>2, <2>3, <2>4
<1> QED BY <1>3, <1>4

\* Only the last write of a settlement sets establishment_credited_at.
LEMMA CreditedAtSet ==
  ASSUME TypeOK, [Next]_vars, NEW p \in Payments, row'[p].creditedAt
  PROVE  row[p].creditedAt \/ \E w \in Workers : on[w] = p /\ mark[w]
<1> USE DEF SetRow
<1>1. ASSUME NEW q \in Payments, NEW r \in Row, row' = [row EXCEPT ![q] = r],
             r.creditedAt => row[q].creditedAt \/ \E w \in Workers : on[w] = q /\ mark[w]
      PROVE  row[p].creditedAt \/ \E w \in Workers : on[w] = p /\ mark[w]
  BY <1>1 DEF TypeOK
<1>2. ASSUME NEW w \in Workers, JobStep(w)
      PROVE  row[p].creditedAt \/ \E v \in Workers : on[v] = p /\ mark[v]
  <2>0. pc[w] # "idle" => on[w] \in Payments /\ row[on[w]] \in Row
    BY DEF TypeOK
  <2>1. CASE InsertPayment(w)
    BY <2>0, <2>1 DEF InsertPayment, TypeOK, NoRow, At
  <2>2. CASE StatusWrite(w)
    BY <2>0, <2>2 DEF StatusWrite, TypeOK, At, Row
  <2>3. CASE SettleWrite(w)
    BY <2>0, <2>3 DEF SettleWrite, TypeOK, At
  <2>4. CASE RefundWrite(w)
    BY <2>0, <2>4 DEF RefundWrite, TypeOK, At, Row
  <2>5. CASE row' = row
    BY <2>5
  <2> QED BY <1>2, <2>1, <2>2, <2>3, <2>4, <2>5
          DEF JobStep, ConfirmCheck, StatusRead, PublishRead, SettleSkip, SettleAtOrigin,
              SettleCredit, PayDone, EarnPoints, RefundRead, RefundReverse, ReverseDone
<1>3. ASSUME NEW w \in Handlers, Request(w)
      PROVE  row[p].creditedAt
  <2>1. ASSUME NEW q \in Payments, HandlePaymentWebhook(w, q) PROVE row' = row
    BY <2>1, WebhookStarts
  <2>2. ASSUME NEW q \in Payments,
               ApprovePayment(w, q) \/ RejectPayment(w, q)
                 \/ \E amount \in SplitAmounts : ProcessSplit(w, q, amount)
        PROVE  row[p].creditedAt
    <3>1. row[q] \in Row /\ row[p] \in Row /\ row \in [Payments -> Row]
      BY DEF TypeOK
    <3> QED BY <2>2, <3>1 DEF ApprovePayment, RejectPayment, ProcessSplit, Row
  <2>3. CASE \/ \E q \in Payments, answer \in {"PENDING", "CONFIRMED", "REFUSED"} :
                  CreateCharge(w, q, answer)
             \/ \E s \in Wallets, amount \in Amounts, r \in WithdrawRefs :
                  EstablishmentWithdraw(w, s, amount, r)
    BY <2>3 DEF CreateCharge, EstablishmentWithdraw
  <2> QED BY <1>3, <2>1, <2>2, <2>3 DEF Request
<1>4. ASSUME NEW q \in Payments, Ageing(q) PROVE row[p].creditedAt
  BY <1>4 DEF Ageing, TypeOK, Row
<1>5. CASE \/ Reconcile \/ Crash \/ UNCHANGED vars
           \/ \E w \in Workers : DbError(w)
           \/ \E q \in Payments, status \in GatewayStatuses : GatewayMoves(q, status)
  BY <1>5 DEF Reconcile, ReconcileScan, ReconcileNext, Crash, DbError, GatewayMoves, vars
<1> QED BY <1>2, <1>3, <1>4, <1>5 DEF Next

\* What starting, continuing and ending a job do to the mark.
LEMMA MarkKept ==
  ASSUME TypeOK, MarksOK, NEW w \in Workers, NEW v \in Workers,
         \/ Finish(w)
         \/ pc[w] # "idle" /\ \E step \in PCs \ {"idle"} : Continue(w, step)
         \/ UNCHANGED <<pc, on, mark>>
         \/ \E p \in Payments, step \in PCs \ {"idle"} : Start(w, p, step) /\ mark' = mark
         \/ /\ pc[w] # "idle" /\ UNCHANGED <<on, mark>>
            /\ \E step \in PCs \ {"idle"} : Goto(w, step)
  PROVE  /\ pc'[v] = "idle" => ~mark'[v]
         /\ mark'[v] => mark[v] /\ on'[v] = on[v]
BY DEF TypeOK, MarksOK, Finish, Continue, Start, Free, At, Goto

LEMMA MarkSet ==
  ASSUME PayInv, [Next]_vars, NEW v \in Workers
  PROVE  /\ pc'[v] = "idle" => ~mark'[v]
         /\ mark'[v] => on'[v] = on[v] /\ (mark[v] \/ (on[v] \in Payments /\ Backed(on[v])'))
<1> DEFINE Kept == /\ pc'[v] = "idle" => ~mark'[v]
                   /\ mark'[v] => mark[v] /\ on'[v] = on[v]
<1>1. ASSUME NEW w \in Workers, JobStep(w), ~SettleCredit(w), ~SettleAtOrigin(w), ~SettleSkip(w)
      PROVE  Kept
  BY <1>1, MarkKept
     DEF PayInv, JobStep, InsertPayment, ConfirmCheck, StatusRead, StatusWrite, AfterStatus,
         PublishRead, SettleWrite, EarnPoints, RefundRead, RefundReverse, ReverseDone,
         RefundWrite, At, PCs
<1>2. ASSUME NEW w \in Workers, SettleSkip(w) PROVE Kept
  BY <1>2 DEF PayInv, TypeOK, MarksOK, SettleSkip, PayDone, Goto, At
<1>3. ASSUME NEW w \in Workers, SettleCredit(w) \/ SettleAtOrigin(w)
      PROVE  /\ pc'[v] = "idle" => ~mark'[v]
             /\ mark'[v] => on'[v] = on[v] /\ (mark[v] \/ (on[v] \in Payments /\ Backed(on[v])'))
  <2>1. CASE v = w
    BY <1>3, <2>1, PaidWhenMarked
  <2>2. CASE v # w
    BY <1>3, <2>2, PaidWhenMarked DEF PayInv, MarksOK
  <2> QED BY <2>1, <2>2
<1>4. ASSUME NEW w \in Handlers, Request(w) PROVE Kept
  <2>0. w \in Workers
    BY DEF Workers
  <2>1. ASSUME NEW p \in Payments, HandlePaymentWebhook(w, p) PROVE Kept
    <3>1. \E step \in PCs \ {"idle"} : Start(w, p, step)
      BY <2>1, WebhookStarts DEF PCs
    <3>2. mark' = mark
      BY <2>1, WebhookStarts
    <3> QED BY <2>0, <3>1, <3>2, MarkKept DEF PayInv
  <2>2. ASSUME NEW p \in Payments, CreateCharge(w, p, "PENDING") \/ CreateCharge(w, p, "CONFIRMED")
                                   \/ CreateCharge(w, p, "REFUSED") PROVE Kept
    BY <2>0, <2>2, MarkKept DEF PayInv, CreateCharge, PCs
  <2>3. ASSUME NEW p \in Payments, ApprovePayment(w, p) PROVE Kept
    BY <2>0, <2>3, MarkKept DEF PayInv, ApprovePayment, PCs
  <2>4. CASE \E p \in Payments : RejectPayment(w, p) \/ \E amount \in SplitAmounts : ProcessSplit(w, p, amount)
    BY <2>0, <2>4, MarkKept DEF PayInv, RejectPayment, ProcessSplit, workerVars
  <2>5. CASE \E s \in Wallets, amount \in Amounts, r \in WithdrawRefs : EstablishmentWithdraw(w, s, amount, r)
    BY <2>0, <2>5, MarkKept DEF PayInv, EstablishmentWithdraw, workerVars
  <2> QED BY <1>4, <2>1, <2>2, <2>3, <2>4, <2>5 DEF Request
<1>5. ASSUME Reconcile PROVE Kept
  <2>0. Reconciler \in Workers
    BY DEF Workers
  <2>1. CASE ReconcileScan
    BY <2>0, <2>1, MarkKept DEF PayInv, ReconcileScan
  <2>2. CASE ReconcileNext
    <3>1. PICK item \in batch : Start(Reconciler, item[1], "settle.pay") /\ mark' = mark
      BY <2>2 DEF ReconcileNext
    <3>2. item[1] \in Payments
      BY DEF PayInv, TypeOK
    <3> QED BY <2>0, <3>1, <3>2, MarkKept DEF PayInv, PCs
  <2> QED BY <1>5, <2>1, <2>2 DEF Reconcile
<1>6. ASSUME NEW w \in Workers, DbError(w) PROVE Kept
  <2>1. \/ Finish(w)
        \/ /\ pc[w] # "idle"
           /\ Continue(w, "status.read") \/ Continue(w, "publish.read") \/ Continue(w, "refund.write")
    BY <1>6 DEF DbError, AfterStatus, At
  <2> QED BY <2>1, MarkKept DEF PayInv, PCs
<1>7. CASE \/ UNCHANGED vars \/ \E p \in Payments : Ageing(p)
           \/ \E p \in Payments, status \in GatewayStatuses : GatewayMoves(p, status)
  BY <1>7, MarkKept DEF PayInv, vars, workerVars, Ageing, GatewayMoves
<1>8. ASSUME Crash PROVE Kept
  BY <1>8 DEF Crash
<1> QED BY <1>1, <1>2, <1>3, <1>4, <1>5, <1>6, <1>7, <1>8 DEF Next

LEMMA PayStarts == Init => PayInv
<1> SUFFICES ASSUME Init PROVE PayInv
  OBVIOUS
<1>1. LedgerInv
  BY LedgerInitInv DEF Init
<1>2. TypeOK
  <2>1. Tables
    BY FieldTypes DEF Init, Tables, GatewayStatuses
  <2>2. Jobs
    BY FieldTypes DEF Init, Jobs, PCs, GatewayStatuses
  <2>3. Counts
    BY PaymentAssumption DEF Init, Counts
  <2> QED BY <1>1, <2>1, <2>2, <2>3, ShapeIsTypeOK DEF LedgerInv
<1>3. CreditsOK
  BY DEF Init, LedgerInit, CreditsOK, HasLedgerEntry
<1>4. MarksOK
  BY DEF Init, MarksOK, NoRow
<1> QED BY <1>1, <1>2, <1>3, <1>4 DEF PayInv

LEMMA PayKeeps == PayInv /\ [Next]_vars => PayInv'
<1> SUFFICES ASSUME PayInv, [Next]_vars PROVE PayInv'
  OBVIOUS
<1>1. TypeOK /\ TypeOK' /\ LedgerInv'
  BY TypeKeeps DEF PayInv
<1>2. CreditsOK'
  BY CreditsKeep
<1>3. \A w \in Workers : mark[w] => on[w] \in Payments
  BY DEF PayInv, TypeOK, MarksOK
<1>4. ASSUME NEW p \in Payments, row'[p].creditedAt PROVE Backed(p)'
  BY <1>1, <1>4, CreditedAtSet, BackedStays DEF PayInv, MarksOK
<1>5. ASSUME NEW w \in Workers, mark'[w] PROVE Backed(on[w])'
  <2>1. PICK p : p = on[w]
    OBVIOUS
  <2>2. on'[w] = p /\ (mark[w] \/ Backed(on[w])')
    BY <1>5, <2>1, MarkSet
  <2>3. mark[w] => Backed(p) /\ p \in Payments
    BY <1>3, <2>1 DEF PayInv, MarksOK
  <2>4. mark[w] => Backed(p)'
    BY <1>1, <2>3, BackedStays
  <2> QED BY <2>2, <2>4
<1>6. MarksOK'
  BY <1>4, <1>5, MarkSet DEF MarksOK
<1> QED BY <1>1, <1>2, <1>6 DEF PayInv

\* The settlement moves money only as the ledger allows, so all that is shown of
\* the ledger is true of it.
THEOREM SettlementUsesLedger == Spec => LedgerSpec
<1>1. Init => LedgerInit /\ PayInv
  BY PayStarts DEF Init
<1>2. PayInv /\ [Next]_vars => [LedgerNext]_ledgerVars
  BY SettlementMovesLedger DEF PayInv
<1>3. PayInv /\ [Next]_vars => PayInv'
  BY PayKeeps
<1> QED BY <1>1, <1>2, <1>3, PTL DEF Spec, LedgerSpec

\* establishment_credited_at is never set on a payment that did not pay the
\* store: for any kinds of payment, crashes, failed calls and interleavings,
\* reconciliation may trust the mark (webhook.go:402-440).
THEOREM MarksAreBacked == Spec => []MarkIsBacked
<1>1. PayInv => MarkIsBacked
  <2> SUFFICES ASSUME PayInv, NEW p \in Payments, row[p].creditedAt
               PROVE  CASE Kind[p] \in {"pix", "noid"} -> Credited(p)
                        [] Kind[p] = "repasse"         -> debt[OrderOf[p]] # "none"
                        [] OTHER                       -> TRUE
    BY Zenon DEF MarkIsBacked
  <2>1. Backed(p)
    BY DEF PayInv, MarksOK
  <2>2. CASE Kind[p] \in {"pix", "noid"}
    <3>1. Kind[p] # "repasse" /\ Credited(p)
      BY <2>1, <2>2 DEF Backed
    <3> QED BY <2>2, <3>1, Zenon
  <2>3. CASE Kind[p] = "repasse"
    <3>1. Kind[p] \notin {"pix", "noid"} /\ debt[OrderOf[p]] # "none"
      BY <2>1, <2>3 DEF Backed
    <3> QED BY <2>3, <3>1, Zenon
  <2>4. CASE Kind[p] \notin {"pix", "noid"} /\ Kind[p] # "repasse"
    BY <2>4, Zenon
  <2> QED BY <2>2, <2>3, <2>4
<1> QED BY PayStarts, PayKeeps, <1>1, PTL DEF Spec

\* Where every payment in custody has a charge id, a store has no more credits
\* than payments: webhooks, approvals and the reconciliation may repeat a
\* settlement, after any crash, without paying twice (reconciliation.go:22-28).
THEOREM CreditedOnce ==
  ASSUME IsFiniteSet(Payments), \A p \in Payments : HasCharge(p)
  PROVE  Spec => []OneCreditPerPayment
<1>1. PayInv => OneCreditPerPayment
  <2> SUFFICES ASSUME PayInv, NEW s \in Wallets
               PROVE  Cardinality({i \in DOMAIN ledger[s] : ledger[s][i].type = "credit"})
                        <= Cardinality({p \in Payments : StoreOf[p] = s /\ ~AtOrigin(p)})
    BY DEF OneCreditPerPayment
  <2> DEFINE Rows == {i \in DOMAIN ledger[s] : ledger[s][i].type = "credit"}
             Sold == {p \in Payments : StoreOf[p] = s /\ ~AtOrigin(p)}
             f == [i \in Rows |-> CHOOSE p \in Sold : ledger[s][i].ref = p]
  <2>1. ASSUME NEW i \in Rows PROVE \E p \in Sold : ledger[s][i].ref = p
    <3>1. ledger[s][i].ref \in References
      <4>1. ledger[s] \in Seq(Entry) /\ i \in 1..Len(ledger[s])
        BY DEF PayInv, TypeOK, LedgerTypeOK
      <4>2. ledger[s][i] \in Entry
        BY <4>1
      <4> QED BY <4>2 DEF Entry
    <3>2. HasLedgerEntry(s, "credit", ledger[s][i].ref)
      BY DEF HasLedgerEntry
    <3> QED BY <3>1, <3>2 DEF PayInv, CreditsOK, Ref
  <2>2. \A i \in Rows : f[i] \in Sold /\ ledger[s][i].ref = f[i]
    BY <2>1
  <2>3. \A i \in Rows, j \in Rows : f[i] = f[j] => i = j
    <3> SUFFICES ASSUME NEW i \in Rows, NEW j \in Rows, f[i] = f[j] PROVE i = j
      OBVIOUS
    <3>1. ledger[s][i].ref = ledger[s][j].ref /\ ledger[s][i].ref \in Payments
      BY <2>2
    <3>2. ledger[s][i].ref # NoRef
      BY <3>1, PaymentAssumption, LedgerAssumption
    <3> QED BY <3>1, <3>2 DEF PayInv, LedgerInv, CreditOnce
  <2>4. IsFiniteSet(Sold)
    BY FS_Subset
  <2>5. f \in Injection(Rows, Sold)
    <3>1. f \in [Rows -> Sold]
      BY <2>2
    <3> HIDE DEF f
    <3> QED BY <2>3, <3>1 DEF Injection, IsInjective
  <2> HIDE DEF f, Rows, Sold
  <2>6. Cardinality(Rows) <= Cardinality(Sold)
    BY <2>4, <2>5, FS_Injection
  <2> QED BY <2>6 DEF Rows, Sold
<1> QED BY PayStarts, PayKeeps, <1>1, PTL DEF Spec

-----------------------------------------------------------------------------
(* One handler at a time, a refund takes back only what was given.            *)

Pix(p)      == Kind[p] = "pix"
Calm        == crashes + dbErrors = 0
Untouched   == SplitAmounts = {} \/ Calm
Confirming  == {"confirm.check", "status.read", "status.write"}
Refunding   == {"refund.read", "refund.reverse", "refund.write"}

Settling(p) == \E w \in Workers : /\ on[w] = p
                                  /\ pc[w] \in {"publish.read", "settle.pay", "settle.write"}

\* Nobody works beside another, and the reconciliation works alone.
Alone == /\ \A v, w \in Workers : pc[v] # "idle" /\ pc[w] # "idle" => v = w
         /\ batch # {} => \A h \in Handlers : pc[h] = "idle"

\* What the job of the one worker may rely on.
WorkOK(w) ==
  LET p == on[w]
  IN /\ pc[w] = "insert" => seen[w] \in {"PENDING", "CONFIRMED", "REFUSED"}
     /\ pc[w] \in Confirming => seen[w] # "REFUNDED"
     /\ pc[w] \in Confirming \cup {"publish.read"} => row[p].status # "REFUNDED"
     /\ pc[w] = "settle.pay" => /\ snap[w].status # "REFUNDED"
                                /\ snap[w].creditedAt /\ Pix(p) => Credited(p)
     /\ pc[w] = "settle.write" => share[w] \in Shares[p]
     /\ pc[w] = "settle.write" /\ Pix(p) => share[w] = 0 \/ Credited(p)
     /\ pc[w] \in Refunding => gateway[p] = "REFUNDED"
     /\ pc[w] = "refund.reverse" /\ Untouched /\ Pix(p) /\ snap[w].rules > 0 =>
          Credited(p) /\ snap[w].rules \in Shares[p]

BatchOK == \A item \in batch : item[2].status = "CONFIRMED" /\ ~item[2].creditedAt

\* Split rules of a confirmed payment are a settlement's, and its store was
\* credited, unless it is being settled.
RulesOK(p) ==
  LET settled == Credited(p) /\ row[p].rules \in Shares[p]
  IN Pix(p) /\ row[p].rules > 0 =>
       /\ SplitAmounts = {} => settled
       /\ Calm /\ row[p].status = "CONFIRMED" => settled \/ Settling(p)

\* No store pays back what it did not receive.
Honest == Untouched => \A p \in Payments : HasCharge(p) /\ Reversed(p) => Credited(p)

\* What moves between a store and a payment is one of the payment's shares.
Credits == \A p \in Payments : HasCharge(p) => Moved(p, "credit") \subseteq Shares[p]
Debits  == Untouched => \A p \in Payments : HasCharge(p) => Moved(p, "debit") \subseteq Shares[p]

OneByOne == /\ Alone /\ BatchOK /\ Honest /\ Credits /\ Debits
            /\ \A w \in Workers : WorkOK(w)
            /\ \A p \in Payments : RulesOK(p)
            /\ \A p \in Payments : row[p].status = "REFUNDED" => gateway[p] = "REFUNDED"

LEMMA CreditsStay ==
  ASSUME TypeOK, [Next]_vars, NEW p \in Payments
  PROVE  Credited(p) => Credited(p)'
BY PaymentAssumption, EntriesStay DEF Credited, Ref, HasCharge

\* A worker that moves is the only one.
LEMMA TheOnlyOne ==
  ASSUME OneByOne, NEW w \in Workers, pc[w] # "idle"
  PROVE  /\ \A v \in Workers \ {w} : pc[v] = "idle"
         /\ \A p : Settling(p) <=> on[w] = p /\ pc[w] \in {"publish.read", "settle.pay", "settle.write"}
BY DEF OneByOne, Alone, Settling

\* Nothing happened to the rules of a payment, and who was settling it is.
LEMMA RulesKept ==
  ASSUME PayInv, [Next]_vars, NEW p \in Payments, RulesOK(p),
         row'[p].rules = row[p].rules,
         Calm' => Calm /\ (row'[p].status = "CONFIRMED" =>
                             \/ Settling(p)'
                             \/ row[p].status = "CONFIRMED" /\ ~Settling(p))
  PROVE  RulesOK(p)'
<1>1. Credited(p) => Credited(p)'
  BY CreditsStay DEF PayInv
<1> QED BY <1>1 DEF RulesOK

LEMMA JobStepSerial ==
  ASSUME PayInv, OneByOne, [Next]_vars, NEW w \in Workers, JobStep(w)
  PROVE  /\ WorkOK(w)'
         /\ \A p \in Payments : RulesOK(p)'
         /\ \A p \in Payments : row'[p].status = "REFUNDED" => gateway'[p] = "REFUNDED"
<1> DEFINE Goal == /\ WorkOK(w)'
                   /\ \A p \in Payments : RulesOK(p)'
                   /\ \A p \in Payments : row'[p].status = "REFUNDED" => gateway'[p] = "REFUNDED"
<1> USE DEF At
<1>0. pc[w] # "idle"
  BY DEF JobStep, InsertPayment, ConfirmCheck, StatusRead, StatusWrite, PublishRead, SettleSkip,
         SettleAtOrigin, ToPay, SettleCredit, SettleWrite, EarnPoints, RefundRead, RefundReverse,
         RefundWrite
<1>1. PICK q \in Payments : q = on[w]
  BY <1>0 DEF PayInv, TypeOK
<1>2. /\ row \in [Payments -> Row] /\ row[q] \in Row
      /\ pc \in [Workers -> PCs] /\ on \in [Workers -> Payments \cup {NoPayment}]
      /\ seen \in [Workers -> GatewayStatuses] /\ snap \in [Workers -> Row]
  BY <1>1 DEF PayInv, TypeOK
<1>3. /\ \A p \in Payments : RulesOK(p)
      /\ \A p \in Payments : row[p].status = "REFUNDED" => gateway[p] = "REFUNDED"
      /\ WorkOK(w)
  BY DEF OneByOne
<1>4. \A p \in Payments : Settling(p) <=> q = p /\ pc[w] \in {"publish.read", "settle.pay", "settle.write"}
  BY <1>0, <1>1, TheOnlyOne
<1>5. gateway' = gateway /\ UNCHANGED <<crashes, dbErrors>>
  BY DEF JobStep, InsertPayment, ConfirmCheck, StatusRead, StatusWrite, PublishRead, SettleSkip,
         SettleAtOrigin, ToPay, SettleCredit, SettleWrite, EarnPoints, RefundRead, RefundReverse,
         RefundWrite, PayDone, ReverseDone, faults
<1>6. Calm' <=> Calm
  BY <1>5 DEF Calm
<1>7. \A p \in Payments : Credited(p) => Credited(p)'
  BY CreditsStay DEF PayInv
<1>8. ASSUME pc'[w] = "idle" PROVE WorkOK(w)'
  BY <1>8 DEF WorkOK, Confirming, Refunding
\* The steps that leave the rows alone.
<1>9. ASSUME row' = row, \A p \in Payments : Settling(p) => Settling(p)' \/ row[p].status # "CONFIRMED"
      PROVE  /\ \A p \in Payments : RulesOK(p)'
             /\ \A p \in Payments : row'[p].status = "REFUNDED" => gateway'[p] = "REFUNDED"
  BY <1>3, <1>5, <1>6, <1>9, RulesKept
<1>10. CASE InsertPayment(w)
  <2>1. /\ row' = [row EXCEPT ![q] = row'[q]] /\ row'[q].rules = 0 /\ row'[q].status = seen[w]
        /\ pc[w] = "insert" /\ pc'[w] = "idle"
    BY <1>1, <1>2, <1>10 DEF InsertPayment, SetRow, NoRow, Finish, Goto
  <2>2. seen[w] # "REFUNDED"
    BY <1>3, <2>1 DEF WorkOK
  <2>3. ASSUME NEW p \in Payments PROVE RulesOK(p)'
    <3>1. CASE p = q
      BY <2>1, <3>1 DEF RulesOK
    <3>2. CASE p # q
      <4>1. row'[p] = row[p]
        BY <1>2, <2>1, <3>2
      <4> QED BY <1>3, <1>4, <1>6, <3>2, <4>1, RulesKept
    <3> QED BY <3>1, <3>2
  <2> QED BY <1>2, <1>3, <1>5, <1>8, <2>1, <2>2, <2>3
<1>11. CASE ConfirmCheck(w)
  <2>1. /\ row' = row /\ pc[w] = "confirm.check"
        /\ pc'[w] = "idle" \/ (pc'[w] = "status.read" /\ UNCHANGED <<on, seen>>)
    BY <1>2, <1>11 DEF ConfirmCheck, Finish, Continue, Goto
  <2>2. WorkOK(w)'
    BY <1>3, <1>8, <2>1 DEF WorkOK, Confirming, Refunding
  <2> QED BY <1>4, <1>9, <2>1, <2>2
<1>12. CASE StatusRead(w)
  <2>1. /\ row' = row /\ pc[w] = "status.read"
        /\ \/ pc'[w] = "idle"
           \/ pc'[w] \in {"status.write", "publish.read"} /\ UNCHANGED <<on, seen>>
    BY <1>2, <1>12 DEF StatusRead, AfterStatus, Finish, Continue, Goto
  <2>2. WorkOK(w)'
    BY <1>3, <1>8, <2>1 DEF WorkOK, Confirming, Refunding
  <2> QED BY <1>4, <1>9, <2>1, <2>2
<1>13. CASE StatusWrite(w)
  <2>1. /\ row' = [row EXCEPT ![q] = row'[q]]
        /\ row'[q].rules = row[q].rules /\ row'[q].status = seen[w]
        /\ pc[w] = "status.write"
        /\ \/ pc'[w] = "idle" /\ seen[w] # "CONFIRMED"
           \/ pc'[w] = "publish.read" /\ on'[w] = q
    BY <1>1, <1>2, <1>13 DEF StatusWrite, AfterStatus, SetRow, Finish, Continue, Goto, Row
  <2>2. seen[w] # "REFUNDED"
    BY <1>3, <2>1 DEF WorkOK, Confirming
  <2>3. ASSUME NEW p \in Payments PROVE RulesOK(p)'
    <3>1. CASE p = q
      <4>1. row'[q].status = "CONFIRMED" => Settling(q)'
        BY <2>1 DEF Settling
      <4> QED BY <1>3, <1>6, <2>1, <3>1, <4>1, RulesKept
    <3>2. CASE p # q
      <4>1. row'[p] = row[p]
        BY <1>2, <2>1, <3>2
      <4> QED BY <1>3, <1>4, <1>6, <3>2, <4>1, RulesKept
    <3> QED BY <3>1, <3>2
  <2>4. WorkOK(w)'
    BY <1>8, <2>1, <2>2 DEF WorkOK, Confirming, Refunding
  <2> QED BY <1>2, <1>3, <1>5, <2>1, <2>2, <2>3, <2>4
<1>14. CASE PublishRead(w)
  <2>1. /\ row' = row /\ pc[w] = "publish.read"
        /\ \/ pc'[w] = "idle" /\ row[q].status = "none"
           \/ pc'[w] = "settle.pay" /\ on'[w] = q /\ snap'[w] = row[q]
    BY <1>1, <1>2, <1>14 DEF PublishRead, Finish, Goto
  <2>2. row[q].creditedAt /\ Pix(q) => Credited(q)'
    BY <1>7 DEF PayInv, MarksOK, Backed, Pix
  <2>3. row[q].status # "REFUNDED"
    BY <1>1, <1>3, <2>1 DEF WorkOK
  <2>4. WorkOK(w)'
    BY <1>8, <2>1, <2>2, <2>3 DEF WorkOK, Confirming, Refunding
  <2>5. pc'[w] = "settle.pay" => Settling(q)'
    BY <2>1 DEF Settling
  <2> QED BY <1>4, <1>9, <2>1, <2>4, <2>5
<1>15. CASE SettleSkip(w) \/ SettleAtOrigin(w) \/ SettleCredit(w)
  <2>1. /\ row' = row /\ pc[w] = "settle.pay" /\ pc'[w] = "settle.write" /\ on' = on
    BY <1>2, <1>15 DEF SettleSkip, SettleAtOrigin, SettleCredit, ToPay, PayDone, Goto
  <2>5. share'[w] \in Shares[q]
    <3>1. PICK marked \in BOOLEAN, computed \in Shares[q] : PayDone(w, marked, computed)
      BY <1>1, <1>15 DEF SettleSkip, SettleAtOrigin, SettleCredit
    <3> QED BY <3>1 DEF PayDone, PayInv, TypeOK
  <2>2. Pix(q) => share'[w] = 0 \/ Credited(q)'
    <3>1. CASE SettleSkip(w)
      <4>1. snap[w].creditedAt
        BY <1>3, <2>1, <3>1 DEF SettleSkip, WorkOK
      <4> QED BY <1>1, <1>3, <1>7, <2>1, <4>1 DEF WorkOK
    <3>2. CASE SettleAtOrigin(w)
      BY <1>1, <3>2 DEF SettleAtOrigin, AtOrigin, Pix
    <3>3. CASE SettleCredit(w)
      <4>1. share'[w] = 0 \/ Credited(on[w])'
        BY <1>1, <3>3, PaidWhenMarked
      <4> QED BY <1>1, <2>1, <4>1
    <3> QED BY <1>15, <3>1, <3>2, <3>3
  <2>3. WorkOK(w)'
    BY <1>1, <2>1, <2>2, <2>5 DEF WorkOK, Confirming, Refunding
  <2>4. Settling(q)'
    BY <1>1, <2>1 DEF Settling
  <2> QED BY <1>4, <1>9, <2>1, <2>3, <2>4
<1>16. CASE SettleWrite(w)
  <2>1. /\ row' = [row EXCEPT ![q] = row'[q]]
        /\ row'[q].rules = share[w] /\ row'[q].status = "CONFIRMED"
        /\ pc[w] = "settle.write" /\ pc'[w] = "settle.points"
    BY <1>1, <1>2, <1>16 DEF SettleWrite, SetRow, Continue, Goto
  <2>2. share[w] \in Shares[q] /\ (Pix(q) => share[w] = 0 \/ Credited(q)')
    BY <1>1, <1>3, <1>7, <2>1 DEF WorkOK
  <2>3. ASSUME NEW p \in Payments PROVE RulesOK(p)'
    <3>1. CASE p = q
      BY <2>1, <2>2, <3>1 DEF RulesOK
    <3>2. CASE p # q
      <4>1. row'[p] = row[p]
        BY <1>2, <2>1, <3>2
      <4> QED BY <1>3, <1>4, <1>6, <3>2, <4>1, RulesKept
    <3> QED BY <3>1, <3>2
  <2>4. WorkOK(w)'
    BY <2>1 DEF WorkOK, Confirming, Refunding
  <2> QED BY <1>2, <1>3, <1>5, <2>1, <2>3, <2>4
<1>17. CASE EarnPoints(w)
  <2>1. row' = row /\ pc[w] = "settle.points" /\ pc'[w] = "idle"
    BY <1>2, <1>17 DEF EarnPoints, Finish, Goto
  <2> QED BY <1>4, <1>8, <1>9, <2>1
<1>18. CASE RefundRead(w)
  <2>1. /\ row' = row /\ pc[w] = "refund.read"
        /\ \/ pc'[w] = "idle"
           \/ /\ pc'[w] = "refund.write" \/ (pc'[w] = "refund.reverse" /\ row[q].status = "CONFIRMED")
              /\ on'[w] = q /\ snap'[w] = row[q]
    BY <1>1, <1>2, <1>18 DEF RefundRead, Finish, Goto
  <2>2. gateway'[q] = "REFUNDED"
    BY <1>1, <1>3, <1>5, <2>1 DEF WorkOK, Refunding
  <2>3. Untouched' /\ Pix(q) /\ row[q].rules > 0 /\ row[q].status = "CONFIRMED" =>
          Credited(q)' /\ row[q].rules \in Shares[q]
    BY <1>3, <1>4, <1>6, <1>7, <2>1 DEF RulesOK, Untouched
  <2>4. WorkOK(w)'
    BY <1>8, <2>1, <2>2, <2>3 DEF WorkOK, Confirming, Refunding
  <2> QED BY <1>4, <1>9, <2>1, <2>4
<1>19. CASE RefundReverse(w)
  <2>1. row' = row /\ pc[w] = "refund.reverse" /\ pc'[w] = "refund.write" /\ on' = on
    BY <1>2, <1>19 DEF RefundReverse, ReverseDone, Continue, Goto
  <2>2. WorkOK(w)'
    BY <1>1, <1>3, <1>5, <2>1 DEF WorkOK, Confirming, Refunding
  <2> QED BY <1>4, <1>9, <2>1, <2>2
<1>20. CASE RefundWrite(w)
  <2>1. /\ row' = [row EXCEPT ![q] = row'[q]]
        /\ row'[q].rules = row[q].rules /\ row'[q].status = "REFUNDED"
        /\ pc[w] = "refund.write" /\ pc'[w] = "idle"
    BY <1>1, <1>2, <1>20 DEF RefundWrite, SetRow, Finish, Goto, Row
  <2>2. gateway'[q] = "REFUNDED"
    BY <1>1, <1>3, <1>5, <2>1 DEF WorkOK, Refunding
  <2>3. ASSUME NEW p \in Payments PROVE RulesOK(p)'
    <3>1. CASE p = q
      BY <1>3, <1>6, <2>1, <3>1, RulesKept
    <3>2. CASE p # q
      <4>1. row'[p] = row[p]
        BY <1>2, <2>1, <3>2
      <4> QED BY <1>3, <1>4, <1>6, <3>2, <4>1, RulesKept
    <3> QED BY <3>1, <3>2
  <2> QED BY <1>2, <1>3, <1>5, <1>8, <2>1, <2>2, <2>3
<1> QED BY <1>10, <1>11, <1>12, <1>13, <1>14, <1>15, <1>16, <1>17, <1>18, <1>19, <1>20 DEF JobStep

\* Under Serial a job starts when nobody works.
LEMMA StartsAlone ==
  ASSUME Serial, NEW w \in Workers, Free(w)
  PROVE  /\ \A v \in Workers : pc[v] = "idle"
         /\ \A p : ~Settling(p)
         /\ w # Reconciler => batch = {}
BY DEF Free, At, Settling

LEMMA RequestSerial ==
  ASSUME PayInv, OneByOne, Serial, [Next]_vars, NEW w \in Handlers, Request(w)
  PROVE  /\ WorkOK(w)'
         /\ \A p \in Payments : RulesOK(p)'
         /\ \A p \in Payments : row'[p].status = "REFUNDED" => gateway'[p] = "REFUNDED"
<1>0. w \in Workers /\ w # Reconciler
  BY PaymentAssumption DEF Workers
<1>1. Free(w)
  <2>1. ASSUME NEW p \in Payments, HandlePaymentWebhook(w, p) PROVE Free(w)
    BY <2>1, WebhookStarts DEF Start
  <2> QED BY <2>1 DEF Request, CreateCharge, ApprovePayment, RejectPayment, ProcessSplit,
                     EstablishmentWithdraw, Start
<1>2. pc[w] = "idle" /\ \A p \in Payments : ~Settling(p)
  BY <1>0, <1>1, StartsAlone
<1>3. /\ row \in [Payments -> Row] /\ gateway \in [Payments -> GatewayStatuses]
      /\ pc \in [Workers -> PCs] /\ on \in [Workers -> Payments \cup {NoPayment}]
      /\ seen \in [Workers -> GatewayStatuses]
  BY DEF PayInv, TypeOK
<1>4. /\ \A p \in Payments : RulesOK(p)
      /\ \A p \in Payments : row[p].status = "REFUNDED" => gateway[p] = "REFUNDED"
  BY DEF OneByOne
<1>5. ASSUME pc'[w] = "idle" PROVE WorkOK(w)'
  BY <1>5 DEF WorkOK, Confirming, Refunding
<1>6. ASSUME row' = row, UNCHANGED <<crashes, dbErrors>> PROVE \A p \in Payments : RulesOK(p)'
  BY <1>2, <1>4, <1>6, RulesKept DEF Calm
<1>7. ASSUME NEW p \in Payments, NEW answer \in {"PENDING", "CONFIRMED", "REFUSED"},
             CreateCharge(w, p, answer)
      PROVE  /\ WorkOK(w)'
             /\ \A q \in Payments : RulesOK(q)'
             /\ \A q \in Payments : row'[q].status = "REFUNDED" => gateway'[q] = "REFUNDED"
  <2>1. /\ row[p].status = "none" /\ row' = row
        /\ gateway' = [gateway EXCEPT ![p] = answer]
        /\ seen'[w] = answer /\ pc'[w] = "insert"
        /\ UNCHANGED <<crashes, dbErrors>>
    BY <1>0, <1>3, <1>7 DEF CreateCharge, Start, Goto, faults
  <2>2. WorkOK(w)'
    BY <2>1 DEF WorkOK, Confirming, Refunding
  <2> QED BY <1>3, <1>4, <1>6, <2>1, <2>2
<1>8. ASSUME NEW p \in Payments, HandlePaymentWebhook(w, p)
      PROVE  /\ WorkOK(w)'
             /\ \A q \in Payments : RulesOK(q)'
             /\ \A q \in Payments : row'[q].status = "REFUNDED" => gateway'[q] = "REFUNDED"
  <2>1. PICK step \in {"refund.read", "confirm.check", "status.read"} :
          Start(w, p, step) /\ (step = "refund.read" <=> gateway[p] = "REFUNDED")
    BY <1>8, WebhookStarts
  <2>2. /\ seen' = [seen EXCEPT ![w] = gateway[p]]
        /\ UNCHANGED <<gateway, row, snap, mark, share, batch, money, faults>>
    BY <1>8, WebhookStarts
  <2>3. pc'[w] = step /\ on'[w] = p /\ seen'[w] = gateway[p]
    BY <1>0, <1>3, <2>1, <2>2 DEF Start, Goto
  <2>4. row[p].status = "REFUNDED" => step = "refund.read"
    BY <1>4, <2>1
  <2>5. WorkOK(w)'
    BY <2>1, <2>2, <2>3, <2>4 DEF WorkOK, Confirming, Refunding
  <2> QED BY <1>4, <1>6, <2>2, <2>5 DEF faults
<1>9. ASSUME NEW p \in Payments, ApprovePayment(w, p)
      PROVE  /\ WorkOK(w)'
             /\ \A q \in Payments : RulesOK(q)'
             /\ \A q \in Payments : row'[q].status = "REFUNDED" => gateway'[q] = "REFUNDED"
  <2>1. /\ row' = [row EXCEPT ![p] = row'[p]]
        /\ row'[p].status = "CONFIRMED" /\ row'[p].rules = row[p].rules
        /\ UNCHANGED <<gateway, crashes, dbErrors>>
    BY <1>3, <1>9 DEF ApprovePayment, SetRow, Row, faults
  <2>2. \/ HasCharge(p) /\ pc'[w] = "publish.read" /\ on'[w] = p
        \/ ~HasCharge(p) /\ pc'[w] = "idle"
    BY <1>0, <1>2, <1>3, <1>9 DEF ApprovePayment, Start, Goto
  <2>3. WorkOK(w)'
    BY <1>5, <2>1, <2>2 DEF WorkOK, Confirming, Refunding
  <2>4. ASSUME NEW q \in Payments PROVE RulesOK(q)'
    <3>1. CASE q = p /\ HasCharge(p)
      <4>1. Settling(p)'
        BY <1>0, <2>2, <3>1 DEF Settling
      <4> QED BY <1>4, <2>1, <3>1, <4>1, RulesKept DEF Calm
    <3>2. CASE q = p /\ ~HasCharge(p)
      BY <3>2 DEF RulesOK, Pix, HasCharge
    <3>3. CASE q # p
      <4>1. row'[q] = row[q]
        BY <1>3, <2>1, <3>3
      <4> QED BY <1>2, <1>4, <2>1, <4>1, RulesKept DEF Calm
    <3> QED BY <3>1, <3>2, <3>3
  <2> QED BY <1>3, <1>4, <2>1, <2>3, <2>4
<1>10. ASSUME NEW p \in Payments, RejectPayment(w, p)
       PROVE  /\ WorkOK(w)'
              /\ \A q \in Payments : RulesOK(q)'
              /\ \A q \in Payments : row'[q].status = "REFUNDED" => gateway'[q] = "REFUNDED"
  <2>1. /\ row' = [row EXCEPT ![p] = row'[p]]
        /\ row'[p].status = "REJECTED" /\ row'[p].rules = row[p].rules
        /\ UNCHANGED <<gateway, pc, crashes, dbErrors>>
    BY <1>3, <1>10 DEF RejectPayment, SetRow, Row, faults, workerVars
  <2>2. ASSUME NEW q \in Payments PROVE RulesOK(q)'
    <3>1. row'[q] = row[q] \/ (q = p /\ row'[q].status # "CONFIRMED" /\ row'[q].rules = row[q].rules)
      BY <1>3, <2>1
    <3> QED BY <1>2, <1>4, <2>1, <3>1, RulesKept DEF Calm
  <2> QED BY <1>2, <1>3, <1>4, <1>5, <2>1, <2>2
<1>11. ASSUME NEW p \in Payments, NEW amount \in SplitAmounts, ProcessSplit(w, p, amount)
       PROVE  /\ WorkOK(w)'
              /\ \A q \in Payments : RulesOK(q)'
              /\ \A q \in Payments : row'[q].status = "REFUNDED" => gateway'[q] = "REFUNDED"
  <2>1. /\ row' = [row EXCEPT ![p] = row'[p]] /\ row'[p].status = "SPLIT"
        /\ UNCHANGED <<gateway, pc, crashes, dbErrors>>
    BY <1>3, <1>11 DEF ProcessSplit, SetRow, Row, faults, workerVars
  <2>2. ASSUME NEW q \in Payments PROVE RulesOK(q)'
    <3>1. CASE q = p
      BY <2>1, <3>1 DEF RulesOK
    <3>2. CASE q # p
      <4>1. row'[q] = row[q]
        BY <1>3, <2>1, <3>2
      <4> QED BY <1>2, <1>4, <2>1, <4>1, RulesKept DEF Calm
    <3> QED BY <3>1, <3>2
  <2> QED BY <1>2, <1>3, <1>4, <1>5, <2>1, <2>2
<1>12. ASSUME NEW s \in Wallets, NEW amount \in Amounts, NEW r \in WithdrawRefs,
              EstablishmentWithdraw(w, s, amount, r)
       PROVE  /\ WorkOK(w)'
              /\ \A q \in Payments : RulesOK(q)'
              /\ \A q \in Payments : row'[q].status = "REFUNDED" => gateway'[q] = "REFUNDED"
  BY <1>2, <1>4, <1>5, <1>6, <1>12 DEF EstablishmentWithdraw, workerVars, faults
<1> QED BY <1>7, <1>8, <1>9, <1>10, <1>11, <1>12 DEF Request

\* A worker moves nobody else, and only the reconciliation touches its batch.
LEMMA OthersRest ==
  ASSUME TypeOK, NEW w \in Workers, NEW v \in Workers, v # w,
         JobStep(w) \/ DbError(w) \/ (w \in Handlers /\ Request(w))
  PROVE  pc'[v] = pc[v] /\ batch' = batch
<1>1. CASE JobStep(w)
  BY <1>1 DEF TypeOK, JobStep, InsertPayment, ConfirmCheck, StatusRead, StatusWrite, AfterStatus,
              PublishRead, SettleSkip, SettleAtOrigin, SettleCredit, PayDone, SettleWrite,
              EarnPoints, RefundRead, RefundReverse, ReverseDone, RefundWrite, Finish, Continue, Goto
<1>2. CASE DbError(w)
  BY <1>2 DEF TypeOK, DbError, AfterStatus, Finish, Continue, Goto
<1>3. ASSUME w \in Handlers, Request(w) PROVE pc'[v] = pc[v] /\ batch' = batch
  <2>1. ASSUME NEW p \in Payments, HandlePaymentWebhook(w, p) PROVE pc'[v] = pc[v] /\ batch' = batch
    BY <1>3, <2>1, WebhookStarts DEF TypeOK, Start, Goto
  <2> QED BY <1>3, <2>1 DEF TypeOK, Request, CreateCharge, ApprovePayment, RejectPayment,
                           ProcessSplit, EstablishmentWithdraw, Start, Goto, workerVars
<1> QED BY <1>1, <1>2, <1>3

\* What a failed call, the reconciliation, the passing of time and a crash do to
\* the workers' reliances.
LEMMA WorkKept ==
  ASSUME PayInv, [Next]_vars, NEW v \in Workers, WorkOK(v),
         pc'[v] = "idle" \/
         /\ pc'[v] = pc[v] /\ on'[v] = on[v] /\ seen'[v] = seen[v] /\ snap'[v] = snap[v]
         /\ share'[v] = share[v]
         /\ row'[on[v]].status = row[on[v]].status
         /\ gateway[on[v]] = "REFUNDED" => gateway'[on[v]] = "REFUNDED"
         /\ Untouched' => Untouched
  PROVE  WorkOK(v)'
<1>1. CASE pc'[v] = "idle"
  BY <1>1 DEF WorkOK, Confirming, Refunding
<1>2. CASE pc'[v] # "idle"
  <2>1. PICK p \in Payments : p = on[v]
    BY <1>2 DEF PayInv, TypeOK
  <2>2. on'[v] = p /\ pc'[v] = pc[v] /\ (Credited(p) => Credited(p)')
    BY <1>2, <2>1, CreditsStay DEF PayInv
  <2> QED BY <1>2, <2>1, <2>2 DEF WorkOK, Confirming, Refunding, Pix
<1> QED BY <1>1, <1>2

\* Neither a crash nor a failed call is undone.
LEMMA CalmBefore == TypeOK /\ [Next]_vars /\ Calm' => Calm
<1> SUFFICES ASSUME TypeOK, [Next]_vars, Calm' PROVE Calm
  OBVIOUS
<1>1. crashes \in Nat /\ dbErrors \in Nat
  BY PaymentAssumption DEF TypeOK
<1>2. ASSUME NEW w \in Handlers, Request(w) PROVE UNCHANGED <<crashes, dbErrors>>
  <2>1. ASSUME NEW p \in Payments, HandlePaymentWebhook(w, p) PROVE UNCHANGED <<crashes, dbErrors>>
    BY <2>1, WebhookStarts DEF faults
  <2> QED BY <1>2, <2>1 DEF Request, CreateCharge, ApprovePayment, RejectPayment, ProcessSplit,
                           EstablishmentWithdraw, faults
<1>3. ASSUME NEW w \in Workers, JobStep(w) PROVE UNCHANGED <<crashes, dbErrors>>
  BY <1>3 DEF JobStep, InsertPayment, ConfirmCheck, StatusRead, StatusWrite, PublishRead, SettleSkip,
              SettleAtOrigin, SettleCredit, PayDone, SettleWrite, EarnPoints, RefundRead,
              RefundReverse, ReverseDone, RefundWrite, faults
<1>4. CASE \/ Reconcile \/ UNCHANGED vars
           \/ \E p \in Payments : Ageing(p) \/ \E status \in GatewayStatuses : GatewayMoves(p, status)
  <2>1. ASSUME UNCHANGED vars PROVE UNCHANGED <<crashes, dbErrors>>
    BY <2>1 DEF vars
  <2>2. ASSUME Reconcile PROVE UNCHANGED <<crashes, dbErrors>>
    BY <2>2 DEF Reconcile, ReconcileScan, ReconcileNext, faults
  <2> QED BY <1>4, <2>1, <2>2 DEF Ageing, GatewayMoves, faults, Calm
<1>5. CASE Crash \/ \E w \in Workers : DbError(w)
  <2>1. \/ crashes' = crashes + 1 /\ dbErrors' = dbErrors
        \/ crashes' = crashes /\ dbErrors' = dbErrors + 1
    BY <1>5 DEF Crash, DbError
  <2>2. crashes' + dbErrors' # 0
    BY <1>1, <2>1
  <2> QED BY <2>2 DEF Calm
<1>6. UNCHANGED <<crashes, dbErrors>> => Calm
  BY DEF Calm
<1> QED BY <1>2, <1>3, <1>4, <1>5, <1>6 DEF Next

LEMMA OtherSerial ==
  ASSUME PayInv, OneByOne, Serial, [Next]_vars,
         \/ Reconcile \/ Crash \/ UNCHANGED vars
         \/ \E w \in Workers : DbError(w)
         \/ \E p \in Payments : Ageing(p) \/ \E status \in GatewayStatuses : GatewayMoves(p, status)
  PROVE  /\ \A v \in Workers : WorkOK(v)'
         /\ \A p \in Payments : RulesOK(p)'
         /\ \A p \in Payments : row'[p].status = "REFUNDED" => gateway'[p] = "REFUNDED"
<1>1. /\ row \in [Payments -> Row] /\ gateway \in [Payments -> GatewayStatuses]
      /\ pc \in [Workers -> PCs] /\ on \in [Workers -> Payments \cup {NoPayment}]
      /\ seen \in [Workers -> GatewayStatuses] /\ snap \in [Workers -> Row]
      /\ \A w \in Workers : pc[w] # "idle" => on[w] \in Payments
  BY DEF PayInv, TypeOK
<1>2. /\ \A p \in Payments : RulesOK(p)
      /\ \A p \in Payments : row[p].status = "REFUNDED" => gateway[p] = "REFUNDED"
      /\ \A v \in Workers : WorkOK(v)
      /\ BatchOK
  BY DEF OneByOne
<1>3. (Calm' => Calm) /\ (Untouched' => Untouched)
  BY CalmBefore DEF PayInv, Untouched
<1>4. ASSUME NEW v \in Workers, pc'[v] = "idle" PROVE WorkOK(v)'
  BY <1>4 DEF WorkOK, Confirming, Refunding
<1>5. CASE ReconcileScan
  <2>1. \A v \in Workers : pc[v] = "idle"
    BY <1>5, StartsAlone DEF ReconcileScan, Workers
  <2>2. ASSUME NEW p \in Payments PROVE RulesOK(p)'
    <3>1. ~Settling(p)
      BY <2>1 DEF Settling
    <3> QED BY <1>2, <1>3, <1>5, <3>1, RulesKept DEF ReconcileScan
  <2> QED BY <1>2, <1>4, <1>5, <2>1, <2>2 DEF ReconcileScan
<1>6. CASE ReconcileNext
  <2>0. Reconciler \in Workers
    BY DEF Workers
  <2>1. PICK item \in batch :
          /\ Start(Reconciler, item[1], "settle.pay")
          /\ snap' = [snap EXCEPT ![Reconciler] = item[2]]
          /\ UNCHANGED <<gateway, row, seen, mark, share, money, faults>>
    BY <1>6 DEF ReconcileNext
  <2>2. \A v \in Workers : pc[v] = "idle"
    BY <2>0, <2>1, StartsAlone DEF Start
  <2>3. /\ pc' = [pc EXCEPT ![Reconciler] = "settle.pay"] /\ snap'[Reconciler] = item[2]
    BY <1>1, <2>0, <2>1 DEF Start, Goto
  <2>4. item[2].status = "CONFIRMED" /\ ~item[2].creditedAt
    BY <1>2 DEF BatchOK
  <2>5. ASSUME NEW v \in Workers PROVE WorkOK(v)'
    <3>1. CASE v = Reconciler
      BY <1>1, <2>0, <2>3, <2>4, <3>1 DEF WorkOK, Confirming, Refunding
    <3>2. CASE v # Reconciler
      BY <1>1, <1>4, <2>2, <2>3, <3>2
    <3> QED BY <3>1, <3>2
  <2>6. ASSUME NEW p \in Payments PROVE RulesOK(p)'
    <3>1. ~Settling(p)
      BY <2>2 DEF Settling
    <3> QED BY <1>2, <1>3, <2>1, <3>1, RulesKept
  <2> QED BY <1>2, <2>1, <2>5, <2>6
<1>7. ASSUME NEW w \in Workers, DbError(w) PROVE
         /\ \A v \in Workers : WorkOK(v)'
         /\ \A p \in Payments : RulesOK(p)'
         /\ \A p \in Payments : row'[p].status = "REFUNDED" => gateway'[p] = "REFUNDED"
  <2>1. /\ row' = row /\ gateway' = gateway /\ dbErrors' = dbErrors + 1 /\ crashes' = crashes
        /\ pc[w] # "idle"
    BY <1>7 DEF DbError, At
  <2>2. ~Calm'
    BY <2>1, PaymentAssumption DEF Calm, PayInv, TypeOK
  <2>3. \A p \in Payments : RulesOK(p)'
    BY <1>2, <2>1, <2>2, RulesKept
  <2>4. WorkOK(w)'
    <3>1. \/ pc'[w] = "idle"
          \/ pc[w] = "confirm.check" /\ pc'[w] = "status.read" /\ UNCHANGED <<on, seen>>
          \/ pc[w] \in {"status.read", "status.write"} /\ pc'[w] = "publish.read" /\ UNCHANGED <<on, seen>>
          \/ pc[w] = "refund.reverse" /\ pc'[w] = "refund.write" /\ UNCHANGED <<on, seen>>
      BY <1>1, <1>7 DEF DbError, AfterStatus, Finish, Continue, Goto, At
    <3> QED BY <1>2, <1>4, <2>1, <3>1 DEF WorkOK, Confirming, Refunding
  <2>5. ASSUME NEW v \in Workers, v # w PROVE WorkOK(v)'
    BY <1>4, <1>7, <2>1, <2>5, OthersRest, TheOnlyOne DEF PayInv
  <2> QED BY <1>2, <2>1, <2>3, <2>4, <2>5
<1>8. ASSUME UNCHANGED <<pc, on, seen, snap, share>>,
             \A p \in Payments : row'[p].status = row[p].status /\ row'[p].rules = row[p].rules,
             \A p \in Payments : gateway[p] = "REFUNDED" => gateway'[p] = "REFUNDED"
      PROVE  /\ \A v \in Workers : WorkOK(v)'
             /\ \A p \in Payments : RulesOK(p)'
             /\ \A p \in Payments : row'[p].status = "REFUNDED" => gateway'[p] = "REFUNDED"
  <2>1. ASSUME NEW v \in Workers PROVE WorkOK(v)'
    <3>1. pc'[v] = "idle" \/ on[v] \in Payments
      BY <1>1, <1>8
    <3> QED BY <1>2, <1>3, <1>8, <3>1, WorkKept
  <2>2. ASSUME NEW p \in Payments PROVE RulesOK(p)'
    <3>1. Settling(p) => Settling(p)'
      BY <1>8 DEF Settling
    <3> QED BY <1>2, <1>3, <1>8, <3>1, RulesKept
  <2> QED BY <1>2, <1>8, <2>1, <2>2
<1>9. ASSUME NEW p \in Payments, Ageing(p) PROVE
         /\ \A v \in Workers : WorkOK(v)'
         /\ \A q \in Payments : RulesOK(q)'
         /\ \A q \in Payments : row'[q].status = "REFUNDED" => gateway'[q] = "REFUNDED"
  <2>1. /\ row' = [row EXCEPT ![p] = row'[p]]
        /\ row'[p].status = row[p].status /\ row'[p].rules = row[p].rules
    BY <1>1, <1>9 DEF Ageing, SetRow, Row
  <2>2. \A q \in Payments : row'[q].status = row[q].status /\ row'[q].rules = row[q].rules
    BY <1>1, <2>1
  <2> QED BY <1>8, <1>9, <2>2 DEF Ageing, workerVars
<1>10. ASSUME NEW p \in Payments, NEW status \in GatewayStatuses, GatewayMoves(p, status) PROVE
         /\ \A v \in Workers : WorkOK(v)'
         /\ \A q \in Payments : RulesOK(q)'
         /\ \A q \in Payments : row'[q].status = "REFUNDED" => gateway'[q] = "REFUNDED"
  <2>1. \A q \in Payments : gateway[q] = "REFUNDED" => gateway'[q] = "REFUNDED"
    BY <1>1, <1>10 DEF GatewayMoves
  <2> QED BY <1>8, <1>10, <2>1 DEF GatewayMoves, workerVars
<1>11. CASE UNCHANGED vars
  BY <1>8, <1>11 DEF vars, workerVars
<1>12. CASE Crash
  <2>1. /\ row' = row /\ gateway' = gateway /\ dbErrors' = dbErrors /\ crashes' = crashes + 1
        /\ \A v \in Workers : pc'[v] = "idle"
    BY <1>12 DEF Crash
  <2>2. ~Calm'
    BY <2>1, PaymentAssumption DEF Calm, PayInv, TypeOK
  <2>3. \A p \in Payments : RulesOK(p)'
    BY <1>2, <2>1, <2>2, RulesKept
  <2> QED BY <1>2, <1>4, <2>1, <2>3
<1> QED BY <1>5, <1>6, <1>7, <1>9, <1>10, <1>11, <1>12 DEF Reconcile


\* Beside a worker that moves, nobody does or will.
LEMMA OthersIdle ==
  ASSUME PayInv, OneByOne, Serial, NEW w \in Workers, NEW v \in Workers, v # w,
         JobStep(w) \/ DbError(w) \/ (w \in Handlers /\ Request(w))
  PROVE  pc'[v] = "idle"
<1>1. CASE JobStep(w) \/ DbError(w)
  <2>1. pc[w] # "idle"
    BY <1>1 DEF JobStep, InsertPayment, ConfirmCheck, StatusRead, StatusWrite, PublishRead,
                SettleSkip, SettleAtOrigin, ToPay, SettleCredit, SettleWrite, EarnPoints,
                RefundRead, RefundReverse, RefundWrite, DbError, At
  <2>2. pc[v] = "idle"
    BY <2>1, TheOnlyOne
  <2> QED BY <1>1, <2>2, OthersRest DEF PayInv
<1>2. CASE w \in Handlers /\ Request(w)
  <2>1. ASSUME NEW p \in Payments, HandlePaymentWebhook(w, p) PROVE Free(w)
    BY <1>2, <2>1, WebhookStarts DEF Start
  <2>2. Free(w)
    BY <1>2, <2>1 DEF Request, CreateCharge, ApprovePayment, RejectPayment, ProcessSplit,
                      EstablishmentWithdraw, Start
  <2>3. pc[v] = "idle"
    BY <2>2, StartsAlone
  <2> QED BY <1>2, <2>3, OthersRest DEF PayInv
<1> QED BY <1>1, <1>2

LEMMA AloneKeeps ==
  ASSUME PayInv, OneByOne, Serial, [Next]_vars
  PROVE  Alone'
<1>0. /\ Reconciler \in Workers /\ Handlers \subseteq Workers /\ Reconciler \notin Handlers
      /\ pc \in [Workers -> PCs]
  BY PaymentAssumption DEF Workers, PayInv, TypeOK
<1>1. Alone
  BY DEF OneByOne
<1>2. ASSUME NEW w \in Workers, JobStep(w) \/ DbError(w) \/ (w \in Handlers /\ Request(w))
      PROVE  Alone'
  <2>1. \A v \in Workers \ {w} : pc'[v] = "idle"
    BY <1>2, OthersIdle
  <2>2. batch' # {} => w = Reconciler \/ pc'[w] = "idle"
    <3> SUFFICES ASSUME w # Reconciler, batch' # {} PROVE FALSE
      OBVIOUS
    <3>1. batch' = batch
      BY <1>0, <1>2, OthersRest DEF PayInv
    <3>2. w \in Handlers
      BY DEF Workers
    <3>3. CASE pc[w] # "idle"
      BY <1>1, <3>1, <3>2, <3>3 DEF Alone
    <3>4. CASE pc[w] = "idle"
      <4>1. Request(w)
        BY <1>2, <3>4 DEF JobStep, InsertPayment, ConfirmCheck, StatusRead, StatusWrite, PublishRead,
                SettleSkip, SettleAtOrigin, ToPay, SettleCredit, SettleWrite, EarnPoints,
                RefundRead, RefundReverse, RefundWrite, DbError, At
      <4>2. ASSUME NEW p \in Payments, HandlePaymentWebhook(w, p) PROVE Free(w)
        BY <3>2, <4>2, WebhookStarts DEF Start
      <4>3. Free(w)
        BY <4>1, <4>2 DEF Request, CreateCharge, ApprovePayment, RejectPayment, ProcessSplit,
                      EstablishmentWithdraw, Start
      <4> QED BY <3>1, <4>3, StartsAlone
    <3> QED BY <3>3, <3>4
  <2> QED BY <1>0, <2>1, <2>2 DEF Alone
<1>3. CASE ReconcileScan
  <2>1. \A v \in Workers : pc'[v] = "idle"
    BY <1>0, <1>3, StartsAlone DEF ReconcileScan
  <2> QED BY <1>0, <2>1 DEF Alone
<1>4. CASE ReconcileNext
  <2>1. PICK item \in batch : Start(Reconciler, item[1], "settle.pay")
    BY <1>4 DEF ReconcileNext
  <2>2. \A v \in Workers : pc[v] = "idle"
    BY <1>0, <2>1, StartsAlone DEF Start
  <2>3. \A v \in Workers \ {Reconciler} : pc'[v] = "idle"
    BY <1>0, <2>1, <2>2 DEF Start, Goto
  <2> QED BY <1>0, <2>3 DEF Alone
<1>5. CASE Crash
  BY <1>0, <1>5 DEF Crash, Alone
<1>6. CASE \/ UNCHANGED vars
           \/ \E p \in Payments : Ageing(p) \/ \E status \in GatewayStatuses : GatewayMoves(p, status)
  <2>1. pc' = pc /\ batch' = batch
    BY <1>6 DEF vars, workerVars, Ageing, GatewayMoves
  <2> QED BY <1>1, <2>1 DEF Alone
<1> QED BY <1>0, <1>2, <1>3, <1>4, <1>5, <1>6 DEF Next, Reconcile

LEMMA BatchKeeps ==
  ASSUME PayInv, OneByOne, [Next]_vars
  PROVE  BatchOK'
<1>1. BatchOK
  BY DEF OneByOne
<1>2. batch' \subseteq batch => BatchOK'
  BY <1>1 DEF BatchOK
<1>3. ASSUME NEW w \in Workers, JobStep(w) \/ DbError(w) \/ (w \in Handlers /\ Request(w))
      PROVE  batch' \subseteq batch
  <2>1. ASSUME w \in Handlers, Request(w) PROVE batch' = batch
    <3>1. ASSUME NEW p \in Payments, HandlePaymentWebhook(w, p) PROVE batch' = batch
      BY <2>1, <3>1, WebhookStarts
    <3> QED BY <2>1, <3>1 DEF Request, CreateCharge, ApprovePayment, RejectPayment, ProcessSplit,
                             EstablishmentWithdraw, workerVars
  <2>2. ASSUME JobStep(w) PROVE batch' = batch
    BY <2>2 DEF JobStep, InsertPayment, ConfirmCheck, StatusRead, StatusWrite, PublishRead, SettleSkip,
              SettleAtOrigin, SettleCredit, PayDone, SettleWrite, EarnPoints, RefundRead,
              RefundReverse, ReverseDone, RefundWrite
  <2> QED BY <1>3, <2>1, <2>2 DEF DbError
<1>4. CASE ReconcileScan
  BY <1>4 DEF ReconcileScan, Due, BatchOK
<1>5. CASE \/ ReconcileNext \/ Crash \/ UNCHANGED vars
           \/ \E p \in Payments : Ageing(p) \/ \E status \in GatewayStatuses : GatewayMoves(p, status)
  <2>1. batch' \subseteq batch
    BY <1>5 DEF ReconcileNext, Crash, vars, workerVars, Ageing, GatewayMoves
  <2> QED BY <1>2, <2>1
<1>6. Handlers \subseteq Workers
  BY DEF Workers
<1> QED BY <1>2, <1>3, <1>4, <1>5, <1>6 DEF Next, Reconcile

\* The one place where the refund's reliance is needed.
LEMMA HonestKeeps ==
  ASSUME PayInv, OneByOne, [Next]_vars
  PROVE  Honest'
<1> SUFFICES ASSUME Untouched', NEW p \in Payments, HasCharge(p), Reversed(p)'
             PROVE  Credited(p)'
  BY DEF Honest, HasCharge
<1>1. Untouched
  BY CalmBefore DEF PayInv, Untouched
<1>2. TypeOK /\ StoreOf[p] \in Wallets
  BY PaymentAssumption DEF PayInv
<1>3. CASE Reversed(p)
  <2>1. Credited(p)
    BY <1>1, <1>3 DEF OneByOne, Honest
  <2> QED BY <1>2, <2>1, CreditsStay
<1>4. CASE ~Reversed(p)
  <2>1. /\ HasLedgerEntry(StoreOf[p], "debit", Ref(p))'
        /\ ~HasLedgerEntry(StoreOf[p], "debit", Ref(p))
    BY <1>4 DEF Reversed, Ref, HasCharge
  <2>2. Ref(p) \notin WithdrawRefs
    BY RefsOf
  <2>3. PICK w \in Workers : TakesBack(w) /\ Ref(p) = Ref(on[w])
    BY <1>2, <2>1, <2>2, NewEntries
  <2>4. on[w] \in Payments
    BY <1>2, <2>3 DEF TakesBack, TypeOK
  <2>5. on[w] = p
    BY <2>3, <2>4, RefsOf
  <2>6. Pix(p)
    BY <2>3, <2>5, PaymentAssumption DEF TakesBack, Pix, HasCharge, AtOrigin, Kinds
  <2>7. Credited(p)
    BY <1>1, <2>3, <2>5, <2>6 DEF OneByOne, WorkOK, TakesBack
  <2> QED BY <1>2, <2>7, CreditsStay
<1> QED BY <1>3, <1>4

\* The amounts behind the rows a movement leaves.
LEMMA AmountAfter ==
  ASSUME LedgerTypeOK,
         NEW w \in Wallets, NEW type \in TxnTypes, NEW amount \in Amounts,
         NEW r \in References, AdjustWalletBalance(w, type, amount, r),
         NEW p \in Payments, NEW t, NEW a \in Moved(p, t)', a \notin Moved(p, t)
  PROVE  StoreOf[p] = w /\ t = type /\ Ref(p) = r /\ a = amount
<1>0. PICK v \in Wallets : v = StoreOf[p]
  BY PaymentAssumption
<1>1. PICK x : x = Ref(p)
  OBVIOUS
<1>2. PICK i \in DOMAIN ledger'[v] :
        ledger'[v][i].type = t /\ ledger'[v][i].ref = x /\ ledger'[v][i].amount = a
  BY <1>0, <1>1 DEF Moved, Range, Ref, HasCharge
<1>3. ~ \E j \in DOMAIN ledger[v] :
          ledger[v][j].type = t /\ ledger[v][j].ref = x /\ ledger[v][j].amount = a
  BY <1>0, <1>1 DEF Moved, Range
<1>4. CASE v # w
  BY <1>2, <1>3, <1>4, PostedRow
<1>5. CASE v = w
  <2> DEFINE n == Len(ledger[w])
  <2>1. /\ n \in Nat /\ DOMAIN ledger[w] = 1..n /\ DOMAIN ledger'[w] = 1..(n + 1)
        /\ \A j \in 1..n : ledger'[w][j] = ledger[w][j]
        /\ ledger'[w][n + 1].type = type /\ ledger'[w][n + 1].ref = r
        /\ ledger'[w][n + 1].amount = amount
    <3>1. ledger'[w][n + 1] = NewEntry(w, type, amount, r)
      BY PostedRow
    <3>2. /\ NewEntry(w, type, amount, r).type = type /\ NewEntry(w, type, amount, r).ref = r
          /\ NewEntry(w, type, amount, r).amount = amount
      BY DEF NewEntry
    <3> QED BY <3>1, <3>2, PostedRow
  <2> HIDE DEF n
  <2>2. 1..(n + 1) = 1..n \cup {n + 1}
    BY <2>1
  <2>3. i = n + 1
    BY <1>2, <1>3, <1>5, <2>1, <2>2
  <2> QED BY <1>0, <1>1, <1>2, <1>5, <2>1, <2>3
<1> QED BY <1>4, <1>5

\* An amount that was not moved before is a share that a settlement computed, or
\* what a refund read.
LEMMA NewAmounts ==
  ASSUME TypeOK, [Next]_vars, NEW p \in Payments, HasCharge(p),
         NEW t, NEW a \in Moved(p, t)', a \notin Moved(p, t)
  PROVE  \/ t = "credit" /\ a \in Shares[p]
         \/ t = "debit" /\ \E w \in Workers : TakesBack(w) /\ on[w] = p /\ a = snap[w].rules
<1>0. LedgerTypeOK
  BY DEF TypeOK
<1>1. CASE UNCHANGED ledgerVars
  BY <1>1 DEF ledgerVars, Moved, Ref, HasCharge
<1>2. ASSUME NEW w \in Workers, on[w] \in Payments, Pays(on[w]) PROVE t = "credit" /\ a \in Shares[p]
  <2>1. PICK q \in Payments : q = on[w]
    BY <1>2
  <2>2. PICK amount \in Shares[q] \cap Amounts : AdjustWalletBalance(StoreOf[q], "credit", amount, Ref(q))
    BY <1>2, <2>1 DEF Pays
  <2>3. StoreOf[q] \in Wallets /\ Ref(q) \in References /\ amount \in Amounts /\ "credit" \in TxnTypes
    BY RefsOf DEF TxnTypes
  <2>4. t = "credit" /\ Ref(p) = Ref(q) /\ a = amount
    BY <1>0, <2>2, <2>3, AmountAfter
  <2>5. p = q
    BY <2>4, RefsOf
  <2> QED BY <2>4, <2>5
<1>3. ASSUME NEW w \in Workers, TakesBack(w) PROVE t = "debit" /\ on[w] = p /\ a = snap[w].rules
  <2>1. PICK q \in Payments : q = on[w]
    BY <1>3 DEF TypeOK, TakesBack
  <2>2. PICK amount \in Amounts : amount = snap[w].rules
    BY <1>3 DEF TakesBack
  <2>3. AdjustWalletBalance(StoreOf[q], "debit", amount, Ref(q))
    BY <1>3, <2>1, <2>2 DEF TakesBack
  <2>4. StoreOf[q] \in Wallets /\ Ref(q) \in References /\ "debit" \in TxnTypes
    BY RefsOf DEF TxnTypes
  <2>5. t = "debit" /\ Ref(p) = Ref(q) /\ a = amount
    BY <1>0, <2>3, <2>4, AmountAfter
  <2>6. p = q
    BY <2>5, RefsOf
  <2> QED BY <2>1, <2>2, <2>5, <2>6
<1>4. CASE Withdraws
  <2>1. PICK s \in Wallets, amount \in Amounts, r \in WithdrawRefs : AdjustWalletBalance(s, "debit", amount, r)
    BY <1>4 DEF Withdraws
  <2>2. r \in References /\ "debit" \in TxnTypes
    BY RefsOf DEF TxnTypes
  <2>3. Ref(p) = r
    BY <1>0, <2>1, <2>2, AmountAfter
  <2> QED BY <2>3, RefsOf
<1> QED BY <1>1, <1>2, <1>3, <1>4, HowMoneyMoves

\* Credits are shares of the payment, and so is what a refund took back.
LEMMA AmountsKeep ==
  ASSUME PayInv, OneByOne, [Next]_vars
  PROVE  Credits' /\ Debits'
<1>0. TypeOK
  BY DEF PayInv
<1>1. Credits'
  <2> SUFFICES ASSUME NEW p \in Payments, HasCharge(p), NEW a \in Moved(p, "credit")'
               PROVE  a \in Shares[p]
    BY DEF Credits, HasCharge
  <2>1. CASE a \in Moved(p, "credit")
    BY <2>1 DEF OneByOne, Credits
  <2>2. CASE a \notin Moved(p, "credit")
    BY <1>0, <2>2, NewAmounts
  <2> QED BY <2>1, <2>2
<1>2. Debits'
  <2> SUFFICES ASSUME Untouched', NEW p \in Payments, HasCharge(p), NEW a \in Moved(p, "debit")'
               PROVE  a \in Shares[p]
    BY DEF Debits, HasCharge
  <2>0. Untouched
    BY CalmBefore DEF PayInv, Untouched
  <2>1. CASE a \in Moved(p, "debit")
    BY <2>0, <2>1 DEF OneByOne, Debits
  <2>2. CASE a \notin Moved(p, "debit")
    <3>1. PICK w \in Workers : TakesBack(w) /\ on[w] = p /\ a = snap[w].rules
      BY <1>0, <2>2, NewAmounts
    <3>2. Pix(p)
      BY <3>1, PaymentAssumption DEF TakesBack, Pix, HasCharge, AtOrigin, Kinds
    <3> QED BY <2>0, <3>1, <3>2 DEF OneByOne, WorkOK, TakesBack
  <2> QED BY <2>1, <2>2
<1> QED BY <1>1, <1>2

LEMMA SerialKeeps ==
  ASSUME PayInv, OneByOne, Serial, [Next]_vars
  PROVE  OneByOne'
<1>1. /\ \A w \in Workers : WorkOK(w)'
      /\ \A p \in Payments : RulesOK(p)'
      /\ \A p \in Payments : row'[p].status = "REFUNDED" => gateway'[p] = "REFUNDED"
  <2>1. ASSUME NEW w \in Workers, JobStep(w) \/ (w \in Handlers /\ Request(w)),
               NEW v \in Workers, v # w
        PROVE  WorkOK(v)'
    BY <2>1, OthersIdle DEF WorkOK, Confirming, Refunding
  <2>2. Handlers \subseteq Workers
    BY DEF Workers
  <2>3. CASE \E w \in Workers : JobStep(w)
    <3>1. PICK w \in Workers : JobStep(w)
      BY <2>3
    <3> QED BY <2>1, <3>1, JobStepSerial
  <2>4. CASE \E w \in Handlers : Request(w)
    <3>1. PICK w \in Handlers : Request(w)
      BY <2>4
    <3> QED BY <2>1, <2>2, <3>1, RequestSerial
  <2>5. CASE ~(\E w \in Workers : JobStep(w)) /\ ~(\E w \in Handlers : Request(w))
    <3>1. \/ Reconcile \/ Crash \/ UNCHANGED vars
          \/ \E w \in Workers : DbError(w)
          \/ \E p \in Payments : Ageing(p) \/ \E status \in GatewayStatuses : GatewayMoves(p, status)
      BY <2>5 DEF Next
    <3> QED BY <3>1, OtherSerial
  <2> QED BY <2>3, <2>4, <2>5
<1> QED BY <1>1, AloneKeeps, BatchKeeps, HonestKeeps, AmountsKeep DEF OneByOne

LEMMA SerialStarts == Init => OneByOne
<1> SUFFICES ASSUME Init PROVE OneByOne
  OBVIOUS
<1>1. Credits /\ Debits
  <2>1. \A p \in Payments, t \in TxnTypes : Moved(p, t) = {}
    BY PaymentAssumption DEF Init, LedgerInit, Moved, Range
  <2> QED BY <2>1 DEF Credits, Debits, TxnTypes
<1> QED BY <1>1, PaymentAssumption
        DEF Init, LedgerInit, OneByOne, Alone, BatchOK, Honest, Reversed, HasLedgerEntry, WorkOK,
            Confirming, Refunding, RulesOK, NoRow

\* A row of a movement is a row, and the other way round.
LEMMA MovedIsEntry ==
  ASSUME NEW p \in Payments, NEW t
  PROVE  HasLedgerEntry(StoreOf[p], t, Ref(p)) <=> Moved(p, t) # {}
BY DEF HasLedgerEntry, Moved, Range

\* With handlers one at a time, and unless rules an admin wrote by hand meet a
\* crash or a failed call, a refund takes from a store only for a payment it was
\* credited, and where the zone's percentages do not move, exactly what it was
\* credited (webhook.go:161, 192-206, 246-300).
THEOREM SettlementCorrect == Spec => []SettlementInv
<1>1. PayInv /\ (Serial => OneByOne) => SettlementInv
  <2> SUFFICES ASSUME PayInv, Serial => OneByOne PROVE SettlementInv
    OBVIOUS
  <2>1. NoReversalWithoutCredit
    BY DEF OneByOne, Honest, Untouched, Undisturbed, Calm, NoReversalWithoutCredit
  <2>2. PaysBackTheCredit
    <3> SUFFICES ASSUME Undisturbed, NEW p \in Payments, HasCharge(p), Steady(p),
                        NEW a \in Moved(p, "debit")
                 PROVE  a \in Moved(p, "credit")
      BY DEF PaysBackTheCredit
    <3>1. OneByOne /\ Untouched
      BY DEF Undisturbed, Untouched, Calm
    <3>2. a \in Shares[p] /\ Moved(p, "credit") \subseteq Shares[p]
      BY <3>1 DEF OneByOne, Credits, Debits
    <3>3. Moved(p, "credit") # {}
      BY <2>1, MovedIsEntry DEF NoReversalWithoutCredit, Reversed, Credited
    <3>4. PICK amount \in Shares[p] : Shares[p] = {amount}
      BY DEF Steady
    <3> QED BY <3>2, <3>3, <3>4
  <2> QED BY <2>1, <2>2 DEF PayInv, SettlementInv
<1>2. Init => PayInv /\ (Serial => OneByOne)
  BY PayStarts, SerialStarts
<1>3. PayInv /\ (Serial => OneByOne) /\ [Next]_vars => PayInv' /\ (Serial => OneByOne)'
  BY PayKeeps, SerialKeeps
<1> QED BY <1>1, <1>2, <1>3, PTL DEF Spec

-----------------------------------------------------------------------------
(* One handler at a time, what a payment has been stays written.  What a job     *)
(* read is still so when it writes (JobRemembers); and the rules of a confirmed   *)
(* payment that was credited say so, or it is being settled (RulesFollow), so     *)
(* that a refund finds what it has to take back.                                 *)

Settles == {"settle.pay", "settle.write"}

TakenBack(p) == \/ p \in refused
                \/ ~AtOrigin(p) /\ (Credited(p) /\ 0 \notin Shares[p] => Reversed(p))
                \/ AtOrigin(p) /\ (Kind[p] = "repasse" => debt[OrderOf[p]] # "open")

JobRemembers(w) ==
  LET p == on[w]
  IN /\ pc[w] = "insert" => row[p].status = "none" /\ (HasCharge(p) => seen[w] = "PENDING")
     /\ pc[w] = "status.write" => row[p].status # seen[w]
     /\ pc[w] \in Settles => /\ row[p].status # "REFUNDED"
                             /\ snap[w].confirmedAt = "none" => row[p].confirmedAt = "none"
     /\ pc[w] = "refund.reverse" => row[p].status = "CONFIRMED" /\ snap[w].rules = row[p].rules
     /\ pc[w] = "refund.write" /\ row[p].status = "CONFIRMED" /\ Calm /\ HasCharge(p) => TakenBack(p)

RulesFollow(p) ==
  Pix(p) /\ 0 \notin Shares[p] /\ Calm /\ Credited(p) /\ row[p].status = "CONFIRMED" =>
    row[p].rules > 0 \/ Settling(p)

\* The reconciliation settles what it found, and nobody else writes meanwhile.
ScanAlone == /\ pc[Reconciler] \in {"idle", "settle.pay", "settle.write", "settle.points"}
             /\ \A item \in batch : row[item[1]].status = "CONFIRMED" /\ item[2].confirmedAt = "due"

RefundsCharged == \A p \in Payments : gateway[p] = "REFUNDED" => HasCharge(p)

HistoryInv == /\ \A w \in Workers : JobRemembers(w)
              /\ \A p \in Payments : RulesFollow(p)
              /\ ScanAlone /\ RefundsCharged

\* Only the worker that settles a payment credits it.
LEMMA NewCredit ==
  ASSUME TypeOK, [Next]_vars, NEW p \in Payments, HasCharge(p), Credited(p)', ~Credited(p)
  PROVE  \E w \in Workers : pc[w] = "settle.pay" /\ on[w] = p /\ ~AtOrigin(p)
<1>1. StoreOf[p] \in Wallets
  BY PaymentAssumption
<1>2. HasLedgerEntry(StoreOf[p], "credit", Ref(p))' /\ ~HasLedgerEntry(StoreOf[p], "credit", Ref(p))
  BY DEF Credited, Ref, HasCharge
<1>3. PICK w \in Workers : pc[w] = "settle.pay" /\ on[w] \in Payments /\ Pays(on[w]) /\ Ref(p) = Ref(on[w])
  BY <1>1, <1>2, NewEntries
<1>4. on[w] = p
  BY <1>3, RefsOf
<1> QED  BY <1>3, <1>4 DEF Pays

\* What writes a row.
LEMMA RowMoves ==
  ASSUME TypeOK, [Next]_vars, NEW p \in Payments, row'[p] # row[p]
  PROVE  \/ \E w \in Workers : /\ on[w] = p
                               /\ InsertPayment(w) \/ StatusWrite(w) \/ SettleWrite(w) \/ RefundWrite(w)
         \/ \E w \in Handlers : \/ ApprovePayment(w, p) \/ RejectPayment(w, p)
                                \/ \E amount \in SplitAmounts : ProcessSplit(w, p, amount)
         \/ Ageing(p)
<1>1. row \in [Payments -> Row]
  BY DEF TypeOK
<1>2. ASSUME NEW w \in Workers, JobStep(w)
      PROVE  on[w] = p /\ (InsertPayment(w) \/ StatusWrite(w) \/ SettleWrite(w) \/ RefundWrite(w))
  <2>1. InsertPayment(w) \/ StatusWrite(w) \/ SettleWrite(w) \/ RefundWrite(w)
    BY <1>2 DEF JobStep, ConfirmCheck, StatusRead, PublishRead, SettleSkip, SettleAtOrigin, SettleCredit,
                PayDone, EarnPoints, RefundRead, RefundReverse, ReverseDone
  <2>2. \E r : row' = [row EXCEPT ![on[w]] = r]
    BY <2>1 DEF InsertPayment, StatusWrite, SettleWrite, RefundWrite, SetRow
  <2> QED  BY <1>1, <2>1, <2>2
<1>3. ASSUME NEW w \in Handlers, Request(w)
      PROVE  \/ ApprovePayment(w, p) \/ RejectPayment(w, p)
             \/ \E amount \in SplitAmounts : ProcessSplit(w, p, amount)
  <2>1. ASSUME NEW q \in Payments, HandlePaymentWebhook(w, q) PROVE FALSE
    BY <1>3, <2>1, WebhookStarts
  <2>2. ASSUME NEW q \in Payments, NEW answer, CreateCharge(w, q, answer) PROVE FALSE
    BY <2>2 DEF CreateCharge
  <2>3. ASSUME NEW s \in Wallets, NEW amount \in Amounts, NEW r \in WithdrawRefs, EstablishmentWithdraw(w, s, amount, r) PROVE FALSE
    BY <2>3 DEF EstablishmentWithdraw
  <2>4. PICK q \in Payments : \/ ApprovePayment(w, q) \/ RejectPayment(w, q)
                              \/ \E amount \in SplitAmounts : ProcessSplit(w, q, amount)
    BY <1>3, <2>1, <2>2, <2>3 DEF Request
  <2>5. \E r : row' = [row EXCEPT ![q] = r]
    BY <2>4 DEF ApprovePayment, RejectPayment, ProcessSplit, SetRow
  <2>6. q = p
    BY <1>1, <2>5
  <2> QED  BY <2>4, <2>6
<1>4. ASSUME NEW q \in Payments, Ageing(q) PROVE Ageing(p)
  BY <1>1, <1>4 DEF Ageing, SetRow
<1>5. ASSUME NEW w \in Workers, DbError(w) PROVE FALSE
  BY <1>5 DEF DbError
<1>6. CASE \/ Reconcile \/ Crash \/ UNCHANGED vars
           \/ \E q \in Payments : \E status \in GatewayStatuses : GatewayMoves(q, status)
  BY <1>6 DEF Reconcile, ReconcileScan, ReconcileNext, Crash, vars, GatewayMoves
<1> QED  BY <1>2, <1>3, <1>4, <1>5, <1>6 DEF Next

\* A step of one payment leaves the others as they follow.
LEMMA FollowKept ==
  ASSUME TypeOK, [Next]_vars, NEW p \in Payments, RulesFollow(p), Calm' => Calm,
         row'[p].rules = row[p].rules,
         row'[p].status = "CONFIRMED" /\ Calm' =>
           \/ Settling(p)'
           \/ row[p].status = "CONFIRMED" /\ ~Settling(p)
  PROVE  RulesFollow(p)'
<1> SUFFICES ASSUME Pix(p), 0 \notin Shares[p], Calm', Credited(p)', row'[p].status = "CONFIRMED", ~Settling(p)'
    PROVE  row'[p].rules > 0
  BY DEF RulesFollow, Pix
<1>1. ~Settling(p) /\ row[p].status = "CONFIRMED"
  OBVIOUS
<1>2. Credited(p)
  <2>1. HasCharge(p)
    BY DEF Pix, HasCharge
  <2> QED  BY <1>1, <2>1, NewCredit DEF Settling
<1> QED  BY <1>1, <1>2 DEF RulesFollow

\* What was taken back stays so while no money moves.
LEMMA TakenBackStays ==
  ASSUME UNCHANGED money, NEW p \in Payments, TakenBack(p)
  PROVE  TakenBack(p)'
<1>1. ledger' = ledger /\ debt' = debt /\ refused' = refused
  BY DEF money
<1>2. (Credited(p)' <=> Credited(p)) /\ (Reversed(p)' <=> Reversed(p))
  BY <1>1 DEF Credited, Reversed, HasLedgerEntry, Ref, HasCharge
<1> QED  BY <1>1, <1>2 DEF TakenBack, AtOrigin

\* A job whose payment nobody touched remembers what it did.
LEMMA JobKept ==
  ASSUME UNCHANGED <<pc, on, seen, snap, share>>, UNCHANGED money, Calm' => Calm,
         NEW w \in Workers, pc[w] # "idle" => on[w] \in Payments, JobRemembers(w),
         \A p \in Payments : /\ row'[p].status = row[p].status /\ row'[p].rules = row[p].rules
                             /\ row[p].confirmedAt = "none" => row'[p].confirmedAt = "none"
  PROVE  JobRemembers(w)'
<1>1. CASE pc[w] = "idle"
  BY <1>1 DEF JobRemembers, Settles
<1>2. CASE pc[w] # "idle"
  <2>1. PICK p \in Payments : p = on[w]
    BY <1>2
  <2>2. TakenBack(p) => TakenBack(p)'
    BY TakenBackStays
  <2>3. on'[w] = p /\ pc'[w] = pc[w] /\ seen'[w] = seen[w] /\ snap'[w] = snap[w]
    BY <2>1
  <2>4. /\ row'[p].status = row[p].status /\ row'[p].rules = row[p].rules
        /\ row[p].confirmedAt = "none" => row'[p].confirmedAt = "none"
    OBVIOUS
  <2> QED  BY <2>1, <2>2, <2>3, <2>4 DEF JobRemembers, HasCharge
<1> QED  BY <1>1, <1>2

LEMMA IdleRemembers ==
  /\ \A w \in Workers : pc[w] = "idle" => JobRemembers(w)
  /\ \A w \in Workers : pc'[w] = "idle" => JobRemembers(w)'
BY DEF JobRemembers, Settles

LEMMA JobStepRemembers ==
  ASSUME PayInv, OneByOne, HistoryInv, [Next]_vars, NEW w \in Workers, JobStep(w)
  PROVE  JobRemembers(w)' /\ \A p \in Payments : RulesFollow(p)'
<1> USE DEF At
<1>0. pc[w] # "idle"
  BY DEF JobStep, InsertPayment, ConfirmCheck, StatusRead, StatusWrite, PublishRead, SettleSkip,
         SettleAtOrigin, ToPay, SettleCredit, SettleWrite, EarnPoints, RefundRead, RefundReverse,
         RefundWrite
<1>1. PICK q \in Payments : q = on[w]
  BY <1>0 DEF PayInv, TypeOK
<1>2. /\ row \in [Payments -> Row] /\ row[q] \in Row
      /\ pc \in [Workers -> PCs] /\ on \in [Workers -> Payments \cup {NoPayment}]
      /\ seen \in [Workers -> GatewayStatuses] /\ snap \in [Workers -> Row]
  BY <1>1 DEF PayInv, TypeOK
<1>3. JobRemembers(w) /\ (\A p \in Payments : RulesFollow(p)) /\ WorkOK(w)
  BY DEF OneByOne, HistoryInv
<1>4. \A p \in Payments : Settling(p) <=> q = p /\ pc[w] \in {"publish.read", "settle.pay", "settle.write"}
  BY <1>0, <1>1, TheOnlyOne
<1>5. UNCHANGED <<crashes, dbErrors>>
  BY DEF JobStep, InsertPayment, ConfirmCheck, StatusRead, StatusWrite, PublishRead, SettleSkip,
         SettleAtOrigin, ToPay, SettleCredit, SettleWrite, EarnPoints, RefundRead, RefundReverse,
         RefundWrite, PayDone, ReverseDone, faults
<1>6. (Calm' <=> Calm) /\ TypeOK
  BY <1>5 DEF Calm, PayInv
<1>7. pc'[w] = "idle" => JobRemembers(w)'
  BY IdleRemembers
\* The other payments, and this one when its row is left alone.
<1>8. ASSUME NEW p \in Payments, row'[p] = row[p], Settling(p) => Settling(p)' \/ row[p].status # "CONFIRMED"
      PROVE  RulesFollow(p)'
  BY <1>3, <1>6, <1>8, FollowKept
<1>9. ASSUME row' = [row EXCEPT ![q] = row'[q]], NEW p \in Payments, p # q PROVE RulesFollow(p)'
  <2>1. row'[p] = row[p]
    BY <1>2, <1>9
  <2>2. ~Settling(p)
    BY <1>4, <1>9
  <2> QED  BY <1>8, <2>1, <2>2
<1>10. CASE InsertPayment(w)
  <2>1. /\ row' = [row EXCEPT ![q] = row'[q]] /\ row'[q].status = seen[w]
        /\ pc[w] = "insert" /\ pc'[w] = "idle"
    BY <1>1, <1>2, <1>10 DEF InsertPayment, SetRow, NoRow, Finish, Goto
  <2>2. Pix(q) => row'[q].status # "CONFIRMED"
    BY <1>1, <1>3, <2>1 DEF JobRemembers, Pix, HasCharge
  <2>3. RulesFollow(q)'
    BY <2>2 DEF RulesFollow, Pix
  <2> QED  BY <1>7, <1>9, <2>1, <2>3
<1>11. CASE ConfirmCheck(w)
  <2>1. /\ row' = row /\ pc[w] = "confirm.check" /\ pc'[w] \in {"idle", "status.read"}
    BY <1>2, <1>11 DEF ConfirmCheck, Finish, Continue, Goto
  <2>2. JobRemembers(w)'
    BY <1>7, <2>1 DEF JobRemembers, Settles
  <2> QED  BY <1>4, <1>8, <2>1, <2>2
<1>12. CASE StatusRead(w)
  <2>1. /\ row' = row /\ pc[w] = "status.read"
        /\ \/ pc'[w] \in {"idle", "publish.read"}
           \/ pc'[w] = "status.write" /\ row[q].status # seen[w] /\ UNCHANGED <<on, seen>>
    BY <1>1, <1>2, <1>12 DEF StatusRead, AfterStatus, Finish, Continue, Goto
  <2>2. JobRemembers(w)'
    BY <1>1, <1>7, <2>1 DEF JobRemembers, Settles
  <2> QED  BY <1>4, <1>8, <2>1, <2>2
<1>13. CASE StatusWrite(w)
  <2>1. /\ row' = [row EXCEPT ![q] = row'[q]]
        /\ row'[q].rules = row[q].rules /\ row'[q].status = seen[w]
        /\ pc[w] = "status.write"
        /\ \/ pc'[w] = "idle" /\ seen[w] # "CONFIRMED"
           \/ pc'[w] = "publish.read" /\ on'[w] = q
    BY <1>1, <1>2, <1>13 DEF StatusWrite, AfterStatus, SetRow, Finish, Continue, Goto, Row
  <2>2. row'[q].status = "CONFIRMED" => Settling(q)'
    BY <2>1 DEF Settling
  <2>3. RulesFollow(q)'
    BY <1>3, <1>6, <2>1, <2>2, FollowKept
  <2>4. JobRemembers(w)'
    BY <1>7, <2>1 DEF JobRemembers, Settles
  <2> QED  BY <1>9, <2>1, <2>3, <2>4
<1>14. CASE PublishRead(w)
  <2>1. /\ row' = row /\ pc[w] = "publish.read"
        /\ \/ pc'[w] = "idle" /\ row[q].status = "none"
           \/ pc'[w] = "settle.pay" /\ on'[w] = q /\ snap'[w] = row[q]
    BY <1>1, <1>2, <1>14 DEF PublishRead, Finish, Goto
  <2>2. row[q].status # "REFUNDED"
    BY <1>1, <1>3, <2>1 DEF WorkOK
  <2>3. JobRemembers(w)'
    BY <1>7, <2>1, <2>2 DEF JobRemembers, Settles
  <2>4. pc'[w] = "settle.pay" => Settling(q)'
    BY <2>1 DEF Settling
  <2> QED  BY <1>4, <1>8, <2>1, <2>3, <2>4
<1>15. CASE SettleSkip(w) \/ SettleAtOrigin(w) \/ SettleCredit(w)
  <2>1. /\ row' = row /\ pc[w] = "settle.pay" /\ pc'[w] = "settle.write" /\ UNCHANGED <<on, snap>>
    BY <1>2, <1>15 DEF SettleSkip, SettleAtOrigin, SettleCredit, ToPay, PayDone, Goto
  <2>2. JobRemembers(w)'
    BY <1>3, <2>1 DEF JobRemembers, Settles
  <2>3. Settling(q)'
    BY <1>1, <2>1 DEF Settling
  <2> QED  BY <1>4, <1>8, <2>1, <2>2, <2>3
<1>16. CASE SettleWrite(w)
  <2>1. /\ row' = [row EXCEPT ![q] = row'[q]] /\ row'[q].rules = share[w] /\ pc'[w] = "settle.points"
        /\ pc[w] = "settle.write"
    BY <1>1, <1>2, <1>16 DEF SettleWrite, SetRow, Continue, Goto
  <2>2. share[w] \in Shares[q] /\ share[w] \in Nat
    BY <1>0, <1>1, <1>3, <2>1, OfJob, LedgerAssumption DEF WorkOK, PayInv, TypeOK
  <2>3. RulesFollow(q)'
    BY <2>1, <2>2 DEF RulesFollow, Pix
  <2>4. JobRemembers(w)'
    BY <2>1 DEF JobRemembers, Settles
  <2> QED  BY <1>9, <2>1, <2>3, <2>4
<1>17. CASE EarnPoints(w)
  <2>1. row' = row /\ pc[w] = "settle.points" /\ pc'[w] = "idle"
    BY <1>2, <1>17 DEF EarnPoints, Finish, Goto
  <2> QED  BY <1>4, <1>7, <1>8, <2>1
<1>18. CASE RefundRead(w)
  <2>1. /\ row' = row /\ pc[w] = "refund.read"
        /\ \/ pc'[w] = "idle"
           \/ pc'[w] = "refund.write" /\ row[q].status # "CONFIRMED" /\ on'[w] = q
           \/ pc'[w] = "refund.reverse" /\ row[q].status = "CONFIRMED" /\ on'[w] = q /\ snap'[w] = row[q]
    BY <1>1, <1>2, <1>18 DEF RefundRead, Finish, Goto
  <2>2. JobRemembers(w)'
    BY <1>7, <2>1 DEF JobRemembers, Settles
  <2> QED  BY <1>4, <1>8, <2>1, <2>2
<1>19. CASE RefundReverse(w)
  <2>1. row' = row /\ pc[w] = "refund.reverse" /\ pc'[w] = "refund.write" /\ on' = on
    BY <1>2, <1>19 DEF RefundReverse, ReverseDone, Continue, Goto
  <2>2. ASSUME Calm, HasCharge(q) PROVE TakenBack(q)'
    <3>1. StoreOf[q] \in Wallets /\ OrderOf[q] \in Orders /\ debt \in [Orders -> {"none", "open", "waived"}]
          /\ Ref(q) \in References /\ LedgerTypeOK
      BY PaymentAssumption, RefsOf DEF PayInv, TypeOK
    <3>2. CASE AtOrigin(q)
      <4>1. debt' = IF Kind[q] = "repasse" /\ debt[OrderOf[q]] = "open"
                      THEN [debt EXCEPT ![OrderOf[q]] = "waived"] ELSE debt
        BY <1>1, <1>19, <3>2 DEF RefundReverse
      <4>2. Kind[q] = "repasse" => debt'[OrderOf[q]] # "open"
        BY <3>1, <4>1
      <4> QED  BY <3>2, <4>2 DEF TakenBack, AtOrigin
    <3>3. CASE ~AtOrigin(q) /\ snap[w].rules > 0
      <4>1. \/ AdjustWalletBalance(StoreOf[q], "debit", snap[w].rules, Ref(q))
            \/ q \in refused'
            \/ HasLedgerEntry(StoreOf[q], "debit", Ref(q)) /\ UNCHANGED <<balance, ledger>>
        BY <1>1, <1>2, <1>19, <3>3 DEF RefundReverse, Row
      <4>2. snap[w].rules \in Amounts
        BY <1>2, <3>3 DEF Row
      <4>3. q \in refused' \/ HasLedgerEntry(StoreOf[q], "debit", Ref(q))'
        <5>1. ASSUME AdjustWalletBalance(StoreOf[q], "debit", snap[w].rules, Ref(q))
              PROVE  HasLedgerEntry(StoreOf[q], "debit", Ref(q))'
          BY <3>1, <4>2, <5>1, EntryAfter DEF TxnTypes
        <5>2. ASSUME HasLedgerEntry(StoreOf[q], "debit", Ref(q)), ledger' = ledger
              PROVE  HasLedgerEntry(StoreOf[q], "debit", Ref(q))'
          BY <5>2 DEF HasLedgerEntry
        <5> QED  BY <4>1, <5>1, <5>2
      <4> QED  BY <3>3, <4>3 DEF TakenBack, AtOrigin, Reversed, Ref, HasCharge
    <3>4. CASE ~AtOrigin(q) /\ ~(snap[w].rules > 0)
      <4>1. ledger' = ledger
        BY <1>1, <1>19, <3>4 DEF RefundReverse
      <4>2. Pix(q)
        BY <2>2, <3>4, PaymentAssumption DEF Pix, HasCharge, AtOrigin, Kinds
      <4>3. row[q].status = "CONFIRMED" /\ ~(row[q].rules > 0) /\ ~Settling(q)
        BY <1>1, <1>3, <1>4, <2>1, <3>4 DEF JobRemembers
      <4>4. 0 \notin Shares[q] => ~Credited(q)
        BY <1>3, <2>2, <4>2, <4>3 DEF RulesFollow
      <4>5. 0 \notin Shares[q] => ~Credited(q)'
        BY <4>1, <4>4 DEF Credited, HasLedgerEntry, Ref, HasCharge
      <4> QED  BY <3>4, <4>5 DEF TakenBack, AtOrigin
    <3> QED  BY <3>2, <3>3, <3>4
  <2>3. JobRemembers(w)'
    BY <1>1, <1>6, <2>1, <2>2 DEF JobRemembers, Settles, HasCharge
  <2> QED  BY <1>4, <1>8, <2>1, <2>3
<1>20. CASE RefundWrite(w)
  <2>1. /\ row' = [row EXCEPT ![q] = row'[q]] /\ row'[q].status = "REFUNDED" /\ pc'[w] = "idle"
    BY <1>1, <1>2, <1>20 DEF RefundWrite, SetRow, Finish, Goto, Row
  <2>2. RulesFollow(q)'
    BY <2>1 DEF RulesFollow
  <2> QED  BY <1>7, <1>9, <2>1, <2>2
<1> QED BY <1>10, <1>11, <1>12, <1>13, <1>14, <1>15, <1>16, <1>17, <1>18, <1>19, <1>20 DEF JobStep

LEMMA RequestRemembers ==
  ASSUME PayInv, OneByOne, HistoryInv, Serial, [Next]_vars, NEW w \in Handlers, Request(w)
  PROVE  /\ JobRemembers(w)' /\ ScanAlone' /\ RefundsCharged'
         /\ \A p \in Payments : RulesFollow(p)'
<1>0. w \in Workers /\ w # Reconciler /\ Reconciler \in Workers
  BY PaymentAssumption DEF Workers
<1>1. Free(w)
  <2>1. ASSUME NEW p \in Payments, HandlePaymentWebhook(w, p) PROVE Free(w)
    BY <2>1, WebhookStarts DEF Start
  <2> QED BY <2>1 DEF Request, CreateCharge, ApprovePayment, RejectPayment, ProcessSplit,
                     EstablishmentWithdraw, Start
<1>2. pc[w] = "idle" /\ (\A p \in Payments : ~Settling(p)) /\ batch = {}
  BY <1>0, <1>1, StartsAlone
<1>3. /\ row \in [Payments -> Row] /\ gateway \in [Payments -> GatewayStatuses]
      /\ pc \in [Workers -> PCs] /\ on \in [Workers -> Payments \cup {NoPayment}]
      /\ seen \in [Workers -> GatewayStatuses] /\ TypeOK
  BY DEF PayInv, TypeOK
<1>4. (\A p \in Payments : RulesFollow(p)) /\ RefundsCharged
  BY DEF HistoryInv
<1>5. ScanAlone'
  <2>1. pc'[Reconciler] = "idle" /\ batch' = batch
    BY <1>0, <1>3, OthersIdle, OthersRest
  <2> QED  BY <1>2, <2>1 DEF ScanAlone
<1>6. pc'[w] = "idle" => JobRemembers(w)'
  BY <1>0, IdleRemembers
<1>7. Calm' => Calm
  BY <1>3, CalmBefore
<1>8. ASSUME NEW p \in Payments, row'[p] = row[p] PROVE RulesFollow(p)'
  BY <1>2, <1>3, <1>4, <1>7, <1>8, FollowKept
<1>9. ASSUME NEW p \in Payments, NEW answer \in {"PENDING", "CONFIRMED", "REFUSED"},
             CreateCharge(w, p, answer)
      PROVE  JobRemembers(w)' /\ RefundsCharged' /\ \A q \in Payments : RulesFollow(q)'
  <2>1. /\ row[p].status = "none" /\ row' = row
        /\ gateway' = [gateway EXCEPT ![p] = answer]
        /\ seen'[w] = answer /\ pc'[w] = "insert" /\ on'[w] = p
        /\ HasCharge(p) => answer = "PENDING"
    BY <1>0, <1>3, <1>9 DEF CreateCharge, Start, Goto
  <2>2. JobRemembers(w)'
    BY <2>1 DEF JobRemembers, Settles, HasCharge
  <2>3. RefundsCharged'
    BY <1>3, <1>4, <2>1 DEF RefundsCharged, HasCharge
  <2> QED  BY <1>8, <2>1, <2>2, <2>3
<1>10. ASSUME NEW p \in Payments, HandlePaymentWebhook(w, p)
       PROVE  JobRemembers(w)' /\ RefundsCharged' /\ \A q \in Payments : RulesFollow(q)'
  <2>1. PICK step \in {"refund.read", "confirm.check", "status.read"} : Start(w, p, step)
    BY <1>10, WebhookStarts
  <2>2. UNCHANGED <<gateway, row>>
    BY <1>10, WebhookStarts
  <2>3. pc'[w] = step
    BY <1>0, <1>3, <2>1 DEF Start, Goto
  <2>4. JobRemembers(w)'
    BY <2>3 DEF JobRemembers, Settles
  <2> QED  BY <1>4, <1>8, <2>2, <2>4 DEF RefundsCharged, HasCharge
<1>11. ASSUME NEW p \in Payments, ApprovePayment(w, p)
       PROVE  JobRemembers(w)' /\ RefundsCharged' /\ \A q \in Payments : RulesFollow(q)'
  <2>1. row' = [row EXCEPT ![p] = row'[p]] /\ row'[p].rules = row[p].rules /\ gateway' = gateway
    BY <1>3, <1>11 DEF ApprovePayment, SetRow, Row
  <2>2. \/ HasCharge(p) /\ pc'[w] = "publish.read" /\ on'[w] = p
        \/ ~HasCharge(p) /\ pc'[w] = "idle"
    BY <1>0, <1>2, <1>3, <1>11 DEF ApprovePayment, Start, Goto
  <2>3. JobRemembers(w)'
    BY <1>6, <2>2 DEF JobRemembers, Settles
  <2>4. ASSUME NEW q \in Payments PROVE RulesFollow(q)'
    <3>1. CASE q = p /\ HasCharge(p)
      <4>1. Settling(q)'
        BY <1>0, <2>2, <3>1 DEF Settling
      <4> QED  BY <4>1 DEF RulesFollow
    <3>2. CASE q = p /\ ~HasCharge(p)
      BY <3>2 DEF RulesFollow, Pix, HasCharge
    <3>3. CASE q # p
      <4>1. row'[q] = row[q]
        BY <1>3, <2>1, <3>3
      <4> QED  BY <1>8, <4>1
    <3> QED  BY <3>1, <3>2, <3>3
  <2> QED  BY <1>4, <2>1, <2>3, <2>4 DEF RefundsCharged, HasCharge
<1>12. ASSUME NEW p \in Payments,
              RejectPayment(w, p) \/ \E amount \in SplitAmounts : ProcessSplit(w, p, amount)
       PROVE  JobRemembers(w)' /\ RefundsCharged' /\ \A q \in Payments : RulesFollow(q)'
  <2>1. /\ row' = [row EXCEPT ![p] = row'[p]] /\ row'[p].status # "CONFIRMED"
        /\ gateway' = gateway /\ pc' = pc
    BY <1>3, <1>12 DEF RejectPayment, ProcessSplit, SetRow, Row, workerVars
  <2>2. ASSUME NEW q \in Payments PROVE RulesFollow(q)'
    <3>1. CASE q = p
      BY <2>1, <3>1 DEF RulesFollow
    <3>2. CASE q # p
      <4>1. row'[q] = row[q]
        BY <1>3, <2>1, <3>2
      <4> QED  BY <1>8, <4>1
    <3> QED  BY <3>1, <3>2
  <2> QED  BY <1>2, <1>4, <1>6, <2>1, <2>2 DEF RefundsCharged, HasCharge
<1>13. ASSUME NEW s \in Wallets, NEW amount \in Amounts, NEW r \in WithdrawRefs,
              EstablishmentWithdraw(w, s, amount, r)
       PROVE  JobRemembers(w)' /\ RefundsCharged' /\ \A q \in Payments : RulesFollow(q)'
  <2>1. UNCHANGED <<gateway, row, pc>>
    BY <1>13 DEF EstablishmentWithdraw, workerVars
  <2> QED  BY <1>2, <1>4, <1>6, <1>8, <2>1 DEF RefundsCharged, HasCharge
<1> QED BY <1>5, <1>9, <1>10, <1>11, <1>12, <1>13 DEF Request

\* The reconciliation, faults, time and the gateway.
LEMMA OtherRemembers ==
  ASSUME PayInv, OneByOne, HistoryInv, Serial, [Next]_vars,
         \/ Reconcile \/ Crash \/ UNCHANGED vars
         \/ \E w \in Workers : DbError(w)
         \/ \E p \in Payments : Ageing(p) \/ \E status \in GatewayStatuses : GatewayMoves(p, status)
  PROVE  /\ \A v \in Workers : JobRemembers(v)'
         /\ \A p \in Payments : RulesFollow(p)'
         /\ ScanAlone' /\ RefundsCharged'
<1>1. /\ row \in [Payments -> Row] /\ gateway \in [Payments -> GatewayStatuses]
      /\ pc \in [Workers -> PCs] /\ on \in [Workers -> Payments \cup {NoPayment}]
      /\ seen \in [Workers -> GatewayStatuses] /\ snap \in [Workers -> Row]
      /\ \A w \in Workers : pc[w] # "idle" => on[w] \in Payments
      /\ batch \subseteq Payments \X Row /\ TypeOK /\ Reconciler \in Workers
  BY DEF PayInv, TypeOK, Workers
<1>2. /\ \A p \in Payments : RulesFollow(p)
      /\ \A v \in Workers : JobRemembers(v)
      /\ ScanAlone /\ RefundsCharged
  BY DEF HistoryInv
<1>3. Calm' => Calm
  BY <1>1, CalmBefore
<1>4. \A v \in Workers : pc'[v] = "idle" => JobRemembers(v)'
  BY IdleRemembers
<1>5. ASSUME NEW p \in Payments, row'[p] = row[p], ~Settling(p) PROVE RulesFollow(p)'
  BY <1>1, <1>2, <1>3, <1>5, FollowKept
<1>6. CASE ReconcileScan
  <2>1. (\A v \in Workers : pc[v] = "idle") /\ UNCHANGED <<pc, row, gateway>>
    BY <1>1, <1>6, StartsAlone DEF ReconcileScan
  <2>2. \A p \in Payments : RulesFollow(p)'
    BY <1>5, <2>1 DEF Settling
  <2>3. \A item \in batch' : row[item[1]].status = "CONFIRMED" /\ item[2].confirmedAt = "due"
    BY <1>6 DEF ReconcileScan, Due
  <2> QED  BY <1>1, <1>2, <1>4, <2>1, <2>2, <2>3 DEF ScanAlone, RefundsCharged, HasCharge
<1>7. CASE ReconcileNext
  <2>1. PICK item \in batch :
          /\ Start(Reconciler, item[1], "settle.pay")
          /\ snap' = [snap EXCEPT ![Reconciler] = item[2]] /\ batch' = batch \ {item}
          /\ UNCHANGED <<gateway, row>>
    BY <1>7 DEF ReconcileNext
  <2>2. \A v \in Workers : pc[v] = "idle"
    BY <1>1, <2>1, StartsAlone DEF Start
  <2>3. /\ pc' = [pc EXCEPT ![Reconciler] = "settle.pay"] /\ snap'[Reconciler] = item[2]
        /\ on'[Reconciler] = item[1]
    BY <1>1, <2>1 DEF Start, Goto
  <2>4. row[item[1]].status = "CONFIRMED" /\ item[2].confirmedAt = "due"
    BY <1>2 DEF ScanAlone
  <2>5. JobRemembers(Reconciler)'
    BY <1>1, <2>1, <2>3, <2>4 DEF JobRemembers, Settles
  <2>6. ASSUME NEW v \in Workers, v # Reconciler PROVE JobRemembers(v)'
    BY <1>1, <1>4, <2>2, <2>3, <2>6
  <2>7. \A p \in Payments : RulesFollow(p)'
    BY <1>5, <2>1, <2>2 DEF Settling
  <2>8. ScanAlone'
    BY <1>1, <1>2, <2>1, <2>3 DEF ScanAlone
  <2> QED  BY <1>2, <2>1, <2>5, <2>6, <2>7, <2>8 DEF RefundsCharged, HasCharge
<1>8. ASSUME NEW w \in Workers, DbError(w)
      PROVE  /\ \A v \in Workers : JobRemembers(v)'
             /\ \A p \in Payments : RulesFollow(p)'
             /\ ScanAlone' /\ RefundsCharged'
  <2>1. /\ row' = row /\ gateway' = gateway /\ batch' = batch /\ dbErrors' = dbErrors + 1 /\ crashes' = crashes
        /\ pc[w] # "idle"
    BY <1>8 DEF DbError, At
  <2>2. ~Calm'
    BY <2>1, PaymentAssumption DEF Calm, PayInv, TypeOK
  <2>3. pc'[w] \in {"idle", "status.read", "publish.read", "refund.write"}
    BY <1>1, <1>8 DEF DbError, AfterStatus, Finish, Continue, Goto, At
  <2>4. JobRemembers(w)'
    BY <1>4, <2>2, <2>3 DEF JobRemembers, Settles
  <2>5. ASSUME NEW v \in Workers, v # w PROVE pc'[v] = "idle"
    BY <1>8, <2>5, OthersIdle
  <2>6. pc'[Reconciler] \in {"idle", "settle.pay", "settle.write", "settle.points"}
    <3>1. CASE w = Reconciler
      <4>1. pc[w] \in {"settle.pay", "settle.write", "settle.points"}
        BY <1>2, <2>1, <3>1 DEF ScanAlone
      <4> QED  BY <1>1, <1>8, <3>1, <4>1 DEF DbError, Finish, Goto, At
    <3> QED  BY <1>1, <2>5, <3>1
  <2>7. ScanAlone'
    BY <1>2, <2>1, <2>6 DEF ScanAlone
  <2> QED  BY <1>2, <1>4, <2>1, <2>2, <2>4, <2>5, <2>7 DEF RulesFollow, RefundsCharged, HasCharge
<1>9. CASE Crash
  <2>1. /\ row' = row /\ gateway' = gateway /\ dbErrors' = dbErrors /\ crashes' = crashes + 1
        /\ batch' = {} /\ \A v \in Workers : pc'[v] = "idle"
    BY <1>9 DEF Crash
  <2>2. ~Calm'
    BY <2>1, PaymentAssumption DEF Calm, PayInv, TypeOK
  <2> QED  BY <1>1, <1>2, <1>4, <2>1, <2>2 DEF RulesFollow, RefundsCharged, HasCharge, ScanAlone
<1>10. ASSUME UNCHANGED <<pc, on, seen, snap, share, batch>>, UNCHANGED money,
              \A p \in Payments : /\ row'[p].status = row[p].status /\ row'[p].rules = row[p].rules
                                  /\ row[p].confirmedAt = "none" => row'[p].confirmedAt = "none"
       PROVE  /\ \A v \in Workers : JobRemembers(v)'
              /\ \A p \in Payments : RulesFollow(p)'
              /\ ScanAlone'
  <2>1. \A v \in Workers : JobRemembers(v)'
    BY <1>1, <1>2, <1>3, <1>10, JobKept
  <2>2. ASSUME NEW p \in Payments PROVE RulesFollow(p)'
    <3>1. Settling(p)' <=> Settling(p)
      BY <1>10 DEF Settling
    <3> QED  BY <1>1, <1>2, <1>3, <1>10, <3>1, FollowKept
  <2>3. \A item \in batch : item[1] \in Payments
    BY <1>1
  <2>4. ScanAlone'
    BY <1>2, <1>10, <2>3 DEF ScanAlone
  <2> QED  BY <2>1, <2>2, <2>4
<1>11. ASSUME NEW p \in Payments, Ageing(p)
       PROVE  /\ \A v \in Workers : JobRemembers(v)'
              /\ \A q \in Payments : RulesFollow(q)'
              /\ ScanAlone' /\ RefundsCharged'
  <2>1. /\ row' = [row EXCEPT ![p] = row'[p]] /\ row[p].confirmedAt # "none"
        /\ row'[p].status = row[p].status /\ row'[p].rules = row[p].rules
    BY <1>1, <1>11 DEF Ageing, SetRow, Row
  <2>2. \A q \in Payments : /\ row'[q].status = row[q].status /\ row'[q].rules = row[q].rules
                            /\ row[q].confirmedAt = "none" => row'[q].confirmedAt = "none"
    BY <1>1, <2>1
  <2>3. UNCHANGED <<pc, on, seen, snap, share, batch, gateway>> /\ UNCHANGED money
    BY <1>11 DEF Ageing, workerVars
  <2> QED  BY <1>2, <1>10, <2>2, <2>3 DEF RefundsCharged, HasCharge
<1>12. ASSUME NEW p \in Payments, NEW status \in GatewayStatuses, GatewayMoves(p, status)
       PROVE  /\ \A v \in Workers : JobRemembers(v)'
              /\ \A q \in Payments : RulesFollow(q)'
              /\ ScanAlone' /\ RefundsCharged'
  <2>1. UNCHANGED <<pc, on, seen, snap, share, batch, row>> /\ UNCHANGED money
    BY <1>12 DEF GatewayMoves, workerVars
  <2>2. RefundsCharged'
    BY <1>1, <1>2, <1>12 DEF GatewayMoves, RefundsCharged, HasCharge
  <2> QED  BY <1>10, <2>1, <2>2
<1>13. CASE UNCHANGED vars
  <2>1. UNCHANGED <<pc, on, seen, snap, share, batch, row, gateway>> /\ UNCHANGED money
    BY <1>13 DEF vars, workerVars, money
  <2> QED  BY <1>2, <1>10, <2>1 DEF RefundsCharged, HasCharge
<1> QED BY <1>6, <1>7, <1>8, <1>9, <1>11, <1>12, <1>13 DEF Reconcile

\* The reconciliation's own steps keep what its batch found.
LEMMA ScanAloneKept ==
  ASSUME PayInv, OneByOne, HistoryInv, [Next]_vars, NEW w \in Workers, JobStep(w)
  PROVE  ScanAlone'
<1> USE DEF At
<1>0. pc[w] # "idle"
  BY DEF JobStep, InsertPayment, ConfirmCheck, StatusRead, StatusWrite, PublishRead, SettleSkip,
         SettleAtOrigin, ToPay, SettleCredit, SettleWrite, EarnPoints, RefundRead, RefundReverse,
         RefundWrite
<1>1. /\ row \in [Payments -> Row] /\ pc \in [Workers -> PCs] /\ batch \subseteq Payments \X Row
      /\ Reconciler \in Workers /\ on[w] \in Payments /\ TypeOK /\ ScanAlone
  BY <1>0 DEF PayInv, TypeOK, Workers, HistoryInv
<1>2. CASE w # Reconciler
  <2>1. w \in Handlers
    BY <1>2 DEF Workers
  <2>2. batch = {}
    BY <1>0, <2>1 DEF OneByOne, Alone
  <2>3. pc'[Reconciler] = pc[Reconciler] /\ batch' = batch
    BY <1>1, <1>2, OthersRest
  <2> QED  BY <1>1, <2>2, <2>3 DEF ScanAlone
<1>3. CASE w = Reconciler
  <2>1. pc[w] \in {"settle.pay", "settle.write", "settle.points"}
    BY <1>0, <1>1, <1>3 DEF ScanAlone
  <2>2. SettleSkip(w) \/ SettleAtOrigin(w) \/ SettleCredit(w) \/ SettleWrite(w) \/ EarnPoints(w)
    BY <2>1 DEF JobStep, InsertPayment, ConfirmCheck, StatusRead, StatusWrite, PublishRead,
                RefundRead, RefundReverse, RefundWrite
  <2>3. /\ pc'[w] \in {"idle", "settle.write", "settle.points"} /\ batch' = batch
        /\ row' = row \/ (row' = [row EXCEPT ![on[w]] = row'[on[w]]] /\ row'[on[w]].status = "CONFIRMED")
    BY <1>1, <2>2 DEF SettleSkip, SettleAtOrigin, SettleCredit, SettleWrite, EarnPoints, PayDone, Finish,
                      Continue, Goto, SetRow, Row
  <2>4. \A item \in batch : item[1] \in Payments
    BY <1>1
  <2> QED  BY <1>1, <1>3, <2>3, <2>4 DEF ScanAlone
<1> QED  BY <1>2, <1>3

LEMMA HistoryKeeps ==
  ASSUME PayInv, OneByOne, HistoryInv, Serial, [Next]_vars
  PROVE  HistoryInv'
<1>0. Handlers \subseteq Workers
  BY DEF Workers
<1>1. ASSUME NEW w \in Workers, JobStep(w) \/ (w \in Handlers /\ Request(w)),
             NEW v \in Workers, v # w
      PROVE  JobRemembers(v)'
  BY <1>1, OthersIdle, IdleRemembers
<1>2. CASE \E w \in Workers : JobStep(w)
  <2>1. PICK w \in Workers : JobStep(w)
    BY <1>2
  <2>2. gateway' = gateway
    BY <2>1 DEF JobStep, InsertPayment, ConfirmCheck, StatusRead, StatusWrite, PublishRead, SettleSkip,
         SettleAtOrigin, ToPay, SettleCredit, SettleWrite, EarnPoints, RefundRead, RefundReverse,
         RefundWrite, PayDone, ReverseDone
  <2>3. RefundsCharged'
    BY <2>2 DEF HistoryInv, RefundsCharged, HasCharge
  <2> QED  BY <1>0, <1>1, <2>1, <2>3, JobStepRemembers, ScanAloneKept DEF HistoryInv
<1>3. CASE \E w \in Handlers : Request(w)
  <2>1. PICK w \in Handlers : Request(w)
    BY <1>3
  <2> QED  BY <1>0, <1>1, <2>1, RequestRemembers DEF HistoryInv
<1>4. CASE ~(\E w \in Workers : JobStep(w)) /\ ~(\E w \in Handlers : Request(w))
  <2>1. \/ Reconcile \/ Crash \/ UNCHANGED vars
        \/ \E w \in Workers : DbError(w)
        \/ \E p \in Payments : Ageing(p) \/ \E status \in GatewayStatuses : GatewayMoves(p, status)
    BY <1>4 DEF Next
  <2> QED  BY <1>0, <2>1, OtherRemembers DEF HistoryInv
<1> QED  BY <1>2, <1>3, <1>4

LEMMA HistoryStarts == Init => HistoryInv
<1> SUFFICES ASSUME Init PROVE HistoryInv
  OBVIOUS
<1>1. \A w \in Workers : pc[w] = "idle"
  BY DEF Init
<1>2. \A p \in Payments : ~Credited(p)
  BY PaymentAssumption DEF Init, LedgerInit, Credited, HasLedgerEntry
<1>3. Reconciler \in Workers /\ batch = {} /\ RefundsCharged
  BY DEF Init, Workers, RefundsCharged
<1> QED  BY <1>1, <1>2, <1>3, IdleRemembers DEF HistoryInv, RulesFollow, ScanAlone

LEMMA FinalStep ==
  ASSUME PayInv, OneByOne, HistoryInv, [Next]_vars, NEW p \in Payments, row[p].status = "REFUNDED"
  PROVE  row'[p].status \in {"REFUNDED", "SPLIT"} /\ (Credited(p)' => Credited(p))
<1>1. row \in [Payments -> Row] /\ pc \in [Workers -> PCs] /\ TypeOK
  BY DEF PayInv, TypeOK
<1>2. \A w \in Workers : JobRemembers(w) /\ WorkOK(w)
  BY DEF OneByOne, HistoryInv
<1>3. row'[p].status \in {"REFUNDED", "SPLIT"}
  <2>1. ASSUME NEW w \in Workers, on[w] = p, InsertPayment(w) \/ StatusWrite(w) \/ SettleWrite(w) \/ RefundWrite(w)
        PROVE  row'[p].status = "REFUNDED"
    <3>1. pc[w] \notin {"insert", "status.write", "settle.write"}
      BY <1>2, <2>1 DEF JobRemembers, WorkOK, Confirming, Settles
    <3>2. RefundWrite(w)
      BY <2>1, <3>1 DEF InsertPayment, StatusWrite, SettleWrite, At
    <3> QED  BY <1>1, <2>1, <3>2 DEF RefundWrite, SetRow, Row
  <2>2. ASSUME NEW w \in Handlers, NEW amount \in SplitAmounts, ProcessSplit(w, p, amount)
        PROVE  row'[p].status = "SPLIT"
    BY <1>1, <2>2 DEF ProcessSplit, SetRow, Row
  <2>3. ASSUME NEW w \in Handlers, ApprovePayment(w, p) \/ RejectPayment(w, p) PROVE FALSE
    BY <2>3 DEF ApprovePayment, RejectPayment
  <2>4. ASSUME Ageing(p) PROVE row'[p].status = "REFUNDED"
    BY <1>1, <2>4 DEF Ageing, SetRow, Row
  <2> QED  BY <1>1, <2>1, <2>2, <2>3, <2>4, RowMoves
<1>4. HasCharge(p)
  BY DEF OneByOne, HistoryInv, RefundsCharged
<1>5. ASSUME Credited(p)', ~Credited(p) PROVE FALSE
  <2>1. PICK w \in Workers : pc[w] = "settle.pay" /\ on[w] = p
    BY <1>1, <1>4, <1>5, NewCredit
  <2> QED  BY <1>2, <2>1 DEF JobRemembers, Settles
<1> QED  BY <1>3, <1>5

LEMMA ConfirmedAtStep ==
  ASSUME PayInv, OneByOne, HistoryInv, [Next]_vars, NEW p \in Payments,
         row[p].status = "CONFIRMED", row'[p].status = "CONFIRMED",
         row[p].confirmedAt # "none", row'[p].confirmedAt = "fresh"
  PROVE  row[p].confirmedAt = "fresh"
<1>1. row \in [Payments -> Row] /\ row[p] \in Row /\ TypeOK
  BY DEF PayInv, TypeOK
<1>2. \A w \in Workers : JobRemembers(w)
  BY DEF HistoryInv
<1>3. ASSUME NEW w \in Workers, on[w] = p, InsertPayment(w) \/ StatusWrite(w) \/ SettleWrite(w) \/ RefundWrite(w)
      PROVE  row[p].confirmedAt = "fresh"
  <2>1. CASE InsertPayment(w)
    BY <1>2, <1>3, <2>1 DEF InsertPayment, JobRemembers, At
  <2>2. CASE StatusWrite(w)
    <3>1. row'[p].status = seen[w] /\ pc[w] = "status.write"
      BY <1>1, <1>3, <2>2 DEF StatusWrite, SetRow, Row, At
    <3> QED  BY <1>2, <1>3, <3>1 DEF JobRemembers
  <2>3. CASE SettleWrite(w)
    <3>1. snap[w].confirmedAt # "none"
      BY <1>2, <1>3, <2>3 DEF JobRemembers, Settles, SettleWrite, At
    <3>2. row'[p].confirmedAt = row[p].confirmedAt
      BY <1>1, <1>3, <2>3, <3>1 DEF SettleWrite, SetRow
    <3> QED  BY <3>2
  <2>4. CASE RefundWrite(w)
    BY <1>1, <1>3, <2>4 DEF RefundWrite, SetRow, Row
  <2> QED  BY <1>3, <2>1, <2>2, <2>3, <2>4
<1>4. ASSUME NEW w \in Handlers, ApprovePayment(w, p) \/ RejectPayment(w, p) PROVE FALSE
  BY <1>4 DEF ApprovePayment, RejectPayment
<1>5. ASSUME NEW w \in Handlers, NEW amount \in SplitAmounts, ProcessSplit(w, p, amount) PROVE FALSE
  BY <1>1, <1>5 DEF ProcessSplit, SetRow, Row
<1>6. ASSUME Ageing(p) PROVE FALSE
  BY <1>1, <1>6 DEF Ageing, SetRow, Row
<1>7. CASE row'[p] = row[p]
  BY <1>7
<1>8. CASE row'[p] # row[p]
  BY <1>1, <1>3, <1>4, <1>5, <1>6, <1>8, RowMoves
<1> QED  BY <1>7, <1>8

LEMMA ReversedStep ==
  ASSUME PayInv, OneByOne, HistoryInv, [Next]_vars, NEW p \in Payments,
         row[p].status = "CONFIRMED", row'[p].status = "REFUNDED", HasCharge(p), Calm
  PROVE  TakenBack(p)
<1>1. row \in [Payments -> Row] /\ row[p] \in Row /\ TypeOK
  BY DEF PayInv, TypeOK
<1>2. \A w \in Workers : JobRemembers(w) /\ WorkOK(w)
  BY DEF OneByOne, HistoryInv
<1>3. ASSUME NEW w \in Workers, on[w] = p, InsertPayment(w) \/ StatusWrite(w) \/ SettleWrite(w) \/ RefundWrite(w)
      PROVE  TakenBack(p)
  <2>1. CASE InsertPayment(w)
    BY <1>2, <1>3, <2>1 DEF InsertPayment, JobRemembers, At
  <2>2. CASE StatusWrite(w)
    <3>1. row'[p].status = seen[w] /\ pc[w] = "status.write"
      BY <1>1, <1>3, <2>2 DEF StatusWrite, SetRow, Row, At
    <3> QED  BY <1>2, <1>3, <3>1 DEF WorkOK, Confirming
  <2>3. CASE SettleWrite(w)
    BY <1>1, <1>3, <2>3 DEF SettleWrite, SetRow
  <2>4. CASE RefundWrite(w)
    BY <1>2, <1>3, <2>4 DEF RefundWrite, JobRemembers, At
  <2> QED  BY <1>3, <2>1, <2>2, <2>3, <2>4
<1>4. ASSUME NEW w \in Handlers, ApprovePayment(w, p) \/ RejectPayment(w, p) PROVE FALSE
  BY <1>4 DEF ApprovePayment, RejectPayment
<1>5. ASSUME NEW w \in Handlers, NEW amount \in SplitAmounts, ProcessSplit(w, p, amount) PROVE FALSE
  BY <1>1, <1>5 DEF ProcessSplit, SetRow, Row
<1>6. ASSUME Ageing(p) PROVE FALSE
  BY <1>1, <1>6 DEF Ageing, SetRow, Row
<1>7. row'[p] # row[p]
  OBVIOUS
<1>8. \/ \E w \in Workers : on[w] = p /\ (InsertPayment(w) \/ StatusWrite(w) \/ SettleWrite(w) \/ RefundWrite(w))
      \/ \E w \in Handlers : \/ ApprovePayment(w, p) \/ RejectPayment(w, p)
                             \/ \E amount \in SplitAmounts : ProcessSplit(w, p, amount)
      \/ Ageing(p)
  BY <1>1, <1>7, RowMoves
<1> QED  BY <1>3, <1>4, <1>5, <1>6, <1>8

\* With handlers one at a time, a refunded payment is never confirmed or credited
\* again, and a replayed confirmation does not renew the date of the first one.
LEMMA PastStays == Serial => (Spec => RefundIsFinal /\ ConfirmedAtKept)
<1> SUFFICES ASSUME Serial PROVE Spec => RefundIsFinal /\ ConfirmedAtKept
  OBVIOUS
<1> DEFINE IInv == PayInv /\ OneByOne /\ HistoryInv
           Final == \A p \in Payments : row[p].status = "REFUNDED" =>
                      /\ row'[p].status \in {"REFUNDED", "SPLIT"}
                      /\ Credited(p)' => Credited(p)
           Dated == \A p \in Payments :
                      /\ row[p].status = "CONFIRMED" /\ row'[p].status = "CONFIRMED"
                      /\ row[p].confirmedAt # "none" /\ row'[p].confirmedAt = "fresh"
                      => row[p].confirmedAt = "fresh"
<1>1. Init => IInv
  BY PayStarts, SerialStarts, HistoryStarts
<1>2. IInv /\ [Next]_vars => IInv'
  BY PayKeeps, SerialKeeps, HistoryKeeps
<1>3. IInv /\ [Next]_vars => Final /\ Dated
  BY FinalStep, ConfirmedAtStep
<1>4. [][Final]_vars /\ [][Dated]_vars => RefundIsFinal /\ ConfirmedAtKept
  BY DEF RefundIsFinal, ConfirmedAtKept
<1> HIDE DEF IInv, Final, Dated
<1> QED BY <1>1, <1>2, <1>3, <1>4, PTL DEF Spec

\* And a refund of what was confirmed leaves nothing with the store: its credit is
\* taken back, its debt waived, or the refusal logged (webhook.go:108-116, 193-196).
THEOREM RefundsAreReversed == Serial => (Spec => RefundIsReversed)
<1> SUFFICES ASSUME Serial PROVE Spec => RefundIsReversed
  OBVIOUS
<1> DEFINE IInv == PayInv /\ OneByOne /\ HistoryInv
           Back == \A p \in Payments :
                     /\ row[p].status = "CONFIRMED" /\ row'[p].status = "REFUNDED"
                     /\ HasCharge(p) /\ crashes + dbErrors = 0
                     => \/ p \in refused
                        \/ ~AtOrigin(p) /\ (Credited(p) /\ 0 \notin Shares[p] => Reversed(p))
                        \/ AtOrigin(p) /\ (Kind[p] = "repasse" => debt[OrderOf[p]] # "open")
<1>1. Init => IInv
  BY PayStarts, SerialStarts, HistoryStarts
<1>2. IInv /\ [Next]_vars => IInv'
  BY PayKeeps, SerialKeeps, HistoryKeeps
<1>3. IInv /\ [Next]_vars => Back
  BY ReversedStep DEF TakenBack, Calm
<1>4. [][Back]_vars => RefundIsReversed
  BY DEF RefundIsReversed
<1> HIDE DEF IInv, Back
<1> QED BY <1>1, <1>2, <1>3, <1>4, PTL DEF Spec

\* The two together (webhook.go:64-66, 386-397, 584-585).
THEOREM HistoryStays == Serial => (Spec => HistoryKept)
BY PastStays, RefundsAreReversed DEF HistoryKept

-----------------------------------------------------------------------------
(* The gateway router *)

\* What a caller's job says about its place in the chain: a request that is
\* being looked at or called stands at a gateway of the chain, and a gateway is
\* only called for a request that wants it.
PlaceOK ==
  \A c \in Callers :
    /\ job[c].pc # "idle" => job[c].at \in 1..Len(Chain)
    /\ job[c].pc = "call" => Wanted(job[c].request, Here(c))

RouterInv == RouterTypeOK /\ PlaceOK /\ PreferredOnly /\ TestRuns

\* A breaker stays a breaker whatever is recorded on it.
LEMMA BreakerTypes ==
  ASSUME NEW b \in Breaker
  PROVE  /\ LetThrough(b) \in Breaker
         /\ RecordSuccess(b) \in Breaker
         /\ RecordFailure(b) \in Breaker
<1>1. LetThrough(b) \in Breaker
  BY DEF LetThrough, Breaker
<1>2. RecordSuccess(b) \in Breaker
  <2>1. 0 \in 0..Threshold
    BY RouterAssumption
  <2>2. [b EXCEPT !.fails = 0] \in Breaker
    BY <2>1 DEF Breaker
  <2> QED BY <2>1, <2>2 DEF RecordSuccess, Breaker
<1>3. RecordFailure(b) \in Breaker
  <2> DEFINE fails == IF b.fails < Threshold THEN b.fails + 1 ELSE Threshold
             opens == b.state = "half_open" \/ (b.state = "closed" /\ fails >= Threshold)
             counted == [b EXCEPT !.fails = fails]
             cooling == [counted EXCEPT !.cooled = FALSE]
             moved == [cooling EXCEPT !.state = IF opens THEN "open" ELSE b.state]
  <2>1. fails \in 0..Threshold
    BY RouterAssumption DEF Breaker
  <2>2. counted \in Breaker /\ counted.state = b.state /\ counted.tested = b.tested
    BY <2>1 DEF Breaker
  <2>3. cooling \in Breaker /\ cooling.state = b.state /\ cooling.tested = b.tested
    BY <2>2 DEF Breaker
  <2>4. moved \in Breaker /\ moved.tested = b.tested
    BY <2>3 DEF Breaker
  <2>5. RecordFailure(b) =
          [moved EXCEPT !.tested = IF b.state = "half_open" THEN FALSE ELSE b.tested]
    BY DEF RecordFailure
  <2> HIDE DEF moved
  <2> QED BY <2>4, <2>5 DEF Breaker
<1> QED BY <1>1, <1>2, <1>3

\* Moving on from a place of the chain leads to its next place or to the end.
LEMMA AdvancedIsJob ==
  ASSUME NEW j \in Job
  PROVE  /\ Advanced(j) \in Job
         /\ Advanced(j).request = j.request
         /\ Advanced(j).pc # "call"
         /\ Advanced(j).pc # "idle" => Advanced(j).at \in 1..Len(Chain)
         /\ Done(j) \in Job /\ Done(j).request = j.request /\ Done(j).pc = "idle"
<1>1. Len(Chain) \in Nat
  BY RouterAssumption
<1>2. Done(j) \in Job /\ Done(j).request = j.request /\ Done(j).pc = "idle"
  <2>1. [j EXCEPT !.pc = "idle"] \in Job /\ 0 \in 0..Len(Chain)
    BY <1>1 DEF Job
  <2> QED BY <2>1 DEF Done, Job
<1>3. CASE j.at = Len(Chain)
  BY <1>2, <1>3 DEF Advanced
<1>4. CASE j.at # Len(Chain)
  <2>1. Advanced(j) = [j EXCEPT !.pc = "choose", !.at = j.at + 1, !.test = FALSE]
    BY <1>4 DEF Advanced, Following
  <2>2. j.at + 1 \in 1..Len(Chain)
    BY <1>1, <1>4 DEF Job
  <2>3. j.at + 1 \in 0..Len(Chain) /\ [j EXCEPT !.pc = "choose"] \in Job
    BY <1>1, <2>2 DEF Job
  <2>4. [[j EXCEPT !.pc = "choose"] EXCEPT !.at = j.at + 1] \in Job
    BY <2>3 DEF Job
  <2> QED BY <1>2, <2>1, <2>2, <2>4 DEF Job
<1> QED BY <1>3, <1>4

\* The gateway a caller stands at is one of the gateways.
LEMMA HereIsGateway ==
  ASSUME RouterInv, NEW c \in Callers, job[c].pc # "idle"
  PROVE  Here(c) \in Gateways
BY RouterAssumption DEF RouterInv, PlaceOK, Here

LEMMA RouterStarts == RouterInit => RouterInv
<1> SUFFICES ASSUME RouterInit PROVE RouterInv
  OBVIOUS
<1>1. breaker \in [Gateways -> Breaker]
  BY RouterAssumption DEF RouterInit, NewBreaker, Breaker
<1>2. Len(Chain) \in Nat
  BY RouterAssumption
<1>3. job \in [Callers -> Job] /\ \A c \in Callers : job[c].pc = "idle"
  <2> DEFINE Fresh == {[pc |-> "idle", request |-> r, at |-> 0, test |-> FALSE] : r \in ChargeRequests}
  <2>1. \A j \in Fresh : j \in Job /\ j.pc = "idle"
    <3> SUFFICES ASSUME NEW r \in ChargeRequests
                 PROVE  LET j == [pc |-> "idle", request |-> r, at |-> 0, test |-> FALSE]
                        IN j \in Job /\ j.pc = "idle"
      OBVIOUS
    <3>1. 0 \in 0..Len(Chain)
      BY <1>2
    <3> QED BY <3>1 DEF Job
  <2>2. job \in [Callers -> Fresh]
    BY DEF RouterInit
  <2> HIDE DEF Fresh
  <2> QED BY <2>1, <2>2
<1>4. charged \in [Callers -> SUBSET Gateways] /\ \A c \in Callers : charged[c] = {}
  BY DEF RouterInit
<1>5. wasted = {} /\ \A g \in Gateways : breaker[g].state = "closed"
  BY DEF RouterInit, NewBreaker
<1>6. TestRuns
  BY <1>5 DEF TestRuns, UnderTest
<1> QED BY <1>1, <1>2, <1>3, <1>4, <1>5, <1>6 DEF RouterInv, RouterTypeOK, PlaceOK, PreferredOnly

\* A new request starts at the first gateway with nothing charged.
LEMMA CreateInv ==
  ASSUME RouterInv, NEW c \in Callers, NEW r \in ChargeRequests, CreateTransaction(c, r)
  PROVE  RouterInv'
<1> DEFINE j == [job[c] EXCEPT !.request = r]
<1>1. j \in Job /\ j.request = r
  BY DEF RouterInv, RouterTypeOK, Job
<1>2. job' = [job EXCEPT ![c] = Advanced(j)] /\ charged' = [charged EXCEPT ![c] = {}]
      /\ breaker' = breaker /\ wasted' = wasted /\ job[c].pc = "idle"
  BY DEF CreateTransaction
<1> HIDE DEF j
<1>3. /\ job' \in [Callers -> Job]
      /\ job'[c] = Advanced(j) /\ charged'[c] = {}
      /\ \A d \in Callers \ {c} : job'[d] = job[d] /\ charged'[d] = charged[d]
  BY <1>1, <1>2, AdvancedIsJob DEF RouterInv, RouterTypeOK
<1>4. RouterTypeOK'
  BY <1>2, <1>3 DEF RouterInv, RouterTypeOK
<1>5. PlaceOK'
  BY <1>1, <1>3, AdvancedIsJob DEF RouterInv, PlaceOK, Here
<1>6. PreferredOnly'
  BY <1>3 DEF RouterInv, PreferredOnly
<1>7. TestRuns'
  <2> SUFFICES ASSUME NEW g \in Gateways \ wasted, UnderTest(g)'
               PROVE  \E d \in Callers : (job[d].pc = "call" /\ Here(d) = g)'
    BY <1>2 DEF TestRuns
  <2>1. PICK d \in Callers : job[d].pc = "call" /\ Here(d) = g
    BY <1>2 DEF RouterInv, TestRuns, UnderTest
  <2>2. d # c
    BY <1>2, <2>1
  <2> QED BY <1>3, <2>1, <2>2 DEF Here
<1> QED BY <1>4, <1>5, <1>6, <1>7 DEF RouterInv

\* Considering a gateway moves the request on, or calls a gateway it wants.
LEMMA ConsiderInv ==
  ASSUME RouterInv, NEW c \in Callers, Consider(c)
  PROVE  RouterInv'
<1> DEFINE g == Here(c)
<1>1. g \in Gateways /\ job[c] \in Job /\ breaker[g] \in Breaker
  BY HereIsGateway DEF Consider, RouterInv, RouterTypeOK
<1>2. breaker' \in [Gateways -> Breaker] /\ charged' = charged /\ wasted' \subseteq Gateways
  BY <1>1, BreakerTypes DEF Consider, RouterInv, RouterTypeOK
<1>3. PICK j \in Job :
        /\ job' = [job EXCEPT ![c] = j] /\ j.request = job[c].request
        /\ j.pc # "idle" => j.at \in 1..Len(Chain)
        /\ j.pc = "call" => j.at = job[c].at /\ Wanted(j.request, g)
  <2>1. CASE job' = [job EXCEPT ![c] = Advanced(job[c])]
    BY <1>1, <2>1, AdvancedIsJob
  <2>2. CASE job' # [job EXCEPT ![c] = Advanced(job[c])]
    <3> DEFINE test == LetThrough(breaker[g]).state = "half_open"
               k == [job[c] EXCEPT !.pc = "call", !.test = test]
    <3>1. test \in BOOLEAN
      OBVIOUS
    <3>2. job' = [job EXCEPT ![c] = k] /\ Wanted(job[c].request, g)
      BY <2>2 DEF Consider
    <3>3. k \in Job /\ k.request = job[c].request /\ k.at = job[c].at /\ k.pc = "call"
      BY <1>1, <3>1 DEF Job
    <3>4. job[c].at \in 1..Len(Chain)
      BY DEF Consider, RouterInv, PlaceOK
    <3> QED BY <3>2, <3>3, <3>4
  <2> QED BY <2>1, <2>2
<1>4. /\ job' \in [Callers -> Job] /\ job'[c] = j
      /\ \A d \in Callers \ {c} : job'[d] = job[d]
  BY <1>3 DEF RouterInv, RouterTypeOK
<1>5. RouterTypeOK'
  BY <1>2, <1>4 DEF RouterInv, RouterTypeOK
<1>6. PlaceOK'
  BY <1>3, <1>4 DEF RouterInv, PlaceOK, Here
<1>7. PreferredOnly'
  BY <1>2, <1>3, <1>4 DEF RouterInv, PreferredOnly
<1>8. TestRuns'
  <2> SUFFICES ASSUME NEW h \in Gateways, h \notin wasted', UnderTest(h)'
               PROVE  \E d \in Callers : (job[d].pc = "call" /\ Here(d) = h)'
    BY DEF TestRuns
  <2>1. h \notin wasted /\ job[c].pc = "choose"
    BY DEF Consider
  <2>2. CASE UnderTest(h)
    <3>1. PICK d \in Callers : job[d].pc = "call" /\ Here(d) = h
      BY <2>1, <2>2 DEF RouterInv, TestRuns
    <3>2. d # c
      BY <2>1, <3>1
    <3> QED BY <1>4, <3>1, <3>2 DEF Here
  <2>3. CASE ~UnderTest(h)
    <3>1. breaker'[h] # breaker[h]
      BY <2>3 DEF UnderTest
    <3>2. h = g /\ breaker' = [breaker EXCEPT ![g] = LetThrough(breaker[g])]
      BY <3>1 DEF Consider, RouterInv, RouterTypeOK
    <3>3. breaker'[g] = LetThrough(breaker[g])
      BY <1>1, <3>2 DEF RouterInv, RouterTypeOK
    <3>4. ~(~Wanted(job[c].request, g) \/ IsOpen(breaker[g]))
      BY <3>1, <3>2 DEF Consider
    <3>5. wasted' = IF g \notin job[c].request.able /\ LetThrough(breaker[g]).tested
                      THEN wasted \cup {g} ELSE wasted
      BY <3>4 DEF Consider
    <3>6. g \in job[c].request.able
      BY <3>2, <3>3, <3>5 DEF UnderTest
    <3>7. job' = [job EXCEPT ![c] =
                    [@ EXCEPT !.pc = "call", !.test = LetThrough(breaker[g]).state = "half_open"]]
      BY <3>4, <3>6 DEF Consider
    <3>8. job'[c].pc = "call" /\ job'[c].at = job[c].at
      BY <1>1, <3>7 DEF RouterInv, RouterTypeOK, Job
    <3> QED BY <3>2, <3>8 DEF Here
  <2> QED BY <2>2, <2>3
<1> QED BY <1>5, <1>6, <1>7, <1>8 DEF RouterInv

\* A gateway that answers, or does not, can only have charged a request that
\* wanted it.
LEMMA AnswerInv ==
  ASSUME RouterInv, NEW c \in Callers, Succeeds(c) \/ Fails(c)
  PROVE  RouterInv'
<1> DEFINE g == Here(c)
<1>1. /\ g \in Gateways /\ job[c] \in Job /\ breaker[g] \in Breaker
      /\ Wanted(job[c].request, g)
  BY HereIsGateway DEF Succeeds, Fails, RouterInv, RouterTypeOK, PlaceOK
<1>2. breaker' \in [Gateways -> Breaker] /\ wasted' \subseteq Gateways
  BY <1>1, BreakerTypes DEF Succeeds, Fails, RouterInv, RouterTypeOK
<1>3. PICK j \in Job :
        /\ job' = [job EXCEPT ![c] = j] /\ j.request = job[c].request
        /\ j.pc # "idle" => j.at \in 1..Len(Chain)
        /\ j.pc # "call"
  BY <1>1, AdvancedIsJob DEF Succeeds, Fails
<1>4. PICK S \in SUBSET Gateways :
        charged' = [charged EXCEPT ![c] = S] /\ S \subseteq charged[c] \cup {g}
  <2>1. charged[c] \in SUBSET Gateways /\ charged = [charged EXCEPT ![c] = charged[c]]
    BY DEF RouterInv, RouterTypeOK
  <2> QED BY <1>1, <2>1 DEF Succeeds, Fails
<1>5. /\ job' \in [Callers -> Job] /\ job'[c] = j
      /\ charged' \in [Callers -> SUBSET Gateways] /\ charged'[c] = S
      /\ \A d \in Callers \ {c} : job'[d] = job[d] /\ charged'[d] = charged[d]
  BY <1>3, <1>4 DEF RouterInv, RouterTypeOK
<1>6. RouterTypeOK'
  BY <1>2, <1>5 DEF RouterInv, RouterTypeOK
<1>7. PlaceOK'
  BY <1>3, <1>5 DEF RouterInv, PlaceOK, Here
<1>8. PreferredOnly'
  BY <1>1, <1>3, <1>4, <1>5 DEF RouterInv, PreferredOnly, Wanted
<1>9. TestRuns'
  <2> SUFFICES ASSUME NEW h \in Gateways, h \notin wasted', UnderTest(h)'
               PROVE  \E d \in Callers : (job[d].pc = "call" /\ Here(d) = h)'
    BY DEF TestRuns
  <2>1. ~(breaker'[g].state = "half_open" /\ breaker'[g].tested)
    <3>1. breaker'[g] \in {RecordSuccess(breaker[g]), RecordFailure(breaker[g])}
      BY <1>1 DEF Succeeds, Fails, RouterInv, RouterTypeOK
    <3>2. RecordSuccess(breaker[g]).state = "closed"
      BY <1>1 DEF RecordSuccess, Breaker
    <3>3. RecordFailure(breaker[g]).state # "half_open"
      BY <1>1 DEF RecordFailure, Breaker
    <3> QED BY <3>1, <3>2, <3>3
  <2>2. h # g
    BY <2>1 DEF UnderTest
  <2>3. breaker'[h] = breaker[h] /\ h \notin wasted
    BY <2>2 DEF Succeeds, Fails, RouterInv, RouterTypeOK
  <2>4. PICK d \in Callers : job[d].pc = "call" /\ Here(d) = h
    BY <2>3 DEF RouterInv, TestRuns, UnderTest
  <2>5. d # c
    BY <2>2, <2>4
  <2> QED BY <1>5, <2>4, <2>5 DEF Here
<1> QED BY <1>6, <1>7, <1>8, <1>9 DEF RouterInv

LEMMA CooldownInv ==
  ASSUME RouterInv, NEW g \in Gateways, Cooldown(g)
  PROVE  RouterInv'
<1>1. /\ breaker' \in [Gateways -> Breaker] /\ UNCHANGED <<job, charged, wasted>>
      /\ \A h \in Gateways : /\ breaker'[h].state = breaker[h].state
                             /\ breaker'[h].tested = breaker[h].tested
  BY DEF Cooldown, RouterInv, RouterTypeOK, Breaker
<1>2. TestRuns'
  BY <1>1 DEF RouterInv, TestRuns, UnderTest, Here
<1> QED BY <1>1, <1>2 DEF RouterInv, RouterTypeOK, PlaceOK, PreferredOnly, Here

LEMMA RouterSteps == RouterInv /\ [RouterNext]_routerVars => RouterInv'
<1> SUFFICES ASSUME RouterInv, [RouterNext]_routerVars PROVE RouterInv'
  OBVIOUS
<1>1. CASE \E c \in Callers : Consider(c)
  BY <1>1, ConsiderInv
<1>2. CASE \E c \in Callers : Succeeds(c) \/ Fails(c)
  BY <1>2, AnswerInv
<1>3. CASE \E c \in Callers, r \in ChargeRequests : CreateTransaction(c, r)
  BY <1>3, CreateInv
<1>4. CASE \E g \in Gateways : Cooldown(g)
  BY <1>4, CooldownInv
<1>5. CASE UNCHANGED routerVars
  BY <1>5 DEF routerVars, RouterInv, RouterTypeOK, PlaceOK, PreferredOnly, TestRuns, UnderTest, Here
<1> QED BY <1>1, <1>2, <1>3, <1>4, <1>5 DEF RouterNext, RouterStep

\* Every breaker, job and charge keeps its type, a request tied to one gateway is
\* charged nowhere else (router.go:181-191), and a test that was not wasted is being
\* made (circuitbreaker.go:85-140), whatever answers are lost and whatever the other
\* requests do to the breakers meanwhile.
THEOREM RouterCorrect == RouterSpec => []RouterOK
<1>1. RouterInv => RouterOK
  BY DEF RouterInv, RouterOK
<1> QED BY RouterStarts, RouterSteps, <1>1, PTL DEF RouterSpec

=============================================================================
