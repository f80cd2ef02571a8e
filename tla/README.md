# Verification of fuudelivery

TLA+ models of the delivery platform in this repository, the TLC runs that check
them and the TLAPS proofs about them. Source paths below are relative to `src/`;
`PAY`, `ORD`, `DEL`, `AUTH` and `CHAT` stand for `Backend/payment_api/app`,
`Backend/orders_api/app`, `Backend/delivery_api/app`, `Backend/auth_api/app` and
`Backend/chat_api/app`. `PROJECT.json` maps every definition to the lines it models.

The system is one Go process (`cmd/fuudelivery`) that mounts five APIs over one
Postgres database, an optional Redis and up to four payment gateways; several such
processes may run. What makes it hard is that almost every handler is a *sequence of
separately committed database calls*: another request, a periodic job or a crash can
come between any two of them. The models keep exactly that: a handler is a process
with a place (`pc`, `job`, `work`, `call`...) and the row it read (`snap`, `seen`,
`holds`...), one action per database call, mutex hold or gateway call.

## 1. Inventory

### Money

| Component | State | Operations | Hard behaviour | What makes it correct |
|---|---|---|---|---|
| Wallet ledger, `PAY/models/wallet.go`, `sql/11`, `sql/20` | `wallets`, `wallet_transactions` | `AdjustWalletBalance` (create, `SELECT ... FOR UPDATE`, check, update, insert), `HasLedgerEntry` | concurrent and repeated calls, lost commit answers | the balance is explained by the rows, one credit per reference, one debit per wallet and reference |
| Wallet requests, `PAY/handlers/wallet.go` | the same, claims of payments | `DeductFromWallet`, `EstablishmentWithdraw`, `TopUp` | replays, double clicks, a claim undone by hand | an order is paid once; a yes means that the money moved |
| Payments, `PAY/handlers/{pix,card,webhook,reconciliation,admin,split,repasse}.go` | `payments`, `establishment_debts` | charge, webhook, settle, refund, scan, approve, reject, split | handlers interleave; crashes between credit and mark; late and repeated webhooks | the store is paid once, and a refund takes back what was paid, while the percentages stand still |
| Price and split, `ORD/handlers/{delivery,delivery_region,orders}.go`, `PAY/handlers/{order_total,split_at_origin}.go`, `PAY/services/split_calculator.go` | the order document, zone shares | fee of an address, coupon, order, charge, split | rounding; two services compute from rows that change between them | the parts add up to the payment, each party bears what it agreed to |
| Gateway router, `pkg/gateway/{router,circuitbreaker}.go` | a breaker per gateway | `CreateTransactionWithFallback` | callers share the breakers, answers get lost | a tied request stays tied; the test of a breaker is made and judged |
| Sponsored bookings, `AUTH/models/sponsor_booking.go`, `PAY/handlers/sponsor*.go` | `sponsor_bookings` | book, pay, confirm, cancel, refund, scan | slots held and lost while a payment is on its way | slots not oversold, money paid is honoured or given back |
| Coupons, referrals, points, `ORD/handlers/{coupon,order_coupon,referral,loyalty}.go`, `ORD/models/loyalty_merge.go` | `coupons`, `coupon_usages`, `referrals`, `loyalty_points`, history | validate, use, return, reward, earn, redeem, merge, retire | races for the last use, one reward per friend, duplicate accounts | limits hold, uses are counted, points match their history |
| Seller accounts, reports; adapters `pkg/gateway/*/` | tokens, recipients | OAuth exchange; HTTP translation | I/O only | |

### Orders and deliveries

| Component | State | Operations | Hard behaviour | What makes it correct |
|---|---|---|---|---|
| Orders and courier queue, `ORD/handlers/{orders,orders_pg,courier_sync,pickup_code}.go`, `DEL/handlers/{sync,solicitations,deliveryman}.go` | `order_documents`, `delivery_solicitations` | create, change status, claim, advance; two callbacks installed by `courier_flow.go` | the two tables are joined by calls made after the commit | both tell the same story; one courier; legal steps only |
| Matching and dead letter queue, `DEL/services/{matching_engine,dlq_postgres,courier_location}.go` | couriers in memory, `unmatched_orders` | search, book, push, retry, clean up | retries of several processes, restarts, a ceiling counted in memory | no order is forgotten |
| Zones, `AUTH/handlers/zone_handler.go`, `DEL/services/{split_decay_job,calibration_job}.go` | `zones` | administrator's saves, decay of the commission, calibration of the radius | three writers read and save one row | the commission follows the calendar |
| Batches, `ORD/handlers/batch.go`, `ORD/services/batch_expiry.go` | `delivery_batches`, `orders.batch_id` | create, assign, add, complete, expire | read-then-save handlers and a job on one row | a trip has one courier and one end |
| Live tracking, `cmd/fuudelivery/websocket.go` | viewers, last positions, in memory | watch, post, prune | two mutexes, one for each | nobody misses the last position, nobody else sees it |
| Chat, `CHAT/handlers/chat.go` | rooms in memory, `messages` | enter, speak, leave | three levels of mutexes | one writer per connection, no deadlock, what was heard was saved |
| Catalogue, reviews, push tokens, QR codes, `ORD/handlers/` | one table each | single-row reads and writes | none | |

### Platform

| Component | State | Operations | Hard behaviour | What makes it correct |
|---|---|---|---|---|
| Event queue, `pkg/queue/queue.go` | a Redis stream, its group, a dead letter stream, a retry hash | publish, read, handle, acknowledge, reclaim, bury | failed calls, slow handlers, crashes | nothing is lost, nothing buried early |
| News over WebSocket, `cmd/fuudelivery/{websocket,status_events}.go` | tickets, connections per owner | issue, trade, connect, evict, write | tabs come and go under a write; owners of three kinds share numbers | every tab of the owner, and nobody else, hears |
| Request limits, `cmd/fuudelivery/{rate_limit_redis,ratelimit}.go` | counters in Redis, buckets in each process | count, expire, fall back, clean up | several processes, Redis away | no window lets more through |
| Sessions, `AUTH/middlewares/jwt.go`, `AUTH/handlers/{session_handler,password_reset}.go` | `refresh_tokens`, `password_resets` | log-in, rotate, detect reuse, revoke, reset | two refreshes with one token | one successor, nothing outlives its revocation |
| Users, stores, couriers, clients, subscriptions, `AUTH/handlers/` | one table each | registration, roles, links, edits, deletion, renewals | read-then-save of whole rows | an administrator remains, who is served has paid |
| Opening hours, `AUTH/models/opening.go` | weekly windows | is it open, when does it open | breaks, windows past midnight | what is announced is kept |
| Shell wiring, shared packages, uploads, search, metrics, schema, front ends, scripts | | | helpers, I/O, clients | |

How they interact: the APIs call each other as functions in one process. The
webhook asks the gateway (`pkg/gateway`), writes `payments`, moves money through
`AdjustWalletBalance` and gives points through `EarnPointsForOrder`; a webhook for a
sponsored booking branches to `settleSponsorCharge`. The reconciliation loop scans
payments and then bookings. `UpdateOrderStatus` and `ApplyCourierUpdate` call each
other's package through the callbacks of `courier_flow.go`; the first also returns or
rewards a welcome coupon. An order consumes its coupon before it is saved, and its
charge reads the saved document, never the client. Status events go through the event
queue to the sockets.

## 2. Modules

| Module | Models | State and actions |
|---|---|---|
| `WalletLedger` | what a wallet movement promises: one atomic step | `balance`, `ledger`; `AdjustWalletBalance` is the only action |
| `WalletTx` | the Postgres transaction of `AdjustWalletBalance` | each call is at a step of `GetOrCreateWallet`, `LockRow`, `CheckAndUpdate`, `InsertEntry`, `Commit`; `Abort` is a lost connection; EXTENDS `WalletLedger`, whose variables are the committed ones |
| `WalletRequests` | the handlers that move a wallet, over `WalletLedger` | `call` per request: look at the old reference, adjust, replay check, compare, claim, credit, un-claim; calls fail before or after their commit, processes die |
| `PaymentSettlement` | the life of a payment, over `WalletLedger` | one action per database call of each handler, named for it |
| `OrderPricing` | fee, coupon, order, charge and split | the document, the charge and the shares appear one after the other; shares, fees and regions change between them |
| `OrderDelivery` | an order and its row in the courier queue | `order`, `sol`, and a `job` per request; the callbacks are the last steps of a job |
| `CouponUse`, `LoyaltyPoints` | coupons and referrals; points | requests that read and later write; transactions that hold the lock of a telephone |
| `OrderPerks` | both together | the reward of a friend and the redemption for a coupon are one transaction over both, a restart hits both |
| `GatewayRouter` | breakers and the fallback | a breaker operation (one mutex hold) per step |
| `EventQueue` | `pkg/queue` over Redis Streams | a step per Redis call; two loops per consumer and the lock between them |
| `SponsorBooking` | sponsored bookings, over `WalletLedger` | creation is one step (a zone lock); every other handler reads in one step and writes in another |
| `DispatchPromise` | what the dispatch promises: who asked waits until answered | `waiting`, `answered` |
| `CourierDispatch` | matching engine, location store and dead letter queue | `couriers` per process, `unmatched` rows, a `task` per goroutine; implements `DispatchPromise` by INSTANCE ... WITH |
| `ZoneTuning` | a zone and its three writers | `zone`, a read row per writer, the calendar |
| `DeliveryBatches` | batches and their expiry job | `batchRow`, `batchOf`, the row each request read |
| `Sessions` | refresh tokens and reset codes | one action per call of rotation, reuse detection, reset |
| `UserAdmin` | users, roles, stores; EXTENDS `Sessions` | whole rows read and saved (`copies`) |
| `Subscriptions`, `CourierAccounts`, `StoreHours` | clients and members; couriers; opening hours | rows read and saved; the clock of a week |
| `StatusSockets`, `LiveTracking`, `OrderChat`, `RequestLimits` | the in-memory parts of the shell and the chat | a step per mutex hold, Redis call or socket write |
| `MC*` | instances for TLC | model values, symmetry (in runs without liveness), and which part a behaviour is about |
| `*Proofs` | theorems | see section 6 |

Composition. `PaymentSettlement`, `WalletRequests` and `SponsorBooking` use
`WalletLedger` as their store of money, and `WalletTx` refines it (`LedgerSpec` is a
PROPERTY of its run and a theorem): what the first three assume of a movement is what
the fourth establishes. `OrderPerks` composes `CouponUse` with `LoyaltyPoints`,
`UserAdmin` extends `Sessions`. `MCWalletRouter`, `MCDispatch`, `MCAccounts`, `MCCheckout` and
`MCRealtime` check modules side by side that share no variable: a behaviour chooses its
`part` and leaves the others as they began, so that TLC explores the parts and not
their product.

Properties are stated one by one; those of one part are checked under one name, a
conjunction that stands after them in the module (section 3). In `PROJECT.json`
every conjunct has a mutant of its own that breaks it.

Abstractions worth knowing:

- Amounts are a few cents instead of float reais; in `OrderPricing` and `LoyaltyPoints`
  they are computed as the code does, in whole cents and points. In `PaymentSettlement`
  what the split calculator may give the store is a set per payment (`Shares`): every
  settlement reads the zone's percentages anew, so each picks a member, replays included.
- Time is the few thresholds the code compares with: a confirmation is `fresh`, `due`
  (past the two-minute grace period) or `old` (past seven days); a breaker or a queue
  row is `cooled` or not; a message is `fresh` or `stale`; bookings count days, zones
  and memberships months, limits ticks of a minute, hours the times of a short week.
- A gateway is what it answers. It moves a charge on its own, webhooks come at any
  time, again, or never, and a handler acts on the answer it got, however late.
- The charge id of a payment is the payment itself. Card payments have none
  (`Kind = "noid"`), which matters: their wallet references are empty and the partial
  unique index does not cover them.
- A payment split at the origin can be refunded through the webhook as in
  `refund_integration_test.go:73-79`, although today only AbacatePay answers it.
- `EventQueue` counts attempts, successes and copies up to the values it compares
  them with.
- `CourierDispatch` has rings of distance instead of coordinates; which free courier
  scores best is a choice. The metrics the calibration reads are a choice.
- Variables marked "history" say why a promise may be off: `undone` (a pickup code put an
  older status back), `wasted` (a gateway's test went to a request it cannot serve),
  `past.missed` (a guess was not counted or its code not killed), `unread` (a look-up that
  failed was taken for a no), `byHand` and `overcleared` (uses of a coupon applied by hand;
  coupons whose counter went down once for several uses). The steps of the code never read
  them; properties except what they record, and nothing else.
- Connections, tickets, posts and messages are numbered as they come, which only
  leaves out orders that differ by a renaming.

## 3. Runs

All bounds are constants in the `.cfg` files. `CHECK_DEADLOCK FALSE` is used in
the runs where the system may go quiet for good: all orders delivered, all
payments old, all messages acknowledged, the last day over.

| Run | Instance | Distinct states | Checks |
|---|---|---|---|
| `WalletRouter` | 2 wallets, 2 calls with 2 attempts each, 1 reference or none, 2 amounts; or 2 gateways, 3 callers (two of any kind, one of PIX), breakers opening at 2 failures, answers lost at will | 0.51 M | `TxInv`, `LedgerInv`, `LedgerSpec`, `ReplyTruthful`, `EveryCallAnswered`; `RouterOK`, `TestIsJudged` |
| `PaymentRaces` | 1 PIX payment, 2 handlers and the reconciliation, 1 crash, everything interleaved | 1.05 M | `MarkIsBacked`, `OneCreditPerPayment`, `EveryPaymentSettles` |
| `PaymentSerial` | 1 PIX payment whose share moves between two amounts, 1 repasse payment of the same store, which also withdraws; 1 failed call, an admin who approves, rejects and splits, handlers one at a time | 2.7 M | `HistoryKept` |
| `PaymentShares` | 2 PIX payments of one store, the share of one fixed, that of the other any of three, nothing included; 1 failed call, an admin who approves, rejects and splits, handlers one at a time | 3.7 M | `SettlementInv` |
| `PaymentLateRefund` | as `PaymentRaces`, with withdrawals | stops at the violation | `RefundIsFinal`, refuted (section 4) |
| `Orders` | 1 order, 2 couriers, 2 requests at a time, new pickup codes or 1 crash or 1 failed call; or one request at a time | 2.2 M | `OrderInv`, `LegalSteps`, `QuietDay`, `DeliveredIsFinished` |
| `Queue` | 2 messages, 2 processes, 2 attempts, one slow handler, one crash, one failed call | 404 k | `QueueKept`, `EveryMessageEnds` |
| `Sponsor` | 2 stores, 2 bookings, 2 days, 1 slot, one handler and the scan, one crash or clash | 1.75 M | `SponsorInv`, `EveryPixHonoured` |
| `Dispatch` | a process with a handler and the retry loop, 1 courier, 2 orders, 1 restart or failed call; a zone with an administrator, 2 decay jobs, 1 calibration, 5 months; 1 batch under 2 requests and the job | 0.52 M | `DispatchInv`, `NoOrderForgotten`, `ZonesKept`, `BatchesKept`, `JobsKeepUp` |
| `Accounts` | 2 requests at a time on tokens, codes, users, stores, members, hours and couriers, seven parts | 1.7 M | `SessionsKept`, `AccountsKept`, `ClubKept`, `HoursKept`, `CouriersKept` |
| `Checkout` | prices with 5 coupons, 3 address rules, 2 shares; 2 wallet requests, 1 death, with all look-ups answered or those of one reference failing; 2 orders for 1 coupon use, or one applied by hand; 2 clerks on duplicate accounts | 2.3 M | `PricingInv`, `RequestsKept`, `CouponsKept`, `PointsKept` |
| `Realtime` | 3 tickets and connections, 2 events; 2 viewers, 2 posts; 2 chatters and 1 post; 2 processes, 2 requests, limits of 2 and 4, 1 lost Redis call | 4.6 M | `NewsKept`, `TrackingKept`, `ChatKept`, `LimitsKept` |

What the conjunctions are made of:

| Property | Parts |
|---|---|
| `TxInv` | types; `LockInv`: who passed the row lock works on the committed balance; `KeyInv`: two commits under way never share a key |
| `LedgerInv` | types; `AuditChain`: each row starts where the last one ended; `CreditOnce`; `DebitOncePerWallet` |
| `SettlementInv` | types; for handlers one at a time, and unless rules written by hand meet a fault: `NoReversalWithoutCredit`: a store pays back no payment it was not credited, however often the shares were computed anew; `PaysBackTheCredit`: and pays back that very amount, where the percentages stand still |
| `HistoryKept` | `RefundIsReversed`: what is refunded was taken back, or the refusal logged; `RefundIsFinal`; `ConfirmedAtKept`: replays keep the first confirmation time |
| `OrderInv` | types; `CourierAgrees`: no other name than the claimer's; `LeavesOnlyWhenReady`: but for orders in `undone` |
| `LegalSteps` | `LegalOrderSteps`, `StagesInOrder`: the two status machines under two clicks at once; only the save of a pickup code leaves the first |
| `QuietDay` | `InStep`: both tables agree when nobody works; `NoDeadClaim` |
| `RouterOK` | types; `PreferredOnly`; `TestRuns`: somebody is making the test a half open breaker waits for, unless it is `wasted` |
| `QueueKept` | types; `NothingLost`; `DeadAfterAllRetries`; `PromptlyOnce`: once when nothing goes wrong |
| `SponsorInv` | types; `SlotsNotOversoldWhenCalm`; `RefundOnlyPaid`; `PaidIsHonoured` |
| `DispatchInv` | types; `CeilingHeld`: a courier is over the ceiling by at most the searches beside the last one |
| `ZonesKept` | types; `SplitMatchesDate`: whoever saves a row read before; `NeverPastTarget`; `SearchesWithinLimit`: calibration stays within the administrator's radii, and the last stage of a search is the widest |
| `BatchesKept` | types; `YoungSpared`: the job ends no batch before its age; `OneCourierPerTrip`; `EndedBatchStays` |
| `JobsKeepUp` | `SplitCatchesUp`; `OldBatchEnds`: what the daily jobs and the timer achieve |
| `SessionsKept` | `ThreePeople`: accounts of three tables never pass for each other; `OneSuccessor`; `NothingOutlivesRevocation`; `GuessesAreLimited`: the guess beyond the limit ends the code, unless a write of it was lost |
| `AccountsKept` | types; `LoginFindsOwn`; `AdminRemains`; `DisabledStaysClosed`; `NobodyStranded`: only a link checked before a store went, and written after, leaves a user in it |
| `ClubKept`, `HoursKept`, `CouriersKept` | `OneClientPerPhone`, `ServedIsPaid`; `OpenAsPlanned`, `PromiseKept`; `PaidWhereChosen`, `NewcomersWait` |
| `PricingInv` | types; `SharesMakeThePayment`; `FunderPays`; `StorePromotionStaysHome`; `CourierIsCovered`; `NoDiversion`; `OriginFeeCoversCourier` |
| `RequestsKept` | `OrderDebitedOnce`, `PaidIsNotRefused`: unless a failed look-up was taken for a no; `YesMeansMoved`; `ClaimMeansCredited` |
| `CouponsKept`, `PointsKept` | types, `LimitsHeld`, `UsesCounted`: unless several users' uses were given back at once, `NoUseWasted`: unless applied by hand, `RewardedOnce`; `PointsBuyTheirWorth`, `EarnedOnce`: by each phone, `PointsMatchHistory`, `NeverOverdrawn` |
| `NewsKept` | types; `OneConnectionPerTicket`; `NewsReachesEveryTab`; `OnlyOwnNews` |
| `TrackingKept` | types; `NoViewerMissesPosition`; `OnlyPartiesSee` |
| `ChatKept` | types; `OneWriterPerConnection`; `HeardWasSaved`; `SomebodyMayGo`: the three levels of mutexes never block everybody who waits for one |
| `LimitsKept` | types; `WindowHolds`; `RefusedOnlyWhenUsedUp`; `CleanupGivesNothing` |

Why these bounds are enough to be interesting: the hazards are between two
handlers on one row, or a handler and a crash; each run has at least two of the
actors it needs, and one fault of each kind, and every property has mutants of the
code in `PROJECT.json` (a dropped guard, a lost reset) that its run catches. Two of
anything that is counted are used where one could not tell `<` from `<=` (attempts,
failures before a breaker opens, messages). What they do not reach: two faults in a row
of the same kind, three handlers on one payment, batches cut by `LIMIT`.

Where a run has parts, or a behaviour kinds, the MC module names what is left out of
each: in `Orders` a fault and a new pickup code do not meet, in `Accounts` the parts of
stores, members, hours and couriers begin with one administrator, the part of users has
one store, one deletion and no faults; in `Checkout` the part of coupons has no transaction
on points but the reward's, the part of points no fault and no coupon retired. The proofs
(section 6) have none of these bounds.

`Serial` in `PaymentSettlement` makes handlers run one at a time, and `alone` in
`OrderDelivery` chooses at the start whether a behaviour does. They are there because
several properties hold only then: the code has no lock that would keep them under
interleaving. What fails without them is listed next; the serial behaviours show that
the sequential logic is right and that the interleaving is the only cause. In the same
spirit `clashed` (`SponsorBooking`), `raced` (`ZoneTuning`), `stale` (`UserAdmin`) and
`OneAdminAtATime` mark where two handlers meet on one row. So the serial properties say
what one handler keeps of what the one before it left, and not that nothing can go wrong
between two: section 4 lists what does.

## 4. Where code and comments disagree

One run ends in a violation; `PROJECT.json` has its text under `findings`:
`PaymentLateRefund` refutes "prevents late CONFIRMED webhooks from re-crediting a
refunded payment" (webhook.go:584-585). A refund that ends between that check and the
unconditional writes is undone, and the store credited after it.

More were met while modelling. Each can be reproduced with the property and the
constants given; they are not separate runs. The properties stand at the end of their
modules.

Money:

| Property | Change to a run | What happens |
|---|---|---|
| `OneCreditPerPayment` | `PaymentSerial` with one `"noid"` payment, `MaxCrashes = 1`, `KnownCharges = {}` | "tentar de novo" is safe (reconciliation.go:25-27): a card payment has an empty reference, so a settlement repeated after a crash credits twice |
| `ConfirmedAtKept` | `PaymentLateRefund` with this property, no crash | two replays both pass the equal-status check (webhook.go:65-71) and the second moves `confirmed_at` |
| `RefundIsReversed` without its `crashes + dbErrors = 0` | `PaymentSerial` with `MaxCrashes = 1` | a crash between credit and split rules, then a refund: the share is zero and nothing is taken back |
| `NoReversalWithoutCredit` without `Serial` | `PaymentRaces` with a `"pix"` and a `"noid"` payment | a settlement that read REFUNDED credits nothing but still writes CONFIRMED and the split rules; the next refund takes from the store money it never got |
| the same without the condition on `SplitAmounts` | `PaymentShares` | an administrator writes split rules, the settlement after a confirmation fails, the refund reads those rules as if a settlement had written them and takes from the store money it never got (webhook.go:161) |
| `RefundTakesTheCredit` | `PaymentShares` | "recalcula os mesmos valores e sobrescreve" (webhook.go:353): the percentages of the zone move between a settlement and its replay, the replay overwrites the split rules although its credit is a duplicate, and the refund takes another amount than was credited |
| `StatusNeverGoesBack` | `PaymentSerial` | an approved payment goes back to PENDING or EXPIRED when the gateway says so (webhook.go:65 says "or beyond") |
| `DebtCeiling` | `PaymentSerial` with two `"repasse"` payments | two charges pass the limit before either debt exists (repasse.go:48-50) |
| `DoubleClickBarred` | `Checkout` | two withdrawals a moment before and after the turn of a minute, each of which looked at the minute before when nothing was there (wallet.go:70-71) |
| `SlotsNotOversold` | `Sponsor` with `Handlers = {h1, h2}` | a settlement read before a cancellation revives the booking after its slot was sold |
| `OneTest` | `WalletRouter` | the request that finds the cooldown over does not count as the test (circuitbreaker.go:92) |
| `EveryTestIsJudged` | `WalletRouter` | the router asks the breaker before it asks whether the gateway supports the request (router.go:189-211): a card charge uses up the test of a gateway that takes PIX only, and the breaker stays half open for good |
| `ClosesByTest` | `WalletRouter` | an answer from before the breaker opened closes it |
| `OneCharge` | `WalletRouter` | "evitar duplicatas em retries" (router.go:213): a gateway has charged and its answer is lost; the next one, which never saw that key, charges again |
| `NeverDebitedTwice` | `Checkout` | any error of the look-up of the older reference is taken for "not there" (wallet.go:297): an order debited under that reference is debited again under the new one |
| `EveryUseHasAnOrder` | `Checkout` | "o uso precisa apontar para um pedido" (orders.go:93-95): `POST /coupons/apply` writes a use under any order id (coupon.go:333-339), and no order gives it back |
| `OrderEarnsOnce` | `Checkout` | "impede crédito duplicado de pontos para o mesmo pedido" (sql/17:16): the lock and the index are those of a phone, so two phones that name one order both earn it (loyalty.go:134-148) |
| `WelcomeIsForTheFirst` | `Checkout` | who looked at the code first, and ordered without it, still has the coupon (referral.go:18) |

`SponsorBooking` shows three more when handlers meet on one booking: a cancellation that
read `pending` while the payment activates it (cancelled, paid, never given back); a
scan that judges the expiry by the time it began; two webhooks of an expired PIX, of
which the second finds the store's own active row overlapping and refunds it. And
without a meeting: an admin who cancels after the first day, then a repeated webhook,
gives everything back although the comment leaves that to the admin (sponsor.go:264-265).

`WalletRequests`: a death between the claim of a top-up and its credit leaves it claimed
and not credited, which is why `ClaimMeansCredited` asks for no crash; and the replay check
answers "not found" on any error (wallet.go:89-92), so who paid may hear that his balance is
too small, which `PaidIsNotRefused` excepts. `CouponUse`: `releaseCoupon` deletes the uses
of an order whoever made them and takes one off the counter (order_coupon.go:229-239), so
uses under one order by two users free one place (`overcleared` in `UsesCounted`). `OrderPricing`:
the percentage of the platform never changes the result, which is what the other two
leave; an order whose coupon takes the whole total without delivery cannot be charged; a
coupon that takes all the products leaves the store nothing even if the platform funds
it (`FunderPays` says "as far as what was paid allows"); a store without a configuration
is charged no fee by `computeOrderTotal`; a payment split at the origin takes its fee by
the percentages at charging and its shares by those at settlement.

Orders and dispatch:

| Property | Change to a run | What happens |
|---|---|---|
| `DeadLeavesQueue` | `Orders` | "aprovado entra, cancelado e finalizado saem" (orders.go:479-480): an approval announced after the cancellation that followed it leaves the order in the queue |
| `NoDeadClaim` without `alone` | `Orders` | the same, or a crash between the cancellation and its announcement: a dead order is claimed |
| `NoIllegalStep` | `Orders` | "Bloqueia transicoes ilegais" (orders.go:342-343): a new pickup code saves the whole row it read over whatever was saved meanwhile, a cancellation or a delivery (pickup_code.go:63-73) |
| `QueuedOnce` | `Dispatch` | a failed retry pushes the order twice, once with its count at zero (matching_engine.go:348, 396): it never expires |
| `RowRetriedOnce` | `Dispatch` with two processes | the rows are read and deleted in two statements of no transaction, so SKIP LOCKED protects nothing (dlq_postgres.go:76) |
| `SplitMatchesDate` | `Dispatch` with `TurnsDuringRun = TRUE` | two decay jobs around the turn of a month each take the step |
| the same without `SplitLeftToJob` | `Dispatch` with a patch of `"platform"` | `UpdateZone` takes `split_current_*` from a request (zone_handler.go:402-407) and leaves the date |
| `SearchesWithinLimit` without `~raced` | `Dispatch` | a calibration decided before the administrator narrowed the limits is written after |
| `CompletedStays`, `CancelledIsEmpty` | `Dispatch` | the job ends by id without looking again, and frees no orders; one added late stays in a cancelled batch |

`ListBatchesByZone` lists cancelled batches as active (batch.go:165, 174), and `TotalOrders`
drifts from the orders of the batch when two are added at once. No handler checks
the numbers of a zone: the decay job divides by `split_step_months`, which may be 0, and
radii may be in any order, in which case `SearchesWithinLimit` fails: the run and the
proof take radii in order (`RadiiInOrder`).

Accounts:

| Property | Change to a run | What happens |
|---|---|---|
| `FamilyEnds` | `Accounts` | a refresh, or a log-in, that had begun survives the revocation after a reuse (jwt.go:291) |
| `OneResetPerCode`, `OneUsableCode` | `Accounts` | two requests with one code both pass; two codes made at once both count (password_reset.go:119-120, 258-259) |
| `NoResetAfterTheLimit` | `Accounts` | a guess is counted in one statement and its code killed in another, whose error is ignored (password_reset.go:226-234): a code past its limit still resets the password |
| `NeverLockedOut` | `Accounts` with `OneAdminAtATime = FALSE` | "trancaria todo mundo fora do painel" (user_handler.go:396): two administrators demote each other, both having counted two |
| `NobodyIsStranded` | `Accounts` | a link is written after the store it was checked against was deleted (user_handler.go:166-172 and 210, 417-433) |
| `WalletStays` | `Accounts` | an edit of the store saves the row it read before the wallet was set |
| `CancelledKeepsAccess`, `MaySubscribeAgain` | `Accounts` | the status ends access at once; a unique index refuses a second subscription (subscription_handler.go:117) |
| `HoursKept` without `BreaksInside` | `Accounts` with a row whose break reaches past the closing or over the opening, or that is open all day and not written from 00:00 | a closed store announces an hour at which it does not open; `saveBusinessHours` keeps the times as they come (business_hours.go:34-52) |
| `OpeningIsAnnounced` | `Accounts` | a store that opens on one day of the week has nothing to announce after it closed (opening.go:41-42) |

Besides: the right code passes on the attempt after the last allowed one; a changed
password revokes no session; the clean-up deletes revoked tokens, after which a reuse is
not detected.

Realtime:

| Property | Change to a run | What happens |
|---|---|---|
| `NobodyIsOrphaned` | `Realtime` | who enters between the two locks of a leaving party is in a room the map has dropped (chat.go:88-89) |
| `PositionsAreBounded` | `Realtime` | only positions of two hours are dropped: more than 500 stay (websocket.go:630) |
| `AccountsRefusedOnlyWhenUsedUp`, `WindowsEnd` | `Realtime` | buckets of accounts have the limit of the route that came first, and are never cleaned; a counter whose EXPIRE failed has no end (rate_limit_redis.go:22) |

Besides: an event is written again to those who had it when another write failed and the
queue brings it again; a courier the order was taken from goes on seeing it; of two posts
under way at once the older may be shown last; the first position is written inside the
read lock, which the comment denies (websocket.go:648); routes with equal limits share
the counter of an address; a chat message is saved under the order its payload names.

## 5. Fairness

Safety runs do not depend on it. The liveness properties do:

| Property | Fairness | Why the code justifies it |
|---|---|---|
| `EveryCallAnswered` | weak, on the steps of a started transaction | Postgres grants a row lock once its holder ends; `Abort` is always possible, so no call is assumed to succeed |
| `EveryPaymentSettles` | weak, on a worker's next call and on the scan | goroutines run; the loop of `StartPaymentReconciliation` ticks every five minutes and at start-up. Nothing is assumed of webhooks, gateways or admins |
| `DeliveredIsFinished` | weak, on a running job | goroutines run. Couriers and stores may stop. A crash or a failed call ends the promise, because nothing announces a lost stage again |
| `TestIsJudged` | weak, on a caller's next step | every adapter has a client timeout, so a call ends. No caller has to come. A test that went to a request its gateway cannot serve is excepted (`wasted`) |
| `EveryMessageEnds` | weak, on time, both loops and the steps of `process` | the loops block on Redis or tick every 15 s; the lock passes on when it is free. Handlers may fail every time |
| `EveryPixHonoured` | weak, on jobs and on the scan | the same loop as the payments |
| `SplitCatchesUp` | weak, on a save under way and on the decay jobs | the job ticks every day (`dispatch.go`); the administrator may stop, and saves a bounded number of times |
| `OldBatchEnds` | weak, on the job's search and on each of its updates | its timer fires every few minutes; a bounded number of its calls fail |

`EveryPaymentSettles` speaks of payments that stay in the window: one that leaves
CONFIRMED, or grows older than seven days, is no longer looked for by the code either.
`NoOrderForgotten` is safety (the specification `DispatchPromise!PromiseSpec` without
fairness): whether couriers exist is not the program's to promise.

## 6. Proofs

TLAPS checks these for every value of the constants: any number of payments,
handlers, couriers, tokens, connections, crashes and failed calls. TLC evaluates the
assumptions (below) in every run. Almost no property is inductive as it stands, for one
reason: a handler reads a row, and what it writes later is decided by that copy. So
each invariant says, besides the property, *what a job may still rely on by the step
it stands at*. Those invariants were first checked by TLC.

Money:

| Theorem | Says | Inductive argument |
|---|---|---|
| `LedgerCorrect` (WalletLedgerProofs) | `LedgerSpec => []LedgerInv` | types, audit chain, one credit per reference and one debit per wallet and reference are inductive together: a movement appends one row that starts where the last one ended |
| `TxInvariant` (WalletTxProofs) | `Spec => []TxInv` | `LockInv` alone is not enough to commit: it says the holder works on the committed balance; `KeyInv` says no two transactions about to commit share a key |
| `TxImplementsLedger` | `Spec => LedgerSpec` | `Commit` is one movement of the ledger by the two invariants; every other step leaves the committed rows alone |
| `TxKeepsLedger`, `TxAuditChain`, `TxCreditOnce`, `TxDebitOnce` | the ledger's invariants under any interleaving | from the theorems above |
| `TxReplyTruthful` | what a caller is told is in the ledger | an answer is given in the step that looks, and rows are never removed |
| `RequestsAreKept`, `RequestsKeepLedger` (WalletTxProofs) | `RequestSpec => RequestsKept`, and `[]LedgerInv` | `RequestsInv`: what a request knows by its step (`CallOK`), a claim is one request's (`OneClaimer`), a claim without its credit has somebody at it or a death behind it (`ClaimsFollowed`), and who goes on to debit an order found no older debit, or its look-up failed and is in `unread` |
| `SettlementUsesLedger` (PaymentSettlementProofs) | `Spec => LedgerSpec` for the settlement | `HowMoneyMoves`: a step credits a settlement, debits a refund or a withdrawal, or moves nothing |
| `MarksAreBacked` | `Spec => []MarkIsBacked` | `MarksOK`: a worker that will write the mark has the credit or the debt to show for it; neither is ever removed |
| `CreditedOnce` | `[]OneCreditPerPayment` where every payment has a charge id | `CreditsOK`: every credit is some payment's, by its reference; with `CreditOnce` the map from credits to payments is an injection |
| `SettlementCorrect` | `Spec => []SettlementInv` | `OneByOne`: alone, what a worker read is still so, and rules that a refund would read are of a payment that was credited (`WorkOK`, `RulesOK`); every amount moved for a payment is one of its shares (`Credits`, `Debits`), so where there is one share they are the same |
| `HistoryStays` | `Serial => (Spec => HistoryKept)` | `JobRemembers`: what a worker will write is allowed by what it read, which is still the row; `RulesFollow`: a credited payment has the rules a refund will read. `RefundsAreReversed` is its part about the money |
| `RouterCorrect` (PaymentSettlementProofs) | `RouterSpec => []RouterOK` | `RouterInv`: a caller at a gateway is at a place of the chain and was let through by `Wanted` (`PlaceOK`); beside it `TestRuns` is inductive: whoever uses up a test goes on to call, or it is recorded as wasted |
| `PricingCorrect` (CheckoutProofs) | `PricingSpec => []PricingInv` | `PriceInv`: the order is worth its delivery unless the coupon pays it, the charge copies the order, the fee kept at the origin is at least the delivery or all there is; `SplitOf` says what the calculator gives |
| `CouponsAreKept` (CheckoutProofs) | `PerksSpec => []CouponsKept` | a request is at its step (`RequestOK`); the counter of a coupon in use is the number of its uses and within its limit (`Within`); uses of one order by several users are remembered where they were given back at once; the codes that are given out are their owners' (`ReferralsInv`); a reward in the history is of a delivered order of somebody rewarded (`HistoryInv`) |
| `PointsAreKept` (CheckoutProofs) | `PerksSpec => []PointsKept` | `PointsInv`: who holds the lock of a phone holds a copy of the row that counts, as it is now (`LocksInv`), and each cashback code is numbered by the codes before it (`CashInv`), so a set of them forgets none. `EarnInv`: who counted no earning of an order holds the lock of the phone that would have made it. Balances, history and codes are sums: `SumGrows` and what follows it show that a fold over a finite set exists and adds each member once, in any order |
| `SponsorsAreServed` (CheckoutProofs) | `Spec => []SponsorInv` | `JobFits`: what the copy a worker holds still has in common with the row, whoever met; `CalmWork`: while nobody has met it is the row itself |

Orders and deliveries:

| Theorem | Says | Inductive argument |
|---|---|---|
| `OrderCorrect` (OrderDeliveryProofs) | `Spec => []OrderInv` | `DeliveryInv`: who is about to write a stage or a status saw one that is at most behind the row (an order made ready never becomes unready, a claimed one keeps its courier), so conditional updates and re-reads suffice |
| `StatusesLegal` | `Spec => LegalSteps` | every write of a status or a stage is guarded in the same step by the machine it must follow; `JobOK` gives the stage the courier's update starts from |
| `QuietDays` | `Spec => QuietDay` | `JobAlone`, `OrderAlone`: alone, what a job read is still so, and the job that is not done yet is what makes the two sides differ |
| `DispatchKeepsPromise` (CourierDispatchProofs) | `DispatchSpec => NoOrderForgotten`: dispatch implements `DispatchPromise` | `PromiseInv`: a loop about to put an order back may find its row taken by another loop only if the order is `Supported` by something that is not itself being put back |
| `DispatchKeepsCeiling` | `DispatchSpec => []DispatchInv` | `CarriedInv`: a courier carries at most the ceiling plus the searches that picked it and have not booked it; booking trades one for the other |
| `BatchesAreKept` | `BatchesSpec => BatchesKept` | `BatchInv`: a request holds a row of a batch that exists. `RowMoves`: whatever a request read, its write ends a batch, sets out an active one, or keeps status and courier, because the update it makes is conditional or of one column |
| `SplitsFollowTheCalendar` | `SplitLeftToJob /\ ~TurnsDuringRun => (ZoneSpec => []SplitKept)` | `ZoneInv`: every row an administrator holds and every split a job holds goes with its date, and a decided split is that of this month. It rests on `StepsAdd`: n steps and then k are n + k at once, since nothing leads away from the target (`TargetStays`). The recursive function `AfterSteps` is shown to exist (`TurnsUpTo`); inductions go by a least counterexample |
| `ZonesAreKept` | `SplitLeftToJob /\ RadiiInOrder /\ ~TurnsDuringRun => (ZoneSpec => []ZonesKept)` | `WithinInv`: while nobody wrote over a row that had changed, an administrator holds radii in order, and a calibration that is not stale holds the zone's own; `CalibratedIsWithin` follows the rounding, `StagesWithin` the peak hours |

Accounts and what clients meet:

| Theorem | Says | Inductive argument |
|---|---|---|
| `SessionsAreKept` (AccountsProofs) | `UserAdminSpec => []SessionsKept` | `SessionsInv`: a token rotated once is revoked before its successor is made, by the request that claimed it, so no second one can; a code with more guesses than its limit is dead, or about to be killed by the request that counted the last one, or one of its two writes is on record as lost |
| `AccountsAreKept` | `UserAdminSpec => AccountsKept` | `UsersInv`, `AdminsInv`, `StoresInv`: the property of the rows, said also of every copy a request holds; a request that passed the count of administrators still has another one beside it while they act one at a time; who is in a store that is gone had his link checked by a request that held it while the store went |
| `CouriersAreKept`, `ClubIsKept` | `[]CouriersKept`, `[]ClubKept` | `CouriersInv`: every row, and every copy a request saves whole, is offline if its courier registered himself; what a copy had as its wallet does not matter, since saving it replaces just that; `ClubInv`: every row that is held or saved was paid up to its end |
| `ShiftsAreKept`, `HoursAreKept` (AccountsProofs) | `ClockTimes => (HoursSpec => []OpenAsPlanned)`, `ClockTimes /\ BreaksInside => (HoursSpec => []HoursKept)` | no races, so the work is arithmetic: a minute of the week is one day and one minute of it (`DivMod`), a shift touches its day and the next one modulo the week, and between now and the announced opening no day a closed store skips has a shift |
| `QueueIsKept` (MessagingProofs), of `QueueLosesNothing` and `QueueWaitsItsTurn` | `Spec => []QueueKept` | `Backed`: who is about to acknowledge has a success, or a copy in the dead letter stream, to show for it. `TurnInv`: attempts, the retries on record and the claims of the loops add up, so nobody buries before the last retry |
| `NewsIsKept` | `SocketsSpec => []NewsKept` | `TicketsInv`, `ListsInv`, `NewsInv`: a connection comes of one ticket and is in the list of its owner; an event under way has every tab it has not reached on its list |
| `TrackingIsKept` | `TrackSpec => []TrackingKept` | `Coming`: for every viewer who has not seen the last position there is a step to come, of the post or of the viewer's entry, that brings it |
| `ChatIsKept` | `ChatSpec => []ChatKept` | what is on its way to be heard has its row; `HoldersInv`: who holds the map, a room or a connection stands where he asks, if for anything, for one of a later kind, so waiting never closes a circle, for any number of rooms and connections |
| `LimitsAreKept` | `LimitsSpec => LimitsKept` | what a window let through is at most what it counted, and less while the first of the window is on its way to set its end; the tokens of a bucket are at least its idle time times its refill |

The assumptions, named `...Assumption` in the modules that declare the constants, say that
bounds are naturals, limits positive, goroutines of different kinds different, and
markers (`NoRef`, `NoBatch`, `Full`...) no members of what they mark. A few are about
the code: account types are those `jwt.go:134-146` issues (`SocketAssumption`,
`TrackingAssumption`); a new zone has the initial split and no date, and a request names
any column of a zone but the date (`ZoneAssumption`); a limit is a whole number of
tokens a tick and buckets outlive a minute (`LimitAssumption`); the rows of points are
finitely many and told apart by their key, and rewards and redemptions are not negative
(`LoyaltyAssumption`, `PerksAssumption`); a week has more than a day (`HoursAssumption`); a bigger fault budget, more
rows or more users are never excluded.

Conditions stand in the theorems or in the properties, and each is there because the
property fails without it (section 4): `Serial` for `HistoryStays` and in `SettlementInv`;
the condition on rules written by hand, and the fixed percentages of `Steady`, in `SettlementInv`, and a share that is never nothing in `RefundIsReversed`; a charge id for `CreditedOnce`; `SplitLeftToJob` and
`~TurnsDuringRun` for the split of a zone, `RadiiInOrder` for its radii; `ClockTimes` and
`BreaksInside` for the opening hours (the handler takes any digits of the right shape,
"29:59" too, and compares none); TLC evaluates those four of rows and requests on its own
instances (`PatchesAssumption`, `RowsAssumption`), so no run is outside them; `OneAdminAtATime` in `AdminRemains`; `alone`,
`clashed`, `crashes + dbErrors = 0`, and the history variables, in the properties that name them.

The proofs corrected the models: an order is a unique use of its coupon, ids of loyalty
rows are compared within one telephone only, and `RefundIsReversed` had forgotten the
payments split at their origin. TLC's small instances had not shown any of them.

Only model-checked: liveness under fairness, for which the prover has no rules here
(`EveryCallAnswered`, `TestIsJudged`, `EveryPaymentSettles`, `DeliveredIsFinished`,
`EveryMessageEnds`, `EveryPixHonoured`, `JobsKeepUp`), and so the use of `ENABLED`.

No module declares a RECURSIVE operator.

## 7. Not modelled

- `Select`, `ResetCircuitBreaker`, the named `RecordSuccess` and `RecordFailure` of the
  router, `CreateSolicitation`, `MarkDebtPaid`, the `ForceExpire` of the batch service, the
  Redis index of couriers (`geo_index.go`), the dispatch queue in memory and
  `pkg/featureflags` have no caller in the program.
- The Go-channel fallback of the queue (100 messages, lost on restart): a different
  promise, made only without Redis.
- The batch limits of the scans (100 payments, 200 bookings). Rows that can never
  be marked (a share of zero) stay among the 100 oldest for seven days and can keep newer
  ones out; a bounded scan is planned.
- `issueSponsorPix` can make a charge and fail to store its id: that PIX is unknown to
  the database and nothing in the code looks for it.
- Seller accounts (OAuth of Mercado Pago): one request each, no state shared with the
  money path beyond the choice of the payment kind.
- Gateway adapters: translation to and from HTTP; their answers are inputs of the models.
- The loss of the in-memory maps (tickets, connections, rooms, positions, buckets) at a
  restart, after which clients connect anew. Reading chat messages and marking them.
- Catalogue, reviews, push tokens, uploads, search: single-row reads and writes.
- HTTP, JSON, CSRF, access tokens and cookies, texts, metrics, maps and images, the
  front ends and scripts.

## 8. Plan

Done in this order: the ledger and its transactions (most depends on them), the money
path, orders and couriers, the gateway router, the event queue, sponsored bookings; then
dispatch, zones and batches, coupons and points, accounts and sessions, prices and wallet
requests, and what clients meet at the shell.

Every safety invariant and action property the runs check is proved, but for what
section 6 lists under "Only model-checked". Next proofs: one ledger that the settlement
and the wallet requests implement together, where each now implements its own.

Next models: the scans of payments and bookings with their batch limits; the restart of
the shell with its clients.
