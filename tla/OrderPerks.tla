----------------------------- MODULE OrderPerks ------------------------------
(***************************************************************************)
(* Coupons, referrals and points together: a delivered first order rewards    *)
(* the friend in points, and points are redeemed for a coupon; each is one    *)
(* transaction over both parts.                                              *)
(***************************************************************************)
EXTENDS CouponUse, LoyaltyPoints

CONSTANTS
  RewardPoints,      \* referralRewardPoints
  Redemptions,       \* amounts of points one may ask to redeem
  MaxRedeemed        \* bound: coupons redeemed for

ASSUME PerksAssumption ==
  /\ Members = Users /\ Friend \in Users
  /\ RewardPoints \in Nat /\ Redemptions \subseteq Nat

VARIABLE cashback     \* coupons redeemed for: [code, user, value]

perkVars == <<couponVars, loyaltyVars, cashback>>

PerksInit == CouponInit /\ LoyaltyInit /\ cashback = {}

\* handleReferralOnStatus: the referral is marked and the friend credited.
Reward(r) ==
  /\ MarkRewarded(r) /\ CreditReferral(Friend, RewardPoints, r) /\ UNCHANGED cashback

\* The total of an order that exists, anybody's, for the phone of who asks; or
\* for its own, when the webhook says it is paid.
Earn(k, u, r) ==
  /\ req[r].status # "none"
  /\ LockLoyaltyAccount(k, "earn", u, r)
  /\ UNCHANGED <<couponVars, cashback>>

AskToRedeem(k, u) ==
  /\ RowsOf(u) # {} /\ LockLoyaltyAccount(k, "redeem", u, NoClerk)
  /\ UNCHANGED <<couponVars, cashback>>

CashbackCode == <<"cashback", Cardinality(cashback) + 1>>

RedeemDouble(k, points) ==   \* mutant of RedeemPoints: the coupon is worth ten times as much
  LET u == txn[k].user
  IN /\ Cardinality(cashback) < MaxRedeemed
     /\ Redeem(k, points)
     /\ coupons' = Add(coupons, CashbackCode, NewCoupon(1, 1, u))
     /\ cashback' = cashback \cup {[code |-> CashbackCode, user |-> u, value |-> points]}
     /\ UNCHANGED <<usages, byHand, overcleared, referrals, req, copy, faults>>

\* The points leave the account and the coupon is made, in one transaction.
RedeemPoints(k, points) ==
  LET u == txn[k].user
  IN /\ Cardinality(cashback) < MaxRedeemed
     /\ Redeem(k, points)
     /\ coupons' = Add(coupons, CashbackCode, NewCoupon(1, 1, u))
     /\ cashback' = cashback \cup
          {[code |-> CashbackCode, user |-> u, value |-> points \div PointsPerReal]}
     /\ UNCHANGED <<usages, byHand, overcleared, referrals, req, copy, faults>>

PerksNext ==
  \/ CouponNext /\ UNCHANGED <<loyaltyVars, cashback>>
  \/ CouponCrash /\ LoyaltyCrash /\ UNCHANGED cashback
  \/ \E r \in Requests : Reward(r) \/ \E k \in Clerks, u \in Users : Earn(k, u, r)
  \/ \E k \in Clerks :
       \/ (CountEarned(k) \/ EarnPoints(k)) /\ UNCHANGED <<couponVars, cashback>>
       \/ RollBack(k) /\ UNCHANGED <<couponVars, cashback>>
       \/ \E u \in Users : AskToRedeem(k, u)
       \/ \E points \in Redemptions : RedeemPoints(k, points)
  \/ \E u \in Users : MergeDuplicates(u) /\ UNCHANGED <<couponVars, cashback>>

PerksSpec == PerksInit /\ [][PerksNext]_perkVars

-----------------------------------------------------------------------------
PerksTypeOK ==
  /\ \A c \in DOMAIN coupons : coupons[c].used \in Nat /\ coupons[c].active \in BOOLEAN
  /\ \A s \in usages : s.coupon \in DOMAIN coupons /\ s.user \in Users
  /\ DOMAIN referrals \subseteq Users \ {Friend}
  /\ \A u \in DOMAIN referrals : Welcome(u) \in DOMAIN coupons
  /\ \A a \in accounts : a.user \in Users
  /\ \A k \in Clerks : txn[k].pc \in {"idle", "earn", "credit", "redeem"}

\* A coupon is used as often as its limits allow and no more, in all and by
\* one user, whichever requests race for the last use, give theirs back or
\* retire it meanwhile ("15 descontos em 30 pedidos paralelos num cupom de 1
\* por cliente", order_coupon.go:158-163).
LimitsHeld ==
  \A c \in DOMAIN coupons :
    /\ coupons[c].max > 0 => Cardinality(UsesOf(c)) <= coupons[c].max
    /\ coupons[c].perUser > 0 =>
         \A u \in Users : Cardinality(UsesBy(c, u)) <= coupons[c].perUser

\* As long as a coupon can be used, its counter is at least the number of its
\* uses: nothing that is given back is a use gained ("devolver uso que nao existe
\* ... vira uso gratis - o espelho exato do bug do consumo duplo",
\* order_coupon.go:225-227).  It is that number, unless a release found the
\* uses of several users under one order's id, and counted one.
UsesCounted ==
  \A c \in DOMAIN coupons : coupons[c].active =>
    /\ coupons[c].used >= Cardinality(UsesOf(c))
    /\ c \notin overcleared => coupons[c].used = Cardinality(UsesOf(c))

MadeOrRuns(r) == req[r].status # "none" \/ req[r].pc \in {"save", "release"}

\* Unless a call failed, a use that an order took belongs to an order or to a
\* request that still runs: one that comes to nothing gives it back
\* (order_coupon.go:210-215).
NoUseWasted == faults = 0 => \A s \in usages \ byHand : MadeOrRuns(s.order)

\* A friend is rewarded once for somebody, and for an order of theirs that was
\* delivered with the welcome coupon ("o premio e pago uma vez", referral.go:19).
RewardedOnce ==
  \A i \in 1..Len(history) : history[i].type = "referral" =>
    /\ req[history[i].order].status = "FINISHED"
    /\ \A j \in 1..Len(history) : 
         j # i /\ history[j].type = "referral" =>
           req[history[j].order].user # req[history[i].order].user

\* Coupons are used within their limits, counted once, given back when the
\* order failed, and a referral is rewarded once.
CouponsKept == /\ PerksTypeOK /\ LimitsHeld /\ UsesCounted
               /\ NoUseWasted /\ RewardedOnce

PointsSpent == SumFunctionOnSet([i \in Notes |-> -history[i].points], {i \in Notes : history[i].type = "redeem"})
CashBack    == SumFunction([b \in cashback |-> b.value])

\* The coupons redeemed for are worth the points that left the accounts.
PointsBuyTheirWorth == PointsSpent = PointsPerReal * CashBack

\* A phone earns the points of an order once, though the client asks while the
\* webhook of the payment does, or asks again (loyalty.go:134-140, 204-212).
EarnedOnce ==
  \A i, j \in 1..Len(history) :
    history[i].type = "earn" /\ history[j].type = "earn" /\ history[i].order = history[j].order
      /\ history[i].user = history[j].user => i = j

\* Points are earned once by a phone, explained by their history, and buy what
\* they are worth.
PointsKept == /\ PointsBuyTheirWorth /\ EarnedOnce /\ PointsMatchHistory /\ NeverOverdrawn

-----------------------------------------------------------------------------
\* What orders.go says of the uses: each points to an order, or it can be neither
\* audited nor given back ("o uso precisa apontar para um pedido, senao nao da para
\* auditar (nem estornar) qual pedido gastou qual cupom", orders.go:93-95).  One
\* that is applied by hand is under any id.
EveryUseHasAnOrder == faults = 0 => \A s \in usages : MadeOrRuns(s.order)

\* What sql/17 says of its index on (order_id, user_phone), and the endpoint when it
\* refuses: an order earns its points once ("impede credito duplicado de pontos
\* para o mesmo pedido", sql/17_unique_constraints.sql:16).  Two phones are under two
\* locks, and each counts what the other has not committed.
OrderEarnsOnce ==
  \A i, j \in 1..Len(history) :
    history[i].type = "earn" /\ history[j].type = "earn" /\ history[i].order = history[j].order => i = j

\* What the head of referral.go says: the welcome coupon is for who has no
\* earlier order ("so vale para quem nao tem pedido anterior", referral.go:18).
\* Who looked at the code first, and ordered without it, still has the coupon.
WelcomeIsForTheFirst ==
  [][\A r \in Requests :
       req[r].status = "none" /\ req'[r].status = "open" /\ req[r].code = Welcome(req[r].user)
         => \A o \in Requests : ~(req[o].user = req[r].user /\ req[o].status = "FINISHED")]_perkVars
=============================================================================
