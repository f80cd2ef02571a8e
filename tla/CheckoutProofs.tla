---------------------------- MODULE CheckoutProofs ----------------------------
(***************************************************************************)
(* Proofs about what an order costs and the perks that take something off. *)
(*                                                                         *)
(* The price: for any prices, fees, regions, coupons and percentages, and  *)
(* however the zone's shares move between the charge and the settlement,   *)
(* the parts make up the payment and each side bears what it agreed to.    *)
(*                                                                         *)
(* The perks: for any users, requests, limits, clerks and redemptions,     *)
(* with crashes, coupons are used within their limits and referrals are    *)
(* rewarded once. What the limits say of the uses that exist is kept only  *)
(* because of what is known of each request by the step it stands at       *)
(* (RequestOK), of the counter of a coupon in use (Within), and of the     *)
(* codes that are given out (ReferralsInv).                                *)
(*                                                                         *)
(* The points: they buy their worth, and the rows count what the history   *)
(* says, whoever adds and spends at once, because who holds the lock of a  *)
(* telephone holds the row that counts (PointsInv), and has held it since  *)
(* before it counted what the order had earned (EarnInv). The lemmas on    *)
(* sums say that a fold over a finite set adds each member once, in any    *)
(* order.                                                                  *)
(*                                                                         *)
(* The sponsored days: for any stores, bookings, slots and workers, with   *)
(* crashes, a store gets back only what it paid, and while no two handlers *)
(* meet no day is oversold. What a worker writes is decided by a copy of   *)
(* the row, so the invariant says what that copy still has in common with  *)
(* the row (JobFits), and that it is the row itself while nobody has met   *)
(* (CalmWork).                                                             *)
(***************************************************************************)
EXTENDS OrderPricing, OrderPerks, SponsorBooking, WalletLedgerProofs, FiniteSetTheorems, WellFoundedInduction, TLAPS

Kinds == {"PERCENTAGE", "FIXED", "FREE_DELIVERY"}

\* The coupon in circulation: a store's own is the store's expense, and no
\* percentage is above the whole.
CouponOK ==
  coupon # None =>
    /\ coupon.type \in Kinds
    /\ coupon.value \in Int
    /\ coupon.type = "PERCENTAGE" => coupon.value \in 1..100
    /\ coupon.type = "FIXED" => coupon.value > 0
    /\ coupon.creator \in Stores =>
         coupon.store = coupon.creator /\ coupon.funder = "establishment"

\* The document, whether the server computed it or it was there before.
OrderOK ==
  order # None =>
    /\ order.type \in {"order", "legacy"}
    /\ order.total \in Nat /\ order.discount \in Nat
    /\ order.delivery \in Nat \cup {Unset}
    /\ order.type = "order" =>
         order.delivery \in Nat /\ (order.total >= order.delivery \/ order.freight)
    /\ order.creator \in Stores =>
         /\ order.store = order.creator
         /\ order.discount > 0 /\ order.funder = "establishment"

Payment == [type : {"charge"}, amount : Nat \ {0}, mode : {"custody", "split", "repasse"},
            delivery : Nat, discount : Nat, funder : {"", "platform", "establishment"},
            store : Stores, fee : Nat]

\* The charge follows the document, and the part held back at the origin
\* covers the courier, whatever the shares were at that moment.
ChargeOK ==
  charge # None =>
    /\ order # None
    /\ charge \in Payment
    /\ charge.discount = order.discount /\ charge.funder = FunderOf(order)
    /\ charge.discount = 0 => charge.delivery < charge.amount
    /\ charge.mode = "split" => charge.fee >= Smaller(charge.delivery, charge.amount)

\* The shares are those of the charge, with the percentages of the settlement.
SharesOK ==
  shares # None =>
    /\ charge # None
    /\ shares.pcts \in SplitShares
    /\ shares = CalculateSplitRules(charge, shares.pcts)

Rows == /\ regions \subseteq RegionForms
        /\ \A r \in regions : ValidRegion(r)
        /\ config \in [Stores -> StoreFees \cup {Unset}]

PriceInv == Rows /\ CouponOK /\ OrderOK /\ ChargeOK /\ SharesOK

-----------------------------------------------------------------------------
(* Arithmetic.                                                               *)

LEMMA RoundPctIsNat ==
  ASSUME NEW v \in Nat, NEW pct \in Nat
  PROVE  RoundPct(v, pct) \in Nat
<1>1. v * pct \in Nat
  OBVIOUS
<1>2. 2 * v * pct = 2 * (v * pct)
  OBVIOUS
<1>3. \A x \in Nat : (2 * x + 100) \div 200 \in Nat
  OBVIOUS
<1> QED BY <1>1, <1>2, <1>3 DEF RoundPct

LEMMA RoundPctIsPart ==
  ASSUME NEW v \in Nat, NEW pct \in 0..100
  PROVE  RoundPct(v, pct) <= v
<1>1. v * pct <= v * 100 /\ v * pct \in Nat
  OBVIOUS
<1>2. 2 * v * pct = 2 * (v * pct)
  OBVIOUS
<1>3. \A x \in Nat : x <= v * 100 => (2 * x + 100) \div 200 <= v
  OBVIOUS
<1> QED BY <1>1, <1>2, <1>3 DEF RoundPct

\* What CalculateSplitRules gives, from the parts the percentages ask for.
LEMMA SplitOf ==
  ASSUME NEW p, NEW pcts \in SplitShares,
         p.amount \in Nat, p.delivery \in Nat, p.discount \in Nat
  PROVE  LET r == CalculateSplitRules(p, pcts)
             c == Smaller(p.delivery, p.amount)
             e == RoundPct(p.amount + p.discount, pcts.establishment)
             f == RoundPct(p.amount + p.discount, pcts.platform)
             asked == IF p.delivery >= p.amount THEN 0
                      ELSE IF p.funder = "establishment" THEN AtLeastZero(e - p.discount) ELSE e
         IN  /\ r.pcts = pcts
             /\ c \in Nat /\ e \in Nat /\ f \in Nat /\ asked \in Nat
             /\ r.deliveryman = c
             /\ r.establishment = Smaller(asked, p.amount - c)
             /\ r.platform = p.amount - c - r.establishment
<1> DEFINE g == p.amount + p.discount
           e == RoundPct(g, pcts.establishment)
           f == RoundPct(g, pcts.platform)
           c == Smaller(p.delivery, p.amount)
<1>1. pcts.establishment \in Nat /\ pcts.platform \in Nat /\ g \in Nat
  <2>1. pcts \in [platform : Nat, establishment : Nat]
    BY PricingAssumption
  <2>2. g \in Nat
    OBVIOUS
  <2> QED BY <2>1, <2>2
<1>2. e \in Nat /\ f \in Nat
  <2> HIDE DEF g
  <2> QED BY <1>1, RoundPctIsNat
<1>3. StorePart(p, pcts) = IF p.funder = "establishment" THEN AtLeastZero(e - p.discount) ELSE e
  BY DEF StorePart
<1>4. PlatformPart(p, pcts) = IF p.funder = "establishment" THEN f ELSE AtLeastZero(f - p.discount)
  BY DEF PlatformPart
<1> HIDE DEF e, f, g
<1>5. StorePart(p, pcts) \in Nat
  BY <1>2, <1>3 DEF AtLeastZero
<1>6. PlatformPart(p, pcts) \in Nat
  BY <1>2, <1>4 DEF AtLeastZero
<1>7. c \in Nat /\ c <= p.amount /\ (p.delivery >= p.amount => c = p.amount)
  BY DEF Smaller
<1> DEFINE asked  == IF p.delivery >= p.amount THEN 0 ELSE StorePart(p, pcts)
           wanted == IF p.delivery >= p.amount THEN 0 ELSE PlatformPart(p, pcts)
           plat   == Smaller(wanted, AtLeastZero(p.amount - c - asked))
           over   == AtLeastZero(plat + asked + c - p.amount)
           store  == AtLeastZero(asked - over)
           rest   == AtLeastZero(p.amount - plat - store - c)
<1>8. CalculateSplitRules(p, pcts) =
        [deliveryman |-> c, establishment |-> store, platform |-> plat + rest, pcts |-> pcts]
  BY DEF CalculateSplitRules
<1>9. asked \in Nat /\ wanted \in Nat
  BY <1>5, <1>6
<1> HIDE DEF asked, wanted, c
<1>10. store = Smaller(asked, p.amount - c) /\ plat + rest = p.amount - c - store
  BY <1>7, <1>9 DEF Smaller, AtLeastZero
<1>11. asked = IF p.delivery >= p.amount THEN 0
               ELSE IF p.funder = "establishment" THEN AtLeastZero(e - p.discount) ELSE e
  BY <1>3 DEF asked
<1> HIDE DEF plat, rest, store
<1>12. LET r == CalculateSplitRules(p, pcts)
       IN  /\ r.pcts = pcts /\ r.deliveryman = c
           /\ r.establishment = Smaller(asked, p.amount - c)
           /\ r.platform = p.amount - c - r.establishment
  BY <1>8, <1>10
<1> QED BY <1>2, <1>7, <1>9, <1>11, <1>12 DEF c, e, f, g

-----------------------------------------------------------------------------
(* What the invariant says of a settled payment.                             *)

LEMMA SettledShares ==
  ASSUME PriceInv, shares # None
  PROVE  SharesMakeThePayment /\ NoDiversion /\ OriginFeeCoversCourier
<1> DEFINE c == Smaller(charge.delivery, charge.amount)
<1>1. /\ charge # None /\ shares.pcts \in SplitShares
      /\ shares = CalculateSplitRules(charge, shares.pcts)
      /\ charge.amount \in Nat \ {0} /\ charge.delivery \in Nat /\ charge.discount \in Nat
      /\ charge.discount = 0 => charge.delivery < charge.amount
      /\ charge.mode = "split" => charge.fee >= c
  BY DEF PriceInv, SharesOK, ChargeOK, Payment
<1>2. PICK asked \in Nat :
        /\ shares.deliveryman = c
        /\ shares.establishment = Smaller(asked, charge.amount - c)
        /\ shares.platform = charge.amount - c - shares.establishment
  BY <1>1, SplitOf
<1>3. c \in Nat /\ c <= charge.amount /\ (charge.delivery < charge.amount => c < charge.amount)
  BY <1>1 DEF Smaller
<1> HIDE DEF c
<1>4. shares.establishment \in Nat /\ shares.establishment <= charge.amount - c
  BY <1>1, <1>2, <1>3 DEF Smaller
<1>5. SharesMakeThePayment
  BY <1>1, <1>2, <1>3, <1>4 DEF SharesMakeThePayment
<1>6. NoDiversion
  BY <1>1, <1>2, <1>3 DEF NoDiversion
<1>7. OriginFeeCoversCourier
  BY <1>1, <1>2 DEF OriginFeeCoversCourier
<1> QED BY <1>5, <1>6, <1>7

\* The whole order is split as the paid part is, with nothing taken off.
LEMMA UndiscountedOf ==
  ASSUME PriceInv, shares # None
  PROVE  LET a    == charge.amount
             d    == charge.discount
             q    == [charge EXCEPT !.amount = @ + charge.discount, !.discount = 0]
             full == CalculateSplitRules(q, shares.pcts)
             cf   == Smaller(charge.delivery, a + d)
             e    == RoundPct(a + d, shares.pcts.establishment)
             ef   == IF charge.delivery >= a + d THEN 0 ELSE e
         IN  /\ full.establishment = Smaller(ef, a + d - cf)
             /\ full.platform = a + d - cf - full.establishment
<1> DEFINE a    == charge.amount
           d    == charge.discount
           q    == [charge EXCEPT !.amount = @ + charge.discount, !.discount = 0]
           full == CalculateSplitRules(q, shares.pcts)
           cf   == Smaller(charge.delivery, a + d)
           e    == RoundPct(a + d, shares.pcts.establishment)
           ef   == IF charge.delivery >= a + d THEN 0 ELSE e
<1>1. charge \in Payment /\ shares.pcts \in SplitShares
  BY DEF PriceInv, SharesOK, ChargeOK
<1>2. /\ q.amount = a + d /\ q.discount = 0
      /\ q.delivery = charge.delivery /\ q.funder = charge.funder
      /\ a \in Nat /\ d \in Nat /\ charge.delivery \in Nat
  BY <1>1 DEF Payment
<1>3. q.amount \in Nat /\ q.discount \in Nat /\ q.delivery \in Nat
  BY <1>2
<1>4. q.amount + q.discount = a + d
  BY <1>2
<1> HIDE DEF q, a, d
<1> DEFINE asked == IF q.delivery >= q.amount THEN 0
                    ELSE IF q.funder = "establishment" THEN AtLeastZero(e - q.discount) ELSE e
           c == Smaller(q.delivery, q.amount)
<1> HIDE DEF full, asked, c, cf, e, ef
<1>5. c = cf /\ cf \in Nat
  BY <1>2 DEF Smaller, c, cf
<1>6. e \in Nat
  BY <1>1, <1>3, <1>4, SplitOf DEF e
<1>7. asked = ef
  BY <1>2, <1>6 DEF AtLeastZero, asked, ef
<1>8. /\ full.establishment = Smaller(asked, q.amount - c)
      /\ full.platform = q.amount - c - full.establishment
  BY ONLY <1>1, <1>3, <1>4, SplitOf DEF e, full, asked, c
<1>9. /\ full.establishment = Smaller(ef, a + d - cf)
      /\ full.platform = a + d - cf - full.establishment
  <2>1. q.amount - c = a + d - cf
    BY <1>2, <1>5
  <2>2. full.establishment = Smaller(ef, q.amount - c)
    BY ONLY <1>7, <1>8, Zenon
  <2>3. Smaller(ef, q.amount - c) = Smaller(ef, a + d - cf)
    BY ONLY <2>1
  <2>4. ef \in Nat
    BY <1>6 DEF ef
  <2>5. full.establishment \in Int
    BY <1>2, <1>5, <2>2, <2>4 DEF Smaller
  <2>6. full.platform = a + d - cf - full.establishment
    BY <1>2, <1>5, <1>8, <2>5
  <2> QED BY ONLY <2>2, <2>3, <2>6
<1> QED BY <1>9 DEF a, d, q, full, e, cf, ef

LEMMA SettledFunder ==
  ASSUME PriceInv, shares # None
  PROVE  FunderPays
<1> DEFINE q    == [charge EXCEPT !.amount = @ + charge.discount, !.discount = 0]
           full == CalculateSplitRules(q, shares.pcts)
           a    == charge.amount
           d    == charge.discount
           c    == Smaller(charge.delivery, a)
           cf   == Smaller(charge.delivery, a + d)
           e    == RoundPct(a + d, shares.pcts.establishment)
           asked == IF charge.delivery >= a THEN 0
                    ELSE IF charge.funder = "establishment" THEN AtLeastZero(e - d) ELSE e
           ef   == IF charge.delivery >= a + d THEN 0 ELSE e
<1>1. /\ charge \in Payment /\ shares.pcts \in SplitShares
      /\ shares = CalculateSplitRules(charge, shares.pcts)
  BY DEF PriceInv, SharesOK, ChargeOK
<1>2. a \in Nat \ {0} /\ charge.delivery \in Nat /\ d \in Nat
  BY <1>1 DEF Payment
<1>3. /\ e \in Nat
      /\ shares.deliveryman = c
      /\ shares.establishment = Smaller(asked, a - c)
      /\ shares.platform = a - c - shares.establishment
  BY <1>1, <1>2, SplitOf
<1>4. /\ full.establishment = Smaller(ef, a + d - cf)
      /\ full.platform = a + d - cf - full.establishment
  BY UndiscountedOf
<1>5. SUFFICES ASSUME d > 0
               PROVE  IF charge.funder = "establishment"
                      THEN shares.platform >= Smaller(full.platform, a - c)
                      ELSE shares.establishment >= Smaller(full.establishment, a - c)
  BY <1>3 DEF FunderPays
<1> HIDE DEF full, e, a, d
<1>6. CASE charge.funder = "establishment"
  BY <1>2, <1>3, <1>4, <1>5, <1>6 DEF Smaller, AtLeastZero
<1>7. CASE charge.funder # "establishment"
  BY <1>2, <1>3, <1>4, <1>5, <1>7 DEF Smaller, AtLeastZero
<1> QED BY <1>6, <1>7

-----------------------------------------------------------------------------
(* The document keeps what the price promises.                                *)

\* A coupon takes off no less than nothing and, unless it is the one that pays
\* the delivery, no more than the goods.
LEMMA DiscountBounds ==
  ASSUME CouponOK, coupon # None, NEW goods \in Nat, NEW delivery \in Nat
  PROVE  /\ Discount(goods, delivery) \in Nat
         /\ coupon.type # "FREE_DELIVERY" => Discount(goods, delivery) <= goods
         /\ coupon.type = "FREE_DELIVERY" => Discount(goods, delivery) = delivery
<1>1. coupon.type \in Kinds
  BY DEF CouponOK
<1>2. CASE coupon.type = "PERCENTAGE"
  <2>1. Discount(goods, delivery) = RoundPct(goods, coupon.value)
    BY <1>2 DEF Discount
  <2>2. coupon.value \in 1..100
    BY <1>2 DEF CouponOK
  <2>3. coupon.value \in Nat /\ coupon.value \in 0..100
    BY <2>2
  <2> QED BY <1>2, <2>1, <2>3, RoundPctIsNat, RoundPctIsPart
<1>3. CASE coupon.type = "FIXED"
  <2>1. Discount(goods, delivery) = Smaller(coupon.value, goods)
    BY <1>3 DEF Discount
  <2>2. coupon.value \in Nat
    BY <1>3 DEF CouponOK
  <2> QED BY <1>3, <2>1, <2>2 DEF Smaller
<1>4. CASE coupon.type = "FREE_DELIVERY"
  <2>1. Discount(goods, delivery) = delivery
    BY <1>4 DEF Discount
  <2> QED BY <1>4, <2>1
<1> QED BY <1>1, <1>2, <1>3, <1>4 DEF Kinds

\* A base fee is a fee of a valid rule, or the store's.
LEMMA FeeIsNat ==
  ASSUME Rows,
         NEW s \in Stores, NEW cep \in Ceps, NEW base \in BaseFees(s, cep),
         NEW plan, NEW goods \in Nat
  PROVE  DeliveryFee(base, plan, goods) \in Nat
<1>1. base \in Nat
  <2>1. CASE Covering(cep) # {}
    <3>1. PICK r \in regions : base = r.fee
      BY <2>1 DEF BaseFees, Winners, Covering
    <3>2. r.fee \in {r.first, r.last, r.fee, r.priority} /\ r \in RegionForms
      BY DEF Rows
    <3>3. r.fee \in Int
      BY <3>2, PricingAssumption, Zenon
    <3> QED BY <3>1, <3>3 DEF ValidRegion, Rows
  <2>2. CASE Covering(cep) = {}
    <3>1. config[s] # Unset => config[s] \in StoreFees
      BY DEF Rows
    <3>2. StoreFees \subseteq Nat
      BY PricingAssumption, Zenon
    <3>3. base = IF config[s] = Unset THEN 0 ELSE config[s]
      BY <2>2 DEF BaseFees
    <3> QED BY <3>1, <3>2, <3>3
  <2> QED BY <2>1, <2>2
<1> QED BY <1>1 DEF DeliveryFee

-----------------------------------------------------------------------------
(* The invariant.                                                            *)

LEMMA PriceStarts == PricingInit => PriceInv
<1> SUFFICES ASSUME PricingInit PROVE PriceInv
  OBVIOUS
<1>1. Rows
  BY DEF PricingInit, Rows
<1>2. coupon = None /\ charge = None /\ shares = None
  BY DEF PricingInit
<1>3. OrderOK
  <2>1. order = None \/ order \in LegacyOrders
    BY DEF PricingInit
  <2>2. ASSUME order \in LegacyOrders
        PROVE  /\ order.type = "legacy" /\ order.creator = ""
               /\ order.total \in Nat /\ order.discount \in Nat
               /\ order.delivery \in Nat \cup {Unset}
    BY <2>2, PricingAssumption, Zenon
  <2>3. "" \notin Stores
    BY PricingAssumption
  <2> QED BY <2>1, <2>2, <2>3 DEF OrderOK
<1> QED BY <1>1, <1>2, <1>3 DEF PriceInv, CouponOK, ChargeOK, SharesOK

\* Until there is an order, the catalogue may change in any way.
LEMMA CatalogueKeeps == PriceInv /\ Catalogue => PriceInv'
<1> SUFFICES ASSUME PriceInv, Catalogue PROVE PriceInv'
  OBVIOUS
<1>1. Rows'
  <2>1. CASE \E r \in RegionForms : CreateDeliveryRegion(r)
    BY <2>1 DEF CreateDeliveryRegion, PriceInv, Rows, ValidRegion
  <2>2. CASE \E old \in regions, r \in RegionForms : UpdateDeliveryRegion(old, r)
    BY <2>2 DEF UpdateDeliveryRegion, PriceInv, Rows, ValidRegion
  <2>3. CASE \E old \in regions : DeleteDeliveryRegion(old)
    BY <2>3 DEF DeleteDeliveryRegion, PriceInv, Rows, ValidRegion
  <2>4. CASE \E s \in Stores, fee \in StoreFees : InsertDelivery(s, fee)
    BY <2>4 DEF InsertDelivery, PriceInv, Rows, ValidRegion
  <2>5. CASE \/ \E who \in Creators, f \in CouponForms : CreateCoupon(who, f)
             \/ \E who \in Creators : DeactivateCoupon(who)
    BY <2>5 DEF CreateCoupon, DeactivateCoupon, PriceInv, Rows, ValidRegion
  <2> QED BY <2>1, <2>2, <2>3, <2>4, <2>5 DEF Catalogue
<1>2. CouponOK'
  <2>1. CASE UNCHANGED coupon
    BY <2>1 DEF PriceInv, CouponOK
  <2>2. CASE \E who \in Creators : DeactivateCoupon(who)
    BY <2>2 DEF DeactivateCoupon, CouponOK
  <2>3. CASE \E who \in Creators, f \in CouponForms : CreateCoupon(who, f)
    <3>1. PICK who \in Creators, f \in CouponForms : CreateCoupon(who, f)
      BY <2>3
    <3>2. f.type \in Kinds /\ f.value \in Int
      <4>1. f.value \in {f.value, f.min} /\ {f.value, f.min} \subseteq Int
        BY PricingAssumption, Zenon
      <4>2. f.type \in Kinds
        BY PricingAssumption, Zenon DEF Kinds
      <4> QED BY <4>1, <4>2
    <3>3. /\ coupon'.type = f.type /\ coupon'.value = f.value
          /\ coupon'.store = f.store /\ coupon'.creator = who
          /\ coupon'.funder = IF f.funder # "" THEN f.funder
                              ELSE IF who = "admin" THEN "platform" ELSE "establishment"
      BY <3>1 DEF CreateCoupon
    <3>4. /\ f.type = "PERCENTAGE" => f.value \in 1..100
          /\ f.type = "FIXED" => f.value > 0
          /\ who \in {"admin", f.store}
          /\ who # "admin" => f.funder \in {"", "establishment"}
      BY <3>1 DEF CreateCoupon, Creatable
    <3>5. "admin" \notin Stores
      BY PricingAssumption
    <3> QED BY <3>2, <3>3, <3>4, <3>5 DEF CouponOK
  <2> QED
    BY <2>1, <2>2, <2>3 DEF Catalogue, CreateDeliveryRegion, UpdateDeliveryRegion,
                            DeleteDeliveryRegion, InsertDelivery
<1>3. UNCHANGED <<order, charge, shares>>
  BY DEF Catalogue, CreateDeliveryRegion, UpdateDeliveryRegion, DeleteDeliveryRegion,
         InsertDelivery, CreateCoupon, DeactivateCoupon
<1>4. OrderOK' /\ ChargeOK' /\ SharesOK'
  BY <1>3 DEF PriceInv, OrderOK, ChargeOK, SharesOK, FunderOf
<1> QED BY <1>1, <1>2, <1>4 DEF PriceInv

LEMMA OrderingKeeps == PriceInv /\ Ordering => PriceInv'
<1> SUFFICES ASSUME PriceInv,
                    NEW s \in Stores, NEW goods \in MenuValues, NEW cep \in Ceps,
                    NEW plan \in {"none", "basic", "premium"}, NEW withCoupon \in BOOLEAN,
                    CreateOrder(s, goods, cep, plan, withCoupon)
             PROVE  PriceInv'
  BY DEF Ordering
<1>1. PICK base \in BaseFees(s, cep) :
        LET delivery == DeliveryFee(base, plan, goods)
            off      == IF withCoupon THEN Discount(goods, delivery) ELSE 0
        IN  order' = [type |-> "order", store |-> s, delivery |-> delivery,
                      total |-> AtLeastZero(goods + delivery - off),
                      discount |-> off,
                      funder |-> IF off > 0 THEN coupon.funder ELSE "",
                      creator |-> IF off > 0 THEN coupon.creator ELSE "",
                      freight |-> off > 0 /\ coupon.type = "FREE_DELIVERY"]
  BY DEF CreateOrder
<1> DEFINE delivery == DeliveryFee(base, plan, goods)
           off      == IF withCoupon THEN Discount(goods, delivery) ELSE 0
<1> HIDE DEF delivery, off
<1>2. goods \in Nat
  BY PricingAssumption
<1>3. delivery \in Nat
  BY <1>2, FeeIsNat DEF PriceInv, delivery
<1>4. withCoupon => coupon # None /\ coupon.store \in {AnyStore, s}
  BY DEF CreateOrder, Applies
<1>5. /\ off \in Nat
      /\ off > 0 => withCoupon
      /\ off <= goods \/ (off = delivery /\ off > 0 /\ coupon.type = "FREE_DELIVERY")
  <2>1. CASE withCoupon
    <3>1. coupon # None /\ CouponOK /\ off = Discount(goods, delivery)
      BY <2>1, <1>4 DEF PriceInv, off
    <3>2. /\ off \in Nat
          /\ coupon.type # "FREE_DELIVERY" => off <= goods
          /\ coupon.type = "FREE_DELIVERY" => off = delivery
      BY <1>2, <1>3, <3>1, DiscountBounds
    <3> QED BY <1>2, <1>3, <2>1, <3>2
  <2>2. CASE ~withCoupon
    BY <1>2, <2>2 DEF off
  <2> QED BY <2>1, <2>2
<1>6. /\ order'.type = "order" /\ order'.store = s /\ order'.delivery = delivery
      /\ order'.total = AtLeastZero(goods + delivery - off)
      /\ order'.discount = off
      /\ order'.funder = IF off > 0 THEN coupon.funder ELSE ""
      /\ order'.creator = IF off > 0 THEN coupon.creator ELSE ""
      /\ order'.freight = (off > 0 /\ coupon.type = "FREE_DELIVERY")
  BY <1>1 DEF delivery, off
<1>7. order'.total \in Nat /\ (order'.total >= delivery \/ order'.freight)
  <2>1. order'.total = AtLeastZero(goods + delivery - off)
    BY <1>6
  <2>2. order'.total \in Nat
    BY <1>2, <1>3, <1>5, <2>1 DEF AtLeastZero
  <2>3. off <= goods => order'.total >= delivery
    BY <1>2, <1>3, <1>5, <2>1 DEF AtLeastZero
  <2>4. off > 0 /\ coupon.type = "FREE_DELIVERY" => order'.freight
    BY <1>6, Zenon
  <2> QED BY <1>5, <2>2, <2>3, <2>4
<1>8. order'.creator \in Stores =>
        /\ order'.store = order'.creator
        /\ order'.discount > 0 /\ order'.funder = "establishment"
  <2>1. "" \notin Stores /\ AnyStore \notin Stores
    BY PricingAssumption
  <2>2. coupon # None /\ coupon.creator \in Stores =>
          coupon.store = coupon.creator /\ coupon.funder = "establishment"
    BY DEF PriceInv, CouponOK
  <2> QED BY <1>4, <1>5, <1>6, <2>1, <2>2
<1>9. OrderOK'
  BY <1>3, <1>5, <1>6, <1>7, <1>8 DEF OrderOK
<1>10. order = None /\ UNCHANGED <<regions, config, coupon, charge, shares>>
  BY DEF CreateOrder
<1>11. charge = None /\ shares = None
  BY <1>10 DEF PriceInv, ChargeOK, SharesOK
<1> QED BY <1>9, <1>10, <1>11 DEF PriceInv, Rows, ValidRegion, CouponOK, ChargeOK, SharesOK

LEMMA ChargingKeeps == PriceInv /\ order # None /\ Charging => PriceInv'
<1> SUFFICES ASSUME PriceInv, order # None, NEW amount, NEW delivery,
                    NEW mode \in {"custody", "split", "repasse"}, NEW pcts \in SplitShares,
                    CreateCharge(amount, delivery, mode, pcts),
                    amount \in {order.total - 2, order.total - 1, order.total},
                    delivery \in {0, order.total \div 2, order.total - 1, order.total}
                                  \cup ({order.delivery} \ {Unset})
             PROVE  PriceInv'
  BY DEF Charging
<1> DEFINE fixed == IF order.delivery # Unset THEN order.delivery ELSE delivery
           p == [type |-> "charge", amount |-> order.total, mode |-> mode,
                 delivery |-> fixed, discount |-> order.discount,
                 funder |-> FunderOf(order), store |-> order.store, fee |-> 0]
           fee == IF mode = "split" THEN ApplicationFee(p, pcts) ELSE 0
<1>1. /\ order.store \in Stores /\ charge' = [p EXCEPT !.fee = fee]
      /\ order.total > 0 /\ DeliveryOK(delivery)
      /\ charge = None /\ UNCHANGED <<regions, config, coupon, order, shares>>
  BY DEF CreateCharge, AmountOK
<1>2. order.total \in Nat /\ order.discount \in Nat /\ order.delivery \in Nat \cup {Unset}
  BY DEF PriceInv, OrderOK
<1>3. fixed \in Nat /\ (order.discount = 0 => fixed < order.total)
  <2>1. delivery \in Int
    <3>1. order.total - 2 \in Int /\ order.total - 1 \in Int /\ order.total \div 2 \in Int
      BY <1>2
    <3> QED BY <1>2, <3>1
  <2> QED BY <1>1, <1>2, <2>1 DEF DeliveryOK
<1>4. FunderOf(order) \in {"", "platform", "establishment"}
  BY DEF FunderOf
<1> HIDE DEF fixed
<1>5. /\ p.amount = order.total /\ p.delivery = fixed /\ p.discount = order.discount
      /\ p.amount \in Nat /\ p.delivery \in Nat /\ p.discount \in Nat
  BY <1>2, <1>3
<1>6. fee \in Nat /\ (mode = "split" => fee >= Smaller(fixed, order.total))
  <2> HIDE DEF p
  <2>1. CASE mode = "split"
    <3> DEFINE c == Smaller(p.delivery, p.amount)
               est == CalculateSplitRules(p, pcts).establishment
    <3>1. PICK asked \in Nat : est = Smaller(asked, p.amount - c)
      BY <1>5, SplitOf
    <3>2. c \in Nat /\ c <= p.amount
      BY <1>5 DEF Smaller
    <3> HIDE DEF c, est
    <3>3. est \in Nat /\ est <= p.amount - c
      BY <1>5, <3>1, <3>2 DEF Smaller
    <3>4. fee = AtLeastZero(p.amount - est)
      BY <2>1 DEF ApplicationFee, est
    <3>5. fee \in Nat /\ fee >= c
      BY <1>5, <3>2, <3>3, <3>4 DEF AtLeastZero
    <3> QED BY <1>5, <3>5 DEF c
  <2>2. CASE mode # "split"
    BY <2>2
  <2> QED BY <2>1, <2>2
<1> HIDE DEF fee
<1>7. /\ charge' \in Payment /\ charge'.amount = order.total /\ charge'.delivery = fixed
      /\ charge'.discount = order.discount /\ charge'.funder = FunderOf(order)
      /\ charge'.mode = mode /\ charge'.fee = fee
  <2>1. charge' = [type |-> "charge", amount |-> order.total, mode |-> mode,
                   delivery |-> fixed, discount |-> order.discount,
                   funder |-> FunderOf(order), store |-> order.store, fee |-> fee]
    BY <1>1
  <2>2. order.total \in Nat \ {0}
    BY <1>1, <1>2
  <2> QED BY <1>1, <1>2, <1>3, <1>4, <1>6, <2>1, <2>2 DEF Payment
<1>8. ChargeOK'
  BY <1>1, <1>3, <1>6, <1>7 DEF ChargeOK, FunderOf
<1>9. shares = None
  BY <1>1 DEF PriceInv, SharesOK
<1> QED BY <1>1, <1>8, <1>9 DEF PriceInv, Rows, ValidRegion, CouponOK, OrderOK, SharesOK

LEMMA SettlingKeeps == PriceInv /\ Settling => PriceInv'
<1> SUFFICES ASSUME PriceInv, NEW pcts \in SplitShares, Settle(pcts)
             PROVE  PriceInv'
  BY DEF Settling
<1>1. /\ charge # None /\ shares' = CalculateSplitRules(charge, pcts)
      /\ UNCHANGED <<regions, config, coupon, order, charge>>
  BY DEF Settle
<1>2. shares'.pcts = pcts
  BY <1>1 DEF CalculateSplitRules
<1>3. SharesOK'
  <2>1. CalculateSplitRules(charge, pcts)' = CalculateSplitRules(charge, pcts)
    BY <1>1
  <2> QED BY <1>1, <1>2, <2>1 DEF SharesOK
<1> QED BY <1>1, <1>3 DEF PriceInv, Rows, ValidRegion, CouponOK, OrderOK, ChargeOK, FunderOf

\* Whatever the prices, the coupon, the percentages and the order in which an
\* admin, a store and a customer act, the parts make up the payment: nothing is
\* lost or credited twice, who offers the coupon pays for it, no payment goes
\* whole to a courier and what is held back at the origin covers him
\* (split_calculator.go, order_total.go).
THEOREM PricingCorrect == PricingSpec => []PricingInv
<1>1. PriceInv => PricingInv
  <2> SUFFICES ASSUME PriceInv PROVE PricingInv
    OBVIOUS
  <2>1. PricingTypeOK
    BY DEF PriceInv, Rows, ChargeOK, SharesOK, Payment, PricingTypeOK
  <2>2. SharesMakeThePayment /\ NoDiversion /\ OriginFeeCoversCourier
    BY SettledShares DEF SharesMakeThePayment, NoDiversion, OriginFeeCoversCourier
  <2>3. FunderPays
    BY SettledFunder DEF FunderPays
  <2>4. StorePromotionStaysHome
    <3>1. SUFFICES ASSUME order # None, order.creator \in Stores
                   PROVE  /\ order.store = order.creator
                          /\ charge # None => charge.funder = "establishment"
      BY DEF StorePromotionStaysHome
    <3>2. /\ order.store = order.creator
          /\ order.discount \in Nat /\ order.discount > 0 /\ order.funder = "establishment"
      BY <3>1 DEF PriceInv, OrderOK
    <3>3. FunderOf(order) = "establishment"
      BY <3>2 DEF FunderOf
    <3> QED BY <3>2, <3>3 DEF PriceInv, ChargeOK
  <2>5. CourierIsCovered
    BY DEF PriceInv, OrderOK, CourierIsCovered, None
  <2> QED BY <2>1, <2>2, <2>3, <2>4, <2>5 DEF PricingInv
<1>2. PriceInv /\ [PricingNext]_pricingVars => PriceInv'
  <2>1. PriceInv /\ UNCHANGED pricingVars => PriceInv'
    BY DEF pricingVars, PriceInv, Rows, ValidRegion, CouponOK, OrderOK, ChargeOK, SharesOK,
           FunderOf
  <2> QED BY <2>1, CatalogueKeeps, OrderingKeeps, ChargingKeeps, SettlingKeeps DEF PricingNext
<1> QED BY PriceStarts, <1>1, <1>2, PTL DEF PricingSpec

-----------------------------------------------------------------------------
(* Coupons, referrals and the history of points.  The limits of a coupon say     *)
(* nothing of who is about to use it, return it or be rewarded for it; the        *)
(* invariant says for each request, by where it stands, which uses it can have.   *)

Early == {"unborn", "resolve", "count", "create", "validate", "consume"}
OwnUses(r) == {s \in usages \ byHand : s.order = r}

IsCoupon(c) ==
  /\ c = [max |-> c.max, perUser |-> c.perUser, owner |-> c.owner, used |-> c.used, active |-> c.active]
  /\ c.max \in Nat /\ c.perUser \in Nat /\ c.used \in Nat /\ c.active \in BOOLEAN
IsRequest(q) == q = [pc |-> q.pc, user |-> q.user, code |-> q.code, order |-> q.order, status |-> q.status]
IsUse(s) ==
  /\ s = [coupon |-> s.coupon, user |-> s.user, order |-> s.order]
  /\ s.coupon \in DOMAIN coupons /\ s.order \in Requests /\ s.user \in Users

\* A coupon that is retired keeps a counter that may be stale, and no new uses.
Within(c) ==
  /\ coupons[c].active => /\ coupons[c].used >= Cardinality(UsesOf(c))
                          /\ c \notin overcleared => coupons[c].used = Cardinality(UsesOf(c))
  /\ coupons[c].max > 0 => Cardinality(UsesOf(c)) <= coupons[c].max
  /\ coupons[c].perUser > 0 => \A u \in Users : Cardinality(UsesBy(c, u)) <= coupons[c].perUser

CouponsInv ==
  /\ coupons = [c \in DOMAIN coupons |-> coupons[c]]
  /\ \A c \in DOMAIN coupons : IsCoupon(coupons[c]) /\ Within(c)
  /\ IsFiniteSet(usages) /\ \A s \in usages : IsUse(s)
  /\ byHand \subseteq usages
  /\ copy # NoCopy => copy.code \in DOMAIN coupons /\ copy.used \in Nat

\* The uses a request can have of its own, and what was looked up for it.
RequestOK(r) ==
  /\ req[r].pc # "unborn" => req[r].user \in Users
  /\ req[r].pc \in {"count", "create"} => req[r].user # Friend
  /\ req[r].pc \in {"validate", "consume"} => req[r].code # NoCode
  /\ req[r].pc = "consume" => req[r].code \in DOMAIN coupons
  /\ req[r].pc \in Early \cup {"save", "release"} => req[r].status = "none"
  /\ req[r].pc \in {"saved", "notify", "reward", "return"} => req[r].status # "none"
  /\ req[r].pc = "reward" => req[r].status = "FINISHED"
  /\ req[r].pc \in {"reward", "return"} => req[r].user \in DOMAIN referrals
  /\ req[r].pc \in Early \/ (req[r].pc = "save" /\ req[r].code = NoCode) => OwnUses(r) = {}
  /\ req[r].status = "none" => \A s \in OwnUses(r) : s.coupon = req[r].code
  /\ req[r].status = "none" /\ faults = 0 /\ OwnUses(r) # {} => req[r].pc \in {"save", "release"}

RequestsInv ==
  /\ req = [r \in Requests |-> req[r]] /\ faults \in Nat
  /\ \A r \in Requests : IsRequest(req[r]) /\ RequestOK(r)

\* Each welcome coupon has its referral, and redeemed coupons are numbered.
ReferralsInv ==
  /\ referrals = [u \in DOMAIN referrals |-> referrals[u]]
  /\ DOMAIN referrals \subseteq Users \ {Friend}
  /\ \A u \in Users : Welcome(u) \in DOMAIN coupons <=> u \in DOMAIN referrals
  /\ IsFiniteSet(cashback) /\ \A b \in cashback : b.code \in DOMAIN coupons
  /\ \A n \in Nat : <<"cashback", n>> \in DOMAIN coupons => n <= Cardinality(cashback)

PerkInv == CouponsInv /\ RequestsInv /\ ReferralsInv

-----------------------------------------------------------------------------
(* Uses: none is added but by Use, and none goes but by ReleaseCoupon.           *)

LEMMA UsesFinite ==
  ASSUME CouponsInv, NEW c, NEW u
  PROVE  /\ IsFiniteSet(UsesOf(c)) /\ Cardinality(UsesOf(c)) \in Nat
         /\ IsFiniteSet(UsesBy(c, u)) /\ Cardinality(UsesBy(c, u)) \in Nat
<1>1. IsFiniteSet(UsesOf(c))
  BY FS_Subset DEF CouponsInv, UsesOf
<1>2. IsFiniteSet(UsesBy(c, u))
  BY <1>1, FS_Subset DEF UsesBy
<1> QED  BY <1>1, <1>2, FS_CardinalityType

LEMMA CouponsStay ==
  ASSUME CouponsInv, UNCHANGED <<coupons, usages, byHand, overcleared>>,
         copy' # NoCopy => copy'.code \in DOMAIN coupons /\ copy'.used \in Nat
  PROVE  CouponsInv'
<1>1. \A s \in usages' : IsUse(s)'
  BY DEF CouponsInv, IsUse
<1>2. \A c \in DOMAIN coupons' : IsCoupon(coupons'[c]) /\ Within(c)'
  BY DEF CouponsInv, Within, UsesOf, UsesBy
<1> QED  BY <1>1, <1>2 DEF CouponsInv

\* What is true of a coupon when its uses are fewer and its counter follows them.
LEMMA WithinFewer ==
  ASSUME CouponsInv, IsFiniteSet(usages'), NEW c \in DOMAIN coupons, c \in DOMAIN coupons',
         UsesOf(c)' \subseteq UsesOf(c),
         coupons'[c].max = coupons[c].max, coupons'[c].perUser = coupons[c].perUser,
         coupons'[c].active => /\ coupons'[c].used >= Cardinality(UsesOf(c)')
                               /\ c \notin overcleared' => coupons'[c].used = Cardinality(UsesOf(c)')
  PROVE  Within(c)'
<1>1. Cardinality(UsesOf(c)') <= Cardinality(UsesOf(c)) /\ Cardinality(UsesOf(c)') \in Nat
  BY UsesFinite, FS_Subset, FS_CardinalityType
<1>2. ASSUME NEW u
      PROVE  Cardinality(UsesBy(c, u)') <= Cardinality(UsesBy(c, u)) /\ Cardinality(UsesBy(c, u)') \in Nat
  <2>1. UsesBy(c, u)' \subseteq UsesBy(c, u)
    BY DEF UsesBy
  <2> QED  BY <2>1, UsesFinite, FS_Subset, FS_CardinalityType
<1>3. Within(c) /\ IsCoupon(coupons[c]) /\ Cardinality(UsesOf(c)) \in Nat
  BY UsesFinite DEF CouponsInv
<1>4. coupons[c].max \in Nat /\ coupons[c].perUser \in Nat
  BY <1>3 DEF IsCoupon
<1>5. coupons'[c].max > 0 => Cardinality(UsesOf(c)') <= coupons'[c].max
  BY <1>1, <1>3, <1>4 DEF Within
<1>6. coupons'[c].perUser > 0 => \A u \in Users : Cardinality(UsesBy(c, u)') <= coupons'[c].perUser
  BY <1>2, <1>3, <1>4, UsesFinite DEF Within
<1> QED  BY <1>5, <1>6 DEF Within

LEMMA UseKeeps ==
  ASSUME CouponsInv, UNCHANGED <<copy, overcleared>>,
         NEW code \in DOMAIN coupons, NEW u \in Users, NEW r \in Requests, Use(code, u, r),
         UseOf(code, u, r) \notin usages, byHand' \in {byHand, byHand \cup {UseOf(code, u, r)}},
         coupons[code].active, coupons[code].max > 0 => coupons[code].used < coupons[code].max,
         coupons[code].perUser > 0 => Cardinality(UsesBy(code, u)) < coupons[code].perUser
  PROVE  CouponsInv' /\ DOMAIN coupons' = DOMAIN coupons
<1> DEFINE use == UseOf(code, u, r)
<1>1. PICK doc : doc = [coupons[code] EXCEPT !.used = @ + 1]
  OBVIOUS
<1>2. /\ coupons' = [coupons EXCEPT ![code] = doc] /\ usages' = usages \cup {use}
      /\ use \notin usages /\ use.coupon = code /\ use.user = u /\ use.order = r
      /\ byHand' \subseteq usages'
  BY <1>1 DEF Use, UseOf, CouponsInv
<1> HIDE DEF use
<1>3. /\ DOMAIN coupons' = DOMAIN coupons /\ coupons' = [c \in DOMAIN coupons' |-> coupons'[c]]
      /\ coupons'[code] = doc /\ \A c \in DOMAIN coupons : c # code => coupons'[c] = coupons[c]
  BY <1>2 DEF CouponsInv
<1>4. IsFiniteSet(usages')
  BY <1>2, FS_AddElement DEF CouponsInv
<1>5. \A s \in usages' : IsUse(s)'
  <2>1. \A s \in usages : IsUse(s)'
    BY <1>3 DEF CouponsInv, IsUse
  <2>2. use = [coupon |-> use.coupon, user |-> use.user, order |-> use.order]
    BY DEF use, UseOf
  <2> QED  BY <1>2, <1>3, <2>1, <2>2 DEF IsUse
<1>6. ASSUME NEW c \in DOMAIN coupons, c # code PROVE IsCoupon(coupons'[c]) /\ Within(c)'
  <2>1. UsesOf(c)' = UsesOf(c)
    BY <1>2, <1>6 DEF UsesOf
  <2>2. Within(c) /\ IsCoupon(coupons[c])
    BY DEF CouponsInv
  <2> QED  BY <1>3, <1>4, <1>6, <2>1, <2>2, WithinFewer DEF Within
<1>7. IsCoupon(doc) /\ doc.max = coupons[code].max /\ doc.perUser = coupons[code].perUser
      /\ doc.used = coupons[code].used + 1
  <2>1. IsCoupon(coupons[code])
    BY DEF CouponsInv
  <2>2. doc = [max |-> coupons[code].max, perUser |-> coupons[code].perUser, owner |-> coupons[code].owner,
               used |-> coupons[code].used + 1, active |-> coupons[code].active]
    BY <1>1, <2>1 DEF IsCoupon
  <2> QED  BY <2>1, <2>2 DEF IsCoupon
<1>8. Within(code)'
  <2>1. UsesOf(code)' = UsesOf(code) \cup {use} /\ use \notin UsesOf(code)
    BY <1>2 DEF UsesOf
  <2>2. Cardinality(UsesOf(code)') = Cardinality(UsesOf(code)) + 1
    BY <2>1, UsesFinite, FS_AddElement
  <2>3. Within(code) /\ IsCoupon(coupons[code]) /\ Cardinality(UsesOf(code)) \in Nat
    BY UsesFinite DEF CouponsInv
  <2>4. /\ coupons[code].used >= Cardinality(UsesOf(code))
        /\ code \notin overcleared' => coupons[code].used = Cardinality(UsesOf(code))
    BY <2>3 DEF Within
  <2>5. ASSUME coupons[code].perUser > 0, NEW v \in Users
        PROVE  Cardinality(UsesBy(code, v)') <= coupons[code].perUser
    <3>1. /\ coupons[code].perUser \in Nat /\ Cardinality(UsesBy(code, v)) \in Nat
          /\ Cardinality(UsesBy(code, v)) <= coupons[code].perUser
      BY <2>3, <2>5, UsesFinite DEF Within, IsCoupon
    <3>2. CASE v = u
      <4>1. UsesBy(code, u)' = UsesBy(code, u) \cup {use} /\ use \notin UsesBy(code, u)
        BY <1>2, <2>1 DEF UsesBy
      <4>2. Cardinality(UsesBy(code, u)') = Cardinality(UsesBy(code, u)) + 1
        BY <4>1, UsesFinite, FS_AddElement
      <4> QED  BY <2>5, <3>1, <3>2, <4>2
    <3>3. CASE v # u
      <4>1. UsesBy(code, v)' = UsesBy(code, v)
        BY <1>2, <2>1, <3>3 DEF UsesBy
      <4> QED  BY <3>1, <4>1
    <3> QED  BY <3>2, <3>3
  <2>6. coupons[code].max \in Nat /\ coupons[code].used \in Nat
    BY <2>3 DEF IsCoupon
  <2> QED  BY <1>3, <1>7, <2>2, <2>3, <2>4, <2>5, <2>6 DEF Within
<1>9. \A c \in DOMAIN coupons' : IsCoupon(coupons'[c]) /\ Within(c)'
  BY <1>3, <1>6, <1>7, <1>8
<1> QED  BY <1>2, <1>3, <1>4, <1>5, <1>9 DEF CouponsInv

\* However many uses are deleted, one is counted down, and no more than there are.
LEMMA ReleaseKeeps ==
  ASSUME CouponsInv, UNCHANGED copy, NEW code, NEW r \in Requests, ReleaseCoupon(code, r)
  PROVE  CouponsInv' /\ DOMAIN coupons' = DOMAIN coupons
<1>1. PICK these : these = UsesFor(code, r)
  OBVIOUS
<1>2. /\ usages' = usages \ these /\ byHand' = byHand \ these
      /\ overcleared' = overcleared \cup {c \in {code} : Cardinality(these) > 1}
      /\ coupons' = IF these # {} /\ coupons[code].used > 0
                      THEN [coupons EXCEPT ![code].used = @ - 1] ELSE coupons
  BY <1>1 DEF ReleaseCoupon, Cleared
<1>3. these \subseteq usages /\ \A s \in these : s.coupon = code
  BY <1>1 DEF UsesFor
<1>4. \A s \in usages : s.coupon = code /\ s.order = r => s \in these
  BY <1>1 DEF UsesFor
<1>5. IsFiniteSet(usages') /\ usages' \subseteq usages /\ byHand' \subseteq usages'
  BY <1>2, FS_Subset DEF CouponsInv
<1>6. \A c : c # code => UsesOf(c)' = UsesOf(c) /\ (c \in overcleared' <=> c \in overcleared)
  BY <1>2, <1>3 DEF UsesOf
<1>7. \A c : UsesOf(c)' \subseteq UsesOf(c)
  BY <1>5 DEF UsesOf
<1>8. CASE these = {}
  <2>1. Cardinality(these) = 0
    BY <1>8, FS_EmptySet
  <2>2. usages' = usages /\ coupons' = coupons /\ byHand' = byHand /\ overcleared' = overcleared
    BY <1>2, <1>8, <2>1
  <2> QED  BY <2>2, CouponsStay DEF CouponsInv
<1>9. CASE these # {}
  <2>1. PICK use : use \in these
    BY <1>9
  <2>2. use \in usages /\ use.coupon = code /\ code \in DOMAIN coupons
    BY <1>3, <2>1 DEF CouponsInv, IsUse
  <2>3. UsesOf(code)' = UsesOf(code) \ these /\ these \subseteq UsesOf(code) /\ IsFiniteSet(UsesOf(code))
    BY <1>2, <1>3, UsesFinite DEF UsesOf
  <2>4. /\ IsFiniteSet(these) /\ Cardinality(these) \in Nat /\ Cardinality(these) # 0
    BY <1>9, <2>3, FS_Subset, FS_CardinalityType, FS_EmptySet
  <2>5. /\ Cardinality(UsesOf(code)') = Cardinality(UsesOf(code)) - Cardinality(these)
        /\ Cardinality(UsesOf(code)) \in Nat /\ Cardinality(UsesOf(code)') \in Nat
    <3>1. IsFiniteSet(UsesOf(code) \ these)
      BY <2>3, FS_Subset
    <3>2. Cardinality(UsesOf(code) \ these) \in Nat /\ Cardinality(UsesOf(code)) \in Nat
      BY <2>3, <3>1, FS_CardinalityType
    <3>3. Cardinality(UsesOf(code) \ these) = Cardinality(UsesOf(code)) - Cardinality(UsesOf(code) \cap these)
      BY <2>3, FS_Difference
    <3>4. UsesOf(code) \cap these = these
      BY <2>3
    <3> QED  BY <2>3, <3>2, <3>3, <3>4
  <2>6. code \notin overcleared' => Cardinality(these) = 1 /\ code \notin overcleared
    BY <1>2, <2>4
  <2>7. Within(code) /\ IsCoupon(coupons[code])
    BY <2>2 DEF CouponsInv
  <2>8. coupons[code].active => coupons[code].used >= Cardinality(UsesOf(code))
    BY <2>7 DEF Within
  <2>9. coupons[code].active /\ code \notin overcleared' => coupons[code].used = Cardinality(UsesOf(code))
    BY <2>6, <2>7 DEF Within
  <2>10. CASE coupons[code].used > 0
    <3>1. PICK doc : doc = [coupons[code] EXCEPT !.used = @ - 1]
      OBVIOUS
    <3>2. coupons' = [coupons EXCEPT ![code] = doc]
      BY <1>2, <1>9, <2>10, <3>1
    <3>3. /\ DOMAIN coupons' = DOMAIN coupons /\ coupons' = [c \in DOMAIN coupons' |-> coupons'[c]]
          /\ coupons'[code] = doc /\ \A c \in DOMAIN coupons : c # code => coupons'[c] = coupons[c]
      BY <2>2, <3>2 DEF CouponsInv
    <3>4. /\ IsCoupon(doc) /\ doc.max = coupons[code].max /\ doc.perUser = coupons[code].perUser
          /\ doc.used = coupons[code].used - 1 /\ doc.active = coupons[code].active
      <4>1. doc = [max |-> coupons[code].max, perUser |-> coupons[code].perUser, owner |-> coupons[code].owner,
                   used |-> coupons[code].used - 1, active |-> coupons[code].active]
        BY <2>7, <3>1 DEF IsCoupon
      <4> QED  BY <2>7, <2>10, <4>1 DEF IsCoupon
    <3>5. Within(code)'
      <4>1. coupons[code].used \in Nat
        BY <2>7 DEF IsCoupon
      <4>2. coupons'[code].active => coupons'[code].used >= Cardinality(UsesOf(code)')
        BY <2>4, <2>5, <2>8, <3>3, <3>4, <4>1
      <4>3. coupons'[code].active /\ code \notin overcleared' => coupons'[code].used = Cardinality(UsesOf(code)')
        BY <2>4, <2>5, <2>6, <2>9, <3>3, <3>4, <4>1
      <4> QED  BY <1>5, <1>7, <2>2, <3>3, <3>4, <4>2, <4>3, WithinFewer
    <3>6. ASSUME NEW c \in DOMAIN coupons, c # code PROVE IsCoupon(coupons'[c]) /\ Within(c)'
      <4>1. Within(c) /\ IsCoupon(coupons[c]) /\ coupons'[c] = coupons[c]
        BY <3>3, <3>6 DEF CouponsInv
      <4>2. UsesOf(c)' = UsesOf(c) /\ (c \in overcleared' <=> c \in overcleared)
        BY <1>6, <3>6
      <4> QED  BY <4>1, <4>2 DEF Within, UsesBy
    <3>7. \A s \in usages' : IsUse(s)'
      BY <1>5, <3>3 DEF CouponsInv, IsUse
    <3>8. \A c \in DOMAIN coupons' : IsCoupon(coupons'[c]) /\ Within(c)'
      BY <3>3, <3>4, <3>5, <3>6
    <3> QED  BY <1>5, <3>3, <3>7, <3>8 DEF CouponsInv
  <2>11. CASE ~(coupons[code].used > 0)
    <3>1. coupons' = coupons
      BY <1>2, <2>11
    <3>2. ~coupons[code].active
      <4>1. coupons[code].used = 0
        BY <2>7, <2>11 DEF IsCoupon
      <4>2. Cardinality(UsesOf(code)) # 0
        BY <2>4, <2>5
      <4> QED  BY <2>5, <2>8, <4>1, <4>2
    <3>3. ASSUME NEW c \in DOMAIN coupons PROVE IsCoupon(coupons'[c]) /\ Within(c)'
      <4>1. Within(c) /\ IsCoupon(coupons[c])
        BY DEF CouponsInv
      <4>2. coupons[c].active => /\ coupons[c].used >= Cardinality(UsesOf(c)')
                                 /\ c \notin overcleared' => coupons[c].used = Cardinality(UsesOf(c)')
        BY <1>6, <3>2, <4>1 DEF Within
      <4> QED  BY <1>5, <1>7, <3>1, <4>1, <4>2, WithinFewer
    <3>4. \A s \in usages' : IsUse(s)'
      BY <1>5, <3>1 DEF CouponsInv, IsUse
    <3> QED  BY <1>5, <3>1, <3>3, <3>4 DEF CouponsInv
  <2> QED  BY <2>10, <2>11
<1> QED  BY <1>8, <1>9

LEMMA AddKeeps ==
  ASSUME CouponsInv, UNCHANGED <<usages, byHand, overcleared, copy>>, NEW code, code \notin DOMAIN coupons,
         NEW max \in Nat, NEW perUser \in Nat, NEW u, coupons' = Add(coupons, code, NewCoupon(max, perUser, u))
  PROVE  CouponsInv' /\ DOMAIN coupons' = DOMAIN coupons \cup {code}
<1>1. PICK doc : doc = NewCoupon(max, perUser, u)
  OBVIOUS
<1>2. /\ DOMAIN coupons' = DOMAIN coupons \cup {code} /\ coupons' = [c \in DOMAIN coupons' |-> coupons'[c]]
      /\ coupons'[code] = doc /\ \A c \in DOMAIN coupons : coupons'[c] = coupons[c]
  BY <1>1 DEF Add
<1>3. IsCoupon(doc) /\ doc.used = 0
  BY <1>1 DEF NewCoupon, IsCoupon
<1>4. Within(code)'
  <2>1. UsesOf(code) = {}
    BY DEF UsesOf, CouponsInv, IsUse
  <2>2. UsesOf(code)' = {} /\ \A v : UsesBy(code, v)' = {}
    BY <2>1 DEF UsesOf, UsesBy
  <2>3. Cardinality(UsesOf(code)') = 0 /\ \A v : Cardinality(UsesBy(code, v)') = 0
    BY <2>2, FS_EmptySet
  <2>4. doc.max \in Nat /\ doc.perUser \in Nat
    BY <1>3 DEF IsCoupon
  <2> QED  BY <1>2, <1>3, <2>3, <2>4 DEF Within
<1>5. \A c \in DOMAIN coupons : IsCoupon(coupons'[c]) /\ Within(c)'
  BY <1>2 DEF CouponsInv, Within, UsesOf, UsesBy
<1>6. \A c \in DOMAIN coupons' : IsCoupon(coupons'[c]) /\ Within(c)'
  BY <1>2, <1>3, <1>4, <1>5
<1>7. \A s \in usages' : IsUse(s)'
  BY <1>2 DEF CouponsInv, IsUse
<1> QED  BY <1>2, <1>6, <1>7 DEF CouponsInv

LEMMA RetireKeeps ==
  ASSUME CouponsInv, UNCHANGED <<usages, byHand, overcleared>>, SaveDeleted
  PROVE  CouponsInv' /\ DOMAIN coupons' = DOMAIN coupons
<1>1. PICK code : code = copy.code
  OBVIOUS
<1>2. PICK used : used = copy.used
  OBVIOUS
<1>3. PICK doc : doc = [[coupons[code] EXCEPT !.used = used] EXCEPT !.active = FALSE]
  OBVIOUS
<1>4. code \in DOMAIN coupons /\ used \in Nat /\ copy' = NoCopy
  BY <1>1, <1>2 DEF SaveDeleted, CouponsInv
<1>5. coupons' = [[coupons EXCEPT ![code].used = used] EXCEPT ![code].active = FALSE]
  BY <1>1, <1>2 DEF SaveDeleted
<1>6. /\ DOMAIN coupons' = DOMAIN coupons /\ coupons' = [c \in DOMAIN coupons' |-> coupons'[c]]
      /\ coupons'[code] = doc /\ \A c \in DOMAIN coupons : c # code => coupons'[c] = coupons[c]
  BY <1>3, <1>4, <1>5 DEF CouponsInv
<1>7. IsCoupon(doc) /\ doc.max = coupons[code].max /\ doc.perUser = coupons[code].perUser /\ ~doc.active
  <2>1. IsCoupon(coupons[code])
    BY <1>4 DEF CouponsInv
  <2>2. doc = [max |-> coupons[code].max, perUser |-> coupons[code].perUser, owner |-> coupons[code].owner,
               used |-> used, active |-> FALSE]
    BY <1>3, <2>1 DEF IsCoupon
  <2> QED  BY <1>4, <2>1, <2>2 DEF IsCoupon
<1>8. Within(code)'
  BY <1>4, <1>6, <1>7, WithinFewer DEF CouponsInv, UsesOf
<1>9. \A c \in DOMAIN coupons : c # code => IsCoupon(coupons'[c]) /\ Within(c)'
  BY <1>6 DEF CouponsInv, Within, UsesOf, UsesBy
<1>10. \A c \in DOMAIN coupons' : IsCoupon(coupons'[c]) /\ Within(c)'
  BY <1>6, <1>7, <1>8, <1>9
<1>11. \A s \in usages' : IsUse(s)'
  BY <1>6 DEF CouponsInv, IsUse
<1> QED  BY <1>4, <1>6, <1>10, <1>11 DEF CouponsInv

-----------------------------------------------------------------------------
(* Requests: a step is one request's, and what it does leaves the others as they  *)
(* are.                                                                          *)

Moves(r) ==
  /\ IsRequest(req'[r]) /\ req' = [o \in Requests |-> IF o = r THEN req'[r] ELSE req[o]]
  /\ req[r].pc # "unborn" => req'[r].user = req[r].user
  /\ req[r].status = "FINISHED" => req'[r].status = "FINISHED"

Sees(r, pc) ==
  /\ req'[r].pc = pc /\ req'[r].user = req[r].user /\ req'[r].code = req[r].code
  /\ req'[r].status = req[r].status

LEMMA GotoMoves ==
  ASSUME RequestsInv, NEW r \in Requests, NEW pc, Goto(r, pc)
  PROVE  Moves(r) /\ Sees(r, pc)
<1>1. PICK q : q = [req[r] EXCEPT !.pc = pc]
  OBVIOUS
<1>2. IsRequest(req[r])
  BY DEF RequestsInv
<1>3. q = [pc |-> pc, user |-> req[r].user, code |-> req[r].code, order |-> req[r].order,
           status |-> req[r].status]
  BY <1>1, <1>2 DEF IsRequest
<1>4. req' = [req EXCEPT ![r] = q]
  BY <1>1 DEF Goto
<1>5. req'[r] = q
  BY <1>4 DEF RequestsInv
<1> QED  BY <1>3, <1>4, <1>5 DEF Moves, Sees, IsRequest, RequestsInv

\* An order that was delivered stays so, and its customer's.
OrdersStay == \A o \in Requests : req[o].status = "FINISHED" =>
                req'[o].status = "FINISHED" /\ req'[o].user = req[o].user

LEMMA MovesOrders ==
  ASSUME RequestsInv, NEW r \in Requests, Moves(r)
  PROVE  OrdersStay
<1>1. \A o \in Requests : req[o].status = "FINISHED" => req[o].pc # "unborn"
  BY DEF RequestsInv, RequestOK, Early
<1> QED  BY <1>1 DEF OrdersStay, Moves

LEMMA RequestStays ==
  ASSUME NEW o, RequestOK(o), req'[o] = req[o], OwnUses(o)' \subseteq OwnUses(o),
         DOMAIN coupons \subseteq DOMAIN coupons', DOMAIN referrals \subseteq DOMAIN referrals',
         faults' = 0 => faults = 0
  PROVE  RequestOK(o)'
<1>1. OwnUses(o) = {} => OwnUses(o)' = {}
  OBVIOUS
<1> QED  BY <1>1 DEF RequestOK

LEMMA RequestsKeep ==
  ASSUME RequestsInv, NEW r \in Requests, Moves(r), RequestOK(r)',
         DOMAIN coupons \subseteq DOMAIN coupons', DOMAIN referrals \subseteq DOMAIN referrals',
         faults' \in {faults, faults + 1},
         \A s \in usages' \ byHand' : s \in usages \ byHand \/ s.order = r
  PROVE  RequestsInv'
<1>1. faults' \in Nat /\ (faults' = 0 => faults = 0)
  BY DEF RequestsInv
<1>2. ASSUME NEW o \in Requests, o # r PROVE IsRequest(req'[o]) /\ RequestOK(o)'
  <2>1. req'[o] = req[o] /\ IsRequest(req[o]) /\ RequestOK(o)
    BY <1>2 DEF Moves, RequestsInv
  <2>2. OwnUses(o)' \subseteq OwnUses(o)
    BY <1>2 DEF OwnUses
  <2> QED  BY <1>1, <2>1, <2>2, RequestStays
<1>3. \A o \in Requests : IsRequest(req'[o]) /\ RequestOK(o)'
  BY <1>2 DEF Moves
<1> QED  BY <1>1, <1>3 DEF Moves, RequestsInv

\* A request that goes on and changes no table.
LEMMA MoveKeeps ==
  ASSUME PerkInv, NEW r \in Requests, Moves(r), RequestOK(r)',
         UNCHANGED <<coupons, usages, byHand, overcleared, copy, cashback>>,
         referrals' = [u \in DOMAIN referrals |-> referrals'[u]], faults' \in {faults, faults + 1}
  PROVE  PerkInv' /\ OrdersStay
<1>2. CouponsInv'
  BY CouponsStay DEF PerkInv, CouponsInv
<1>3. RequestsInv'
  BY RequestsKeep DEF PerkInv
<1>4. ReferralsInv'
  <2>1. DOMAIN referrals' = DOMAIN referrals
    OBVIOUS
  <2> QED  BY <2>1 DEF PerkInv, ReferralsInv
<1> QED  BY <1>2, <1>3, <1>4, MovesOrders DEF PerkInv

Kept == /\ UNCHANGED <<coupons, usages, byHand, overcleared, copy, cashback>> /\ faults' \in {faults, faults + 1}
        /\ referrals' = [u \in DOMAIN referrals |-> referrals'[u]]

LEMMA RequestedKeeps ==
  ASSUME PerkInv, UNCHANGED cashback, NEW r \in Requests, NEW u \in Users, NEW code, NEW isOrder \in BOOLEAN,
         Request(r, u, code, isOrder)
  PROVE  PerkInv' /\ OrdersStay
<1>1. Kept
  BY DEF Request, Kept, PerkInv, ReferralsInv
<1>2. PICK q : q = [pc |-> IF code = NoCode THEN "save" ELSE IF code = Amigo THEN "resolve" ELSE "validate",
                    user |-> u, code |-> code, order |-> isOrder, status |-> "none"]
  OBVIOUS
<1>3. req' = [req EXCEPT ![r] = q] /\ req[r].pc = "unborn"
  BY <1>2 DEF Request
<1>4. req'[r] = q
  BY <1>3 DEF PerkInv, RequestsInv
<1>5. RequestOK(r) /\ OwnUses(r)' = OwnUses(r)
  BY <1>1 DEF PerkInv, RequestsInv, OwnUses, Kept
<1>6. OwnUses(r)' = {} /\ req[r].status = "none"
  BY <1>3, <1>5 DEF RequestOK, Early
<1>7. Moves(r)
  BY <1>2, <1>3, <1>4, <1>6 DEF Moves, IsRequest, PerkInv, RequestsInv
<1>8. RequestOK(r)'
  BY <1>2, <1>4, <1>6 DEF RequestOK, Early
<1> QED  BY <1>1, <1>7, <1>8, MoveKeeps DEF Kept

\* A request that goes to another place, as far as it could.
LEMMA GotoKeeps ==
  ASSUME PerkInv, Kept, NEW r \in Requests, NEW pc, Goto(r, pc), req[r].pc # "unborn",
         pc \in {"refused", "done"} =>
           req[r].pc \in Early \/ (req[r].pc = "save" /\ req[r].code = NoCode) \/ req[r].status # "none"
             \/ faults' # 0,
         pc = "count"   => req[r].pc = "resolve" /\ req[r].user # Friend,
         pc = "create"  => req[r].pc = "count",
         pc = "consume" => req[r].pc = "validate" /\ req[r].code \in DOMAIN coupons,
         pc = "release" => req[r].pc = "save",
         pc \in {"reward", "return"} =>
           req[r].pc = "notify" /\ req[r].user \in DOMAIN referrals
             /\ (pc = "reward" => req[r].status = "FINISHED"),
         pc \in {"refused", "done", "count", "create", "consume", "release", "reward", "return"}
  PROVE  PerkInv' /\ OrdersStay
<1>1. Moves(r) /\ Sees(r, pc)
  BY GotoMoves DEF PerkInv
<1>2. RequestOK(r) /\ OwnUses(r)' = OwnUses(r) /\ faults \in Nat
      /\ DOMAIN coupons' = DOMAIN coupons /\ DOMAIN referrals' = DOMAIN referrals
  BY DEF PerkInv, RequestsInv, OwnUses, Kept
<1>3. faults' = 0 => faults = 0
  BY <1>2 DEF Kept
<1>4. RequestOK(r)'
  BY <1>1, <1>2, <1>3 DEF RequestOK, Early, Sees
<1> QED  BY <1>1, <1>4, MoveKeeps DEF Kept

\* The code of the friend becomes the welcome coupon of who gave it.
LEMMA WelcomeMoves ==
  ASSUME RequestsInv, NEW r \in Requests, req[r].pc \in {"resolve", "create"}, UNCHANGED <<usages, byHand, faults>>,
         req' = [req EXCEPT ![r].pc = "validate", ![r].code = Welcome(req[r].user)],
         DOMAIN coupons \subseteq DOMAIN coupons', DOMAIN referrals \subseteq DOMAIN referrals'
  PROVE  Moves(r) /\ RequestsInv'
<1>1. PICK q : q = [[req[r] EXCEPT !.pc = "validate"] EXCEPT !.code = Welcome(req[r].user)]
  OBVIOUS
<1>2. RequestOK(r) /\ IsRequest(req[r]) /\ OwnUses(r)' = OwnUses(r)
  BY DEF RequestsInv, OwnUses
<1>3. q = [pc |-> "validate", user |-> req[r].user, code |-> Welcome(req[r].user),
           order |-> req[r].order, status |-> req[r].status]
  BY <1>1, <1>2 DEF IsRequest
<1>4. req' = [req EXCEPT ![r] = q]
  BY <1>1
<1>5. req'[r] = q
  BY <1>4 DEF RequestsInv
<1>6. Moves(r)
  BY <1>3, <1>4, <1>5 DEF Moves, IsRequest, RequestsInv
<1>7. req[r].user \in Users /\ req[r].status = "none" /\ OwnUses(r)' = {}
  BY <1>2 DEF RequestOK, Early
<1>8. Welcome(req[r].user) # NoCode
  BY <1>7, CouponAssumption
<1>9. RequestOK(r)'
  BY <1>3, <1>5, <1>7, <1>8 DEF RequestOK, Early
<1> QED  BY <1>6, <1>9, RequestsKeep

LEMMA ResolvedKeeps ==
  ASSUME PerkInv, UNCHANGED cashback, NEW r \in Requests, ResolveReferralCode(r)
  PROVE  PerkInv' /\ OrdersStay
<1>1. Kept /\ req[r].pc = "resolve" /\ UNCHANGED faults
  BY DEF ResolveReferralCode, Kept, PerkInv, ReferralsInv
<1>2. CASE Goto(r, "refused")
  BY <1>1, <1>2, GotoKeeps DEF Early
<1>3. CASE req[r].user # Friend /\ Goto(r, "count")
  BY <1>1, <1>3, GotoKeeps DEF Early
<1>4. CASE req' = [req EXCEPT ![r].pc = "validate", ![r].code = Welcome(req[r].user)]
  <2>1. Moves(r) /\ RequestsInv'
    BY <1>1, <1>4, WelcomeMoves DEF PerkInv, Kept
  <2> QED  BY <1>1, <2>1, MoveKeeps DEF Kept, RequestsInv
<1> QED  BY <1>2, <1>3, <1>4 DEF ResolveReferralCode

\* A welcome coupon and its referral are made together.
LEMMA ReferredKeeps ==
  ASSUME PerkInv, UNCHANGED cashback, NEW r \in Requests, CreateReferral(r)
  PROVE  PerkInv' /\ OrdersStay
<1>1. PICK u : u = req[r].user
  OBVIOUS
<1>2. /\ req[r].pc = "create" /\ UNCHANGED <<usages, byHand, overcleared, copy, faults>>
      /\ req' = [req EXCEPT ![r].pc = "validate", ![r].code = Welcome(u)]
  BY <1>1 DEF CreateReferral
<1>3. u \in Users \ {Friend}
  BY <1>1, <1>2 DEF PerkInv, RequestsInv, RequestOK
<1>4. CASE u \in DOMAIN referrals
  <2>1. UNCHANGED <<coupons, referrals>>
    BY <1>1, <1>4 DEF CreateReferral
  <2>2. Moves(r) /\ RequestsInv'
    BY <1>1, <1>2, <2>1, WelcomeMoves DEF PerkInv
  <2> QED  BY <1>2, <2>1, <2>2, MoveKeeps DEF RequestsInv, PerkInv, ReferralsInv
<1>5. CASE u \notin DOMAIN referrals
  <2>1. coupons' = Add(coupons, Welcome(u), NewCoupon(1, 1, u)) /\ referrals' = Add(referrals, u, "pending")
    BY <1>1, <1>5 DEF CreateReferral
  <2>2. Welcome(u) \notin DOMAIN coupons
    BY <1>3, <1>5 DEF PerkInv, ReferralsInv
  <2>3. DOMAIN coupons' = DOMAIN coupons \cup {Welcome(u)} /\ DOMAIN referrals' = DOMAIN referrals \cup {u}
        /\ referrals' = [v \in DOMAIN referrals' |-> referrals'[v]]
    BY <2>1 DEF Add
  <2>4. Moves(r) /\ RequestsInv'
    BY <1>1, <1>2, <2>3, WelcomeMoves DEF PerkInv
  <2>6. CouponsInv'
    BY <1>2, <2>1, <2>2, AddKeeps DEF PerkInv
  <2>7. /\ \A v \in Users : Welcome(v) = Welcome(u) => v = u
        /\ \A n \in Nat : <<"cashback", n>> # Welcome(u)
    BY DEF Welcome
  <2>8. ReferralsInv'
    BY <1>3, <2>3, <2>7 DEF PerkInv, ReferralsInv
  <2> QED  BY <2>4, <2>6, <2>8, MovesOrders DEF PerkInv
<1> QED  BY <1>4, <1>5

LEMMA ValidatedKeeps ==
  ASSUME PerkInv, UNCHANGED cashback, NEW r \in Requests, ValidateCoupon(r)
  PROVE  PerkInv' /\ OrdersStay
<1>1. Kept /\ req[r].pc = "validate" /\ UNCHANGED faults
  BY DEF ValidateCoupon, Kept, PerkInv, ReferralsInv
<1>2. CASE Goto(r, "refused") \/ Goto(r, "done")
  BY <1>1, <1>2, GotoKeeps DEF Early
<1>3. CASE Valid(req[r].code, req[r].user) /\ Goto(r, "consume")
  BY <1>1, <1>3, GotoKeeps DEF Valid
<1>4. CASE req' = [req EXCEPT ![r].pc = "save", ![r].code = NoCode]
  <2>1. PICK q : q = [[req[r] EXCEPT !.pc = "save"] EXCEPT !.code = NoCode]
    OBVIOUS
  <2>2. RequestOK(r) /\ IsRequest(req[r]) /\ OwnUses(r)' = OwnUses(r)
    BY <1>1 DEF PerkInv, RequestsInv, OwnUses, Kept
  <2>3. q = [pc |-> "save", user |-> req[r].user, code |-> NoCode, order |-> req[r].order,
             status |-> req[r].status]
    BY <2>1, <2>2 DEF IsRequest
  <2>4. req' = [req EXCEPT ![r] = q]
    BY <1>4, <2>1
  <2>5. req'[r] = q
    BY <2>4 DEF PerkInv, RequestsInv
  <2>6. Moves(r)
    BY <2>3, <2>4, <2>5 DEF Moves, IsRequest, PerkInv, RequestsInv
  <2>7. req[r].user \in Users /\ req[r].status = "none" /\ OwnUses(r)' = {}
    BY <1>1, <2>2 DEF RequestOK, Early
  <2>8. RequestOK(r)'
    BY <2>3, <2>5, <2>7 DEF RequestOK, Early
  <2> QED  BY <1>1, <2>6, <2>8, MoveKeeps DEF Kept
<1> QED  BY <1>2, <1>3, <1>4 DEF ValidateCoupon

LEMMA SavedKeeps ==
  ASSUME PerkInv, UNCHANGED cashback, NEW r \in Requests, SaveOrder(r)
  PROVE  PerkInv' /\ OrdersStay
<1>1. Kept /\ req[r].pc = "save" /\ UNCHANGED faults
  BY DEF SaveOrder, Kept, PerkInv, ReferralsInv
<1>2. CASE Goto(r, IF req[r].code = NoCode THEN "refused" ELSE "release")
  BY <1>1, <1>2, GotoKeeps
<1>3. CASE req' = [req EXCEPT ![r].pc = "saved", ![r].status = "open"]
  <2>1. PICK q : q = [[req[r] EXCEPT !.pc = "saved"] EXCEPT !.status = "open"]
    OBVIOUS
  <2>2. RequestOK(r) /\ IsRequest(req[r]) /\ OwnUses(r)' = OwnUses(r)
    BY <1>1 DEF PerkInv, RequestsInv, OwnUses, Kept
  <2>3. q = [pc |-> "saved", user |-> req[r].user, code |-> req[r].code, order |-> req[r].order,
             status |-> "open"]
    BY <2>1, <2>2 DEF IsRequest
  <2>4. req' = [req EXCEPT ![r] = q]
    BY <1>3, <2>1
  <2>5. req'[r] = q
    BY <2>4 DEF PerkInv, RequestsInv
  <2>6. req[r].user \in Users /\ req[r].status = "none"
    BY <1>1, <2>2 DEF RequestOK, Early
  <2>7. Moves(r)
    BY <2>3, <2>4, <2>5, <2>6 DEF Moves, IsRequest, PerkInv, RequestsInv
  <2>8. RequestOK(r)'
    BY <2>3, <2>5, <2>6 DEF RequestOK, Early
  <2> QED  BY <1>1, <2>7, <2>8, MoveKeeps DEF Kept
<1> QED  BY <1>1, <1>2, <1>3 DEF SaveOrder

LEMMA StatusKeeps ==
  ASSUME PerkInv, UNCHANGED cashback, NEW r \in Requests, NEW status \in {"FINISHED", "CANCELLED"},
         SetStatus(r, status)
  PROVE  PerkInv' /\ OrdersStay
<1>1. Kept /\ req[r].pc = "saved" /\ req[r].status = "open"
  BY DEF SetStatus, Kept, PerkInv, ReferralsInv
<1>2. PICK q : q = [[req[r] EXCEPT !.status = status] EXCEPT !.pc = "notify"]
  OBVIOUS
<1>3. RequestOK(r) /\ IsRequest(req[r]) /\ OwnUses(r)' = OwnUses(r)
  BY <1>1 DEF PerkInv, RequestsInv, OwnUses, Kept
<1>4. q = [pc |-> "notify", user |-> req[r].user, code |-> req[r].code, order |-> req[r].order,
           status |-> status]
  BY <1>2, <1>3 DEF IsRequest
<1>5. req' = [req EXCEPT ![r] = q]
  BY <1>2 DEF SetStatus
<1>6. req'[r] = q
  BY <1>5 DEF PerkInv, RequestsInv
<1>7. Moves(r)
  BY <1>1, <1>4, <1>5, <1>6 DEF Moves, IsRequest, PerkInv, RequestsInv
<1>8. RequestOK(r)'
  BY <1>1, <1>3, <1>4, <1>6 DEF RequestOK, Early
<1> QED  BY <1>1, <1>7, <1>8, MoveKeeps DEF Kept

LEMMA NotifiedKeeps ==
  ASSUME PerkInv, UNCHANGED cashback, NEW r \in Requests, ReadReferral(r) \/ NoReward(r)
  PROVE  PerkInv' /\ OrdersStay
<1>1. Kept
  BY DEF ReadReferral, NoReward, Fault, Kept, PerkInv, ReferralsInv
<1>2. RequestOK(r)
  BY DEF PerkInv, RequestsInv
<1>3. CASE ReadReferral(r)
  <2>1. req[r].pc = "notify" /\ req[r].status # "none"
    BY <1>2, <1>3 DEF ReadReferral, RequestOK
  <2>2. \/ Goto(r, "done")
        \/ req[r].user \in DOMAIN referrals /\ Goto(r, "return")
        \/ req[r].user \in DOMAIN referrals /\ req[r].status = "FINISHED" /\ Goto(r, "reward")
    BY <1>3 DEF ReadReferral
  <2> QED  BY <1>1, <2>1, <2>2, GotoKeeps
<1>4. CASE NoReward(r)
  <2>1. req[r].pc = "reward" /\ req[r].status # "none" /\ Goto(r, "done")
    BY <1>2, <1>4 DEF NoReward, RequestOK
  <2> QED  BY <1>1, <2>1, GotoKeeps
<1> QED  BY <1>3, <1>4

LEMMA RewardedKeeps ==
  ASSUME PerkInv, NEW r \in Requests, Reward(r)
  PROVE  PerkInv' /\ OrdersStay
<1>1. /\ req[r].pc = "reward" /\ Goto(r, "done") /\ UNCHANGED <<coupons, usages, byHand, overcleared, copy, faults, cashback>>
      /\ referrals' = [referrals EXCEPT ![req[r].user] = "rewarded"]
  BY DEF Reward, MarkRewarded
<1>2. Kept
  BY <1>1 DEF Kept, PerkInv, ReferralsInv
<1>3. req[r].status # "none"
  BY <1>1 DEF PerkInv, RequestsInv, RequestOK
<1> QED  BY <1>1, <1>2, <1>3, GotoKeeps

\* A use that is given back, or a failure to give it back.
LEMMA ReturnedKeeps ==
  ASSUME PerkInv, UNCHANGED cashback, NEW r \in Requests, GiveBack(r) \/ ReturnWelcome(r)
  PROVE  PerkInv' /\ OrdersStay
<1> DEFINE pc == IF req[r].pc = "release" THEN "refused" ELSE "done"
<1>1. /\ req[r].pc \in {"release", "return"} /\ Goto(r, pc) /\ UNCHANGED <<referrals, copy>>
      /\ \/ ReleaseCoupon(req[r].code, r) /\ UNCHANGED faults
         \/ Fault /\ UNCHANGED <<coupons, usages, byHand, overcleared>>
  BY DEF GiveBack, ReturnWelcome
<1>2. pc \in {"refused", "done"}
  OBVIOUS
<1> HIDE DEF pc
<1>3. RequestOK(r) /\ faults \in Nat
  BY DEF PerkInv, RequestsInv
<1>4. CASE Fault /\ UNCHANGED <<coupons, usages, byHand, overcleared>>
  <2>1. Kept /\ faults' # 0
    BY <1>1, <1>3, <1>4 DEF Kept, Fault, PerkInv, ReferralsInv
  <2> QED  BY <1>1, <1>2, <2>1, GotoKeeps
<1>5. CASE ReleaseCoupon(req[r].code, r) /\ UNCHANGED faults
  <2>1. Moves(r) /\ Sees(r, pc)
    BY <1>1, GotoMoves DEF PerkInv
  <2>3. CouponsInv' /\ DOMAIN coupons' = DOMAIN coupons
    BY <1>1, <1>5, ReleaseKeeps DEF PerkInv
  <2>4. usages' = usages \ UsesFor(req[r].code, r) /\ byHand' = byHand \ UsesFor(req[r].code, r)
    BY <1>5 DEF ReleaseCoupon, Cleared
  <2>5. OwnUses(r)' \subseteq OwnUses(r)
    BY <2>4 DEF OwnUses
  <2>6. req[r].pc = "release" => req[r].status = "none" /\ OwnUses(r)' = {}
    <3>1. req[r].pc = "release" => req[r].status = "none" /\ \A s \in OwnUses(r) : s.coupon = req[r].code
      BY <1>3 DEF RequestOK
    <3> QED  BY <2>4, <3>1 DEF OwnUses, UsesFor
  <2>7. req[r].pc = "return" => req[r].status # "none"
    BY <1>3 DEF RequestOK
  <2>8. RequestOK(r)'
    BY <1>1, <1>2, <1>3, <1>5, <2>1, <2>3, <2>5, <2>6, <2>7 DEF RequestOK, Early, Sees
  <2>9. RequestsInv'
    BY <1>1, <1>5, <2>1, <2>3, <2>4, <2>8, RequestsKeep DEF PerkInv
  <2>10. ReferralsInv'
    BY <1>1, <2>3 DEF PerkInv, ReferralsInv
  <2> QED  BY <2>1, <2>3, <2>9, <2>10, MovesOrders DEF PerkInv
<1> QED  BY <1>1, <1>4, <1>5

LEMMA ConsumedKeeps ==
  ASSUME PerkInv, UNCHANGED cashback, NEW r \in Requests, ConsumeCoupon(r)
  PROVE  PerkInv' /\ OrdersStay
<1>1. /\ req[r].pc = "consume" /\ UNCHANGED <<byHand, overcleared, referrals, copy, faults>> /\ RequestOK(r)
      /\ referrals = [u \in DOMAIN referrals |-> referrals[u]]
  BY DEF ConsumeCoupon, PerkInv, RequestsInv, ReferralsInv
<1>2. CASE Goto(r, "refused") /\ UNCHANGED <<coupons, usages>>
  <2>1. Kept
    BY <1>1, <1>2 DEF Kept
  <2> QED  BY <1>1, <1>2, <2>1, GotoKeeps DEF Early
<1>3. CASE Goto(r, "save") /\ Use(req[r].code, req[r].user, r)
           /\ coupons[req[r].code].active
           /\ (coupons[req[r].code].max > 0 => coupons[req[r].code].used < coupons[req[r].code].max)
           /\ (coupons[req[r].code].perUser > 0 =>
                Cardinality(UsesBy(req[r].code, req[r].user)) < coupons[req[r].code].perUser)
           /\ UseOf(req[r].code, req[r].user, r) \notin usages
  <2>1. Moves(r) /\ Sees(r, "save")
    BY <1>3, GotoMoves DEF PerkInv
  <2>3. /\ req[r].code \in DOMAIN coupons /\ req[r].user \in Users /\ OwnUses(r) = {}
        /\ req[r].code # NoCode /\ req[r].status = "none"
    BY <1>1 DEF RequestOK, Early
  <2>5. CouponsInv' /\ DOMAIN coupons' = DOMAIN coupons
    BY <1>1, <1>3, <2>3, UseKeeps DEF PerkInv
  <2>6. usages' = usages \cup {[coupon |-> req[r].code, user |-> req[r].user, order |-> r]}
    BY <1>3 DEF Use, UseOf
  <2>7. \A s \in OwnUses(r)' : s.coupon = req[r].code
    BY <1>1, <2>3, <2>6 DEF OwnUses
  <2>8. RequestOK(r)'
    BY <2>1, <2>3, <2>7 DEF RequestOK, Early, Sees
  <2>9. RequestsInv'
    BY <1>1, <2>1, <2>5, <2>6, <2>8, RequestsKeep DEF PerkInv
  <2>10. ReferralsInv'
    BY <1>1, <2>5 DEF PerkInv, ReferralsInv
  <2> QED  BY <2>1, <2>5, <2>9, <2>10, MovesOrders DEF PerkInv
<1> QED  BY <1>2, <1>3 DEF ConsumeCoupon

\* A use that is applied by hand is no request's own.
LEMMA AppliedKeeps ==
  ASSUME PerkInv, UNCHANGED cashback, NEW r \in Requests, NEW u \in Users, NEW code, ApplyCoupon(u, code, r)
  PROVE  PerkInv' /\ OrdersStay
<1>1. /\ Valid(code, u) /\ Use(code, u, r) /\ UseOf(code, u, r) \notin usages
      /\ byHand' = byHand \cup {UseOf(code, u, r)}
      /\ UNCHANGED <<overcleared, referrals, req, copy, faults>>
  BY DEF ApplyCoupon
<1>2. CouponsInv' /\ DOMAIN coupons' = DOMAIN coupons
  BY <1>1, UseKeeps DEF PerkInv, Valid
<1>3. usages' \ byHand' = usages \ byHand
  BY <1>1 DEF Use
<1>4. \A o \in Requests : RequestOK(o)'
  BY <1>1, <1>2, <1>3, RequestStays DEF OwnUses, PerkInv, RequestsInv
<1>5. RequestsInv'
  BY <1>1, <1>4 DEF PerkInv, RequestsInv
<1>6. ReferralsInv'
  BY <1>1, <1>2 DEF PerkInv, ReferralsInv
<1> QED  BY <1>1, <1>2, <1>5, <1>6 DEF PerkInv, OrdersStay

LEMMA RetiredKeeps ==
  ASSUME PerkInv, UNCHANGED cashback, SaveDeleted \/ \E code \in DOMAIN coupons : ReadToDelete(code)
  PROVE  PerkInv' /\ OrdersStay
<1>1. UNCHANGED <<usages, byHand, overcleared, referrals, req, faults>>
  BY DEF SaveDeleted, ReadToDelete
<1>2. CouponsInv' /\ DOMAIN coupons' = DOMAIN coupons
  <2>1. CASE SaveDeleted
    BY <1>1, <2>1, RetireKeeps DEF PerkInv
  <2>2. ASSUME NEW code \in DOMAIN coupons, ReadToDelete(code) PROVE CouponsInv' /\ coupons' = coupons
    <3>1. copy' = [code |-> code, used |-> coupons[code].used] /\ UNCHANGED <<coupons, usages, byHand, overcleared>>
      BY <2>2 DEF ReadToDelete
    <3>2. coupons[code].used \in Nat
      BY DEF PerkInv, CouponsInv, IsCoupon
    <3>3. copy'.code \in DOMAIN coupons /\ copy'.used \in Nat
      BY <3>1, <3>2
    <3> QED  BY <1>1, <3>1, <3>3, CouponsStay DEF PerkInv
  <2> QED  BY <2>1, <2>2
<1>3. \A o \in Requests : RequestOK(o)'
  BY <1>1, <1>2, RequestStays DEF OwnUses, PerkInv, RequestsInv
<1>4. RequestsInv'
  BY <1>1, <1>3 DEF PerkInv, RequestsInv
<1>5. ReferralsInv'
  BY <1>1, <1>2 DEF PerkInv, ReferralsInv
<1> QED  BY <1>1, <1>2, <1>4, <1>5 DEF PerkInv, OrdersStay

LEMMA CrashKeeps ==
  ASSUME PerkInv, UNCHANGED cashback, CouponCrash
  PROVE  PerkInv' /\ OrdersStay
<1>1. /\ UNCHANGED <<coupons, usages, byHand, overcleared, referrals>> /\ copy' = NoCopy
      /\ faults' \in Nat /\ faults' # 0
      /\ req' = [r \in Requests |->
           IF req[r].pc \in {"unborn", "saved", "done", "refused"} THEN req[r]
           ELSE [req[r] EXCEPT !.pc = "done"]]
  BY DEF CouponCrash, Fault, PerkInv, RequestsInv
<1>2. ASSUME NEW r \in Requests
      PROVE  IsRequest(req'[r]) /\ RequestOK(r)' /\ (req[r].pc # "unborn" => req'[r].user = req[r].user)
  <2>1. RequestOK(r) /\ IsRequest(req[r]) /\ OwnUses(r)' = OwnUses(r)
    BY <1>1 DEF PerkInv, RequestsInv, OwnUses
  <2>2. CASE req[r].pc \in {"unborn", "saved", "done", "refused"}
    <3>1. req'[r] = req[r]
      BY <1>1, <2>2
    <3> QED  BY <1>1, <2>1, <3>1, RequestStays
  <2>3. CASE req[r].pc \notin {"unborn", "saved", "done", "refused"}
    <3>1. PICK q : q = [req[r] EXCEPT !.pc = "done"]
      OBVIOUS
    <3>2. req'[r] = q
      BY <1>1, <2>3, <3>1
    <3>3. q = [pc |-> "done", user |-> req[r].user, code |-> req[r].code, order |-> req[r].order,
               status |-> req[r].status]
      BY <2>1, <3>1 DEF IsRequest
    <3> QED  BY <1>1, <2>1, <2>3, <3>2, <3>3 DEF RequestOK, Early, IsRequest
  <2> QED  BY <2>2, <2>3
<1>3. RequestsInv'
  BY <1>1, <1>2 DEF RequestsInv
<1>5. CouponsInv'
  BY <1>1, CouponsStay DEF PerkInv
<1>6. ReferralsInv'
  BY <1>1 DEF PerkInv, ReferralsInv
<1>7. OrdersStay
  <2>1. ASSUME NEW r \in Requests, req[r].status = "FINISHED" PROVE req'[r].status = "FINISHED"
    <3>1. PICK q : q = [req[r] EXCEPT !.pc = "done"]
      OBVIOUS
    <3>2. IsRequest(req[r])
      BY DEF PerkInv, RequestsInv
    <3>3. q = [pc |-> "done", user |-> req[r].user, code |-> req[r].code, order |-> req[r].order,
               status |-> req[r].status]
      BY <3>1, <3>2 DEF IsRequest
    <3>4. req'[r] = req[r] \/ req'[r] = q
      BY <1>1, <3>1
    <3> QED  BY <2>1, <3>3, <3>4
  <2>2. \A r \in Requests : req[r].status = "FINISHED" => req[r].pc # "unborn"
    BY DEF PerkInv, RequestsInv, RequestOK, Early
  <2> QED  BY <1>2, <2>1, <2>2 DEF OrdersStay
<1> QED  BY <1>3, <1>5, <1>6, <1>7 DEF PerkInv

\* The code of a redeemed coupon is new: they are numbered as they are made.
LEMMA RedeemedKeeps ==
  ASSUME PerkInv, NEW k, NEW points, RedeemPoints(k, points)
  PROVE  PerkInv' /\ OrdersStay
<1>1. PICK n : n = Cardinality(cashback) + 1
  OBVIOUS
<1>2. PICK b : b = [code |-> <<"cashback", n>>, user |-> txn[k].user, value |-> points \div PointsPerReal]
  OBVIOUS
<1>3. /\ coupons' = Add(coupons, <<"cashback", n>>, NewCoupon(1, 1, txn[k].user))
      /\ cashback' = cashback \cup {b} /\ UNCHANGED <<usages, byHand, overcleared, referrals, req, copy, faults>>
  BY <1>1, <1>2 DEF RedeemPoints, CashbackCode
<1>4. /\ IsFiniteSet(cashback) /\ Cardinality(cashback) \in Nat /\ n \in Nat
      /\ <<"cashback", n>> \notin DOMAIN coupons
  BY <1>1, FS_CardinalityType DEF PerkInv, ReferralsInv
<1>5. b \notin cashback
  BY <1>2, <1>4 DEF PerkInv, ReferralsInv
<1>6. IsFiniteSet(cashback') /\ Cardinality(cashback') = n
  BY <1>1, <1>3, <1>4, <1>5, FS_AddElement
<1>8. CouponsInv' /\ DOMAIN coupons' = DOMAIN coupons \cup {<<"cashback", n>>}
  BY <1>3, <1>4, AddKeeps DEF PerkInv
<1>9. ReferralsInv'
  <2>1. /\ \A v \in Users : Welcome(v) # <<"cashback", n>>
        /\ \A m \in Nat : <<"cashback", m>> = <<"cashback", n>> => m = n
    BY DEF Welcome
  <2>2. \A m \in Nat : <<"cashback", m>> \in DOMAIN coupons => m <= Cardinality(cashback)
    BY DEF PerkInv, ReferralsInv
  <2>3. \A m \in Nat : <<"cashback", m>> \in DOMAIN coupons' => m <= Cardinality(cashback')
    BY <1>1, <1>4, <1>6, <1>8, <2>1, <2>2
  <2>4. \A c \in cashback' : c.code \in DOMAIN coupons'
    BY <1>2, <1>3, <1>8 DEF PerkInv, ReferralsInv
  <2>5. \A u \in Users : Welcome(u) \in DOMAIN coupons' <=> u \in DOMAIN referrals'
    BY <1>3, <1>8, <2>1 DEF PerkInv, ReferralsInv
  <2> QED  BY <1>3, <1>6, <2>3, <2>4, <2>5 DEF PerkInv, ReferralsInv
<1>10. \A o \in Requests : RequestOK(o)'
  BY <1>3, <1>8, RequestStays DEF OwnUses, PerkInv, RequestsInv
<1>11. RequestsInv'
  BY <1>3, <1>10 DEF PerkInv, RequestsInv
<1> QED  BY <1>3, <1>8, <1>9, <1>11 DEF PerkInv, OrdersStay

LEMMA CountedKeeps ==
  ASSUME PerkInv, UNCHANGED cashback, NEW r \in Requests, CountPrevious(r)
  PROVE  PerkInv' /\ OrdersStay
<1>1. Kept
  BY DEF CountPrevious, Kept, PerkInv, ReferralsInv
<1>2. req[r].pc = "count" /\ (Goto(r, "create") \/ Goto(r, "refused"))
  BY DEF CountPrevious
<1> QED  BY <1>1, <1>2, GotoKeeps DEF Early

LEMMA CouponsRest ==
  ASSUME PerkInv, UNCHANGED <<couponVars, cashback>>
  PROVE  PerkInv' /\ OrdersStay
<1>1. UNCHANGED <<coupons, usages, byHand, overcleared, referrals, req, copy, faults>>
  BY DEF couponVars
<1>3. CouponsInv'
  BY <1>1, CouponsStay DEF PerkInv, CouponsInv
<1>4. \A o \in Requests : RequestOK(o)'
  BY <1>1, RequestStays DEF OwnUses, PerkInv, RequestsInv
<1>5. RequestsInv'
  BY <1>1, <1>4 DEF PerkInv, RequestsInv
<1>6. ReferralsInv'
  BY <1>1 DEF PerkInv, ReferralsInv
<1> QED  BY <1>1, <1>3, <1>5, <1>6 DEF PerkInv, OrdersStay

LEMMA CouponStepKeeps ==
  ASSUME PerkInv, UNCHANGED cashback, CouponNext
  PROVE  PerkInv' /\ OrdersStay
<1>1. ASSUME NEW r \in Requests, ResolveReferralCode(r) PROVE PerkInv' /\ OrdersStay
  BY <1>1, ResolvedKeeps
<1>2. ASSUME NEW r \in Requests, CountPrevious(r) PROVE PerkInv' /\ OrdersStay
  BY <1>2, CountedKeeps
<1>3. ASSUME NEW r \in Requests, CreateReferral(r) PROVE PerkInv' /\ OrdersStay
  BY <1>3, ReferredKeeps
<1>4. ASSUME NEW r \in Requests, ValidateCoupon(r) PROVE PerkInv' /\ OrdersStay
  BY <1>4, ValidatedKeeps
<1>5. ASSUME NEW r \in Requests, ConsumeCoupon(r) PROVE PerkInv' /\ OrdersStay
  BY <1>5, ConsumedKeeps
<1>6. ASSUME NEW r \in Requests, SaveOrder(r) PROVE PerkInv' /\ OrdersStay
  BY <1>6, SavedKeeps
<1>7. ASSUME NEW r \in Requests, GiveBack(r) \/ ReturnWelcome(r) PROVE PerkInv' /\ OrdersStay
  BY <1>7, ReturnedKeeps
<1>8. ASSUME NEW r \in Requests, ReadReferral(r) \/ NoReward(r) PROVE PerkInv' /\ OrdersStay
  BY <1>8, NotifiedKeeps
<1>9. ASSUME NEW r \in Requests, NEW status \in {"FINISHED", "CANCELLED"}, SetStatus(r, status)
      PROVE  PerkInv' /\ OrdersStay
  BY <1>9, StatusKeeps
<1>10. ASSUME NEW r \in Requests, NEW u \in Users, NEW code, NEW isOrder \in BOOLEAN,
              Request(r, u, code, isOrder)
       PROVE  PerkInv' /\ OrdersStay
  BY <1>10, RequestedKeeps
<1>11. ASSUME NEW r \in Requests, NEW u \in Users, NEW code, ApplyCoupon(u, code, r) PROVE PerkInv' /\ OrdersStay
  BY <1>11, AppliedKeeps
<1>12. ASSUME SaveDeleted \/ \E code \in DOMAIN coupons : ReadToDelete(code) PROVE PerkInv' /\ OrdersStay
  BY <1>12, RetiredKeeps
<1> QED
  BY <1>1, <1>2, <1>3, <1>4, <1>5, <1>6, <1>7, <1>8, <1>9, <1>10, <1>11, <1>12 DEF CouponNext

\* Only a reward changes the row of a referral, and there is one for each user.
RewardsStay == \A u \in DOMAIN referrals : referrals[u] = "rewarded" =>
                 u \in DOMAIN referrals' /\ referrals'[u] = "rewarded"

LEMMA ReferralsStay ==
  ASSUME PerkInv, CouponNext
  PROVE  RewardsStay
<1>1. CASE UNCHANGED referrals
  BY <1>1 DEF RewardsStay
<1>2. ASSUME NEW r \in Requests, CreateReferral(r) PROVE RewardsStay
  BY <1>2, <1>1 DEF CreateReferral, RewardsStay, Add
<1>3. \/ UNCHANGED referrals \/ \E r \in Requests : CreateReferral(r)
  BY DEF CouponNext, ResolveReferralCode, CountPrevious, ValidateCoupon, ConsumeCoupon, SaveOrder, GiveBack,
         ReadReferral, ReturnWelcome, NoReward, SetStatus, Request, ApplyCoupon, ReadToDelete, SaveDeleted
<1> QED  BY <1>1, <1>2, <1>3

-----------------------------------------------------------------------------
(* Sums of points: whatever the order in which the terms are taken, the sum of  *)
(* a finite set is any of its terms and the sum of the others.                   *)

LEMMA LeastNumber ==
  ASSUME NEW S, S \subseteq Nat, S # {}
  PROVE  \E x \in S : \A y \in S : x <= y
<1> DEFINE Below == {ss \in Nat \X Nat : ss[1] < ss[2]}
<1>1. IsWellFoundedOn(Below, Nat)
  BY NatLessThanWellFounded DEF OpToRel
<1>2. PICK x \in S : \A y \in S : ~(<<y, x>> \in Below)
  <2> HIDE DEF Below
  <2> QED  BY <1>1, WFMin
<1>3. \A y \in S : y \in Nat /\ x \in Nat
  OBVIOUS
<1>4. \A y \in S : ~(y < x)
  BY <1>2, <1>3
<1> HIDE DEF Below
<1> QED  BY <1>3, <1>4

Taken(s) == CHOOSE x \in s : TRUE

\* What a fold computes is a function that satisfies the equation of the fold.
IsSum(f, S, g) == g = [s \in SUBSET S |-> IF s = {} THEN 0 ELSE f[Taken(s)] + g[s \ {Taken(s)}]]

LEMMA TakenFrom ==
  ASSUME NEW s, s # {}
  PROVE  Taken(s) \in s
BY DEF Taken

LEMMA TakenLeaves ==
  ASSUME NEW s, IsFiniteSet(s), NEW x \in s
  PROVE  /\ IsFiniteSet(s \ {x}) /\ Cardinality(s) \in Nat /\ Cardinality(s \ {x}) \in Nat
         /\ Cardinality(s \ {x}) = Cardinality(s) - 1
BY FS_RemoveElement, FS_CardinalityType

\* The fold has such a function: it is built from the small sets up.
LEMMA SumExists ==
  ASSUME NEW f, NEW T, IsFiniteSet(T)
  PROVE  \E g : IsSum(f, T, g)
<1> DEFINE UpTo(n) == {s \in SUBSET T : Cardinality(s) <= n}
           Fits(n, g) == g = [s \in UpTo(n) |-> IF s = {} THEN 0 ELSE f[Taken(s)] + g[s \ {Taken(s)}]]
           Bad == {n \in Nat : ~\E g : Fits(n, g)}
<1>1. \A s \in SUBSET T : IsFiniteSet(s) /\ Cardinality(s) \in Nat /\ Cardinality(s) <= Cardinality(T)
  BY FS_Subset, FS_CardinalityType
<1>2. Bad = {}
  <2> SUFFICES ASSUME Bad # {} PROVE FALSE
    OBVIOUS
  <2>1. PICK n \in Bad : \A m \in Bad : n <= m
    <3> HIDE DEF Fits
    <3> QED  BY LeastNumber
  <2>2. n \in Nat /\ ~\E g : Fits(n, g)
    BY <2>1
  <2>3. CASE n = 0
    <3>1. \A s \in UpTo(0) : s = {}
      BY <1>1, FS_EmptySet
    <3>2. PICK g : g = [s \in UpTo(0) |-> 0]
      OBVIOUS
    <3>3. g = [s \in UpTo(0) |-> IF s = {} THEN 0 ELSE f[Taken(s)] + g[s \ {Taken(s)}]]
      <4> HIDE DEF UpTo
      <4> QED  BY <3>1, <3>2
    <3> QED  BY <2>2, <2>3, <3>3
  <2>4. CASE n # 0
    <3>1. n - 1 \in Nat /\ n - 1 < n
      BY <2>2, <2>4
    <3>2. PICK g : Fits(n - 1, g)
      <4>1. n - 1 \notin Bad
        <5> HIDE DEF Bad
        <5> QED  BY <2>1, <2>2, <3>1
      <4> QED  BY <3>1, <4>1
    <3>3. PICK h : h = [s \in UpTo(n) |-> IF s \in UpTo(n - 1) THEN g[s] ELSE f[Taken(s)] + g[s \ {Taken(s)}]]
      OBVIOUS
    <3>4. \A s \in UpTo(n) : s # {} => s \ {Taken(s)} \in UpTo(n - 1) /\ s \ {Taken(s)} \in UpTo(n)
      <4> SUFFICES ASSUME NEW s \in UpTo(n), s # {}
                   PROVE  s \ {Taken(s)} \in UpTo(n - 1) /\ s \ {Taken(s)} \in UpTo(n)
        OBVIOUS
      <4>1. Taken(s) \in s
        BY TakenFrom
      <4>2. s \in SUBSET T /\ IsFiniteSet(s) /\ Cardinality(s) <= n
        BY <1>1
      <4>3. Cardinality(s) \in Nat /\ Cardinality(s \ {Taken(s)}) \in Nat /\ Cardinality(s \ {Taken(s)}) = Cardinality(s) - 1
        BY <4>1, <4>2, TakenLeaves
      <4>4. Cardinality(s \ {Taken(s)}) <= n - 1 /\ Cardinality(s \ {Taken(s)}) <= n
        BY <2>2, <4>2, <4>3
      <4> QED  BY <4>2, <4>4
    <3>5. UpTo(n - 1) \subseteq UpTo(n)
      <4>1. \A s \in SUBSET T : Cardinality(s) <= n - 1 => Cardinality(s) <= n
        BY <1>1, <2>2
      <4> QED  BY <4>1
    <3>6. {} \in UpTo(n - 1)
      <4>1. Cardinality({}) = 0
        BY FS_EmptySet
      <4> QED  BY <3>1, <4>1
    <3>7. \A s \in UpTo(n) : h[s] = IF s = {} THEN 0 ELSE f[Taken(s)] + h[s \ {Taken(s)}]
      <4> SUFFICES ASSUME NEW s \in UpTo(n)
                   PROVE  h[s] = IF s = {} THEN 0 ELSE f[Taken(s)] + h[s \ {Taken(s)}]
        OBVIOUS
      <4> HIDE DEF UpTo
      <4>1. CASE s = {}
        BY <3>2, <3>3, <3>6, <4>1
      <4>2. CASE s # {}
        <5>1. PICK t : t = s \ {Taken(s)}
          OBVIOUS
        <5>2. t \in UpTo(n - 1) /\ t \in UpTo(n)
          BY <3>4, <4>2, <5>1
        <5>3. h[t] = g[t]
          BY <3>3, <5>2
        <5>4. s \in UpTo(n - 1) => g[s] = f[Taken(s)] + g[t]
          BY <3>2, <4>2, <5>1
        <5>5. h[s] = f[Taken(s)] + g[t]
          BY <3>3, <5>1, <5>4
        <5> QED  BY <4>2, <5>1, <5>3, <5>5
      <4> QED  BY <4>1, <4>2
    <3>8. h = [s \in UpTo(n) |-> h[s]]
      <4> HIDE DEF UpTo
      <4> QED  BY <3>3
    <3>9. h = [s \in UpTo(n) |-> IF s = {} THEN 0 ELSE f[Taken(s)] + h[s \ {Taken(s)}]]
      <4> HIDE DEF UpTo
      <4> QED  BY <3>7, <3>8
    <3> QED  BY <2>2, <3>9
  <2> QED  BY <2>3, <2>4
<1>3. Cardinality(T) \in Nat
  BY FS_CardinalityType
<1>4. PICK g : Fits(Cardinality(T), g)
  BY <1>2, <1>3
<1>5. UpTo(Cardinality(T)) = SUBSET T
  BY <1>1
<1> HIDE DEF UpTo
<1>6. g = [s \in SUBSET T |-> IF s = {} THEN 0 ELSE f[Taken(s)] + g[s \ {Taken(s)}]]
  BY <1>4, <1>5
<1> QED  BY <1>6 DEF IsSum

LEMMA SumIsFold ==
  ASSUME NEW f, NEW T, IsFiniteSet(T)
  PROVE  \E g : IsSum(f, T, g) /\ SumFunctionOnSet(f, T) = g[T]
<1> DEFINE Folds(g) == g = [s \in SUBSET T |-> IF s = {} THEN 0
                                  ELSE f[CHOOSE x \in s : TRUE] + g[s \ {CHOOSE x \in s : TRUE}]]
           sum == CHOOSE g : Folds(g)
<1>1. IsSum(f, T, sum)
  <2>1. \A g : Folds(g) <=> IsSum(f, T, g)
    BY DEF IsSum, Taken
  <2>2. \E g : Folds(g)
    <3>1. PICK g : IsSum(f, T, g)
      BY SumExists
    <3> HIDE DEF Folds
    <3> QED  BY <2>1, <3>1
  <2>3. Folds(sum)
    <3> HIDE DEF Folds
    <3> QED  BY <2>2
  <2> QED  BY <2>1, <2>3
<1>2. SumFunctionOnSet(f, T) = sum[T]
  BY DEF SumFunctionOnSet, FoldFunctionOnSet, MapThenFoldSet
<1> QED  BY <1>1, <1>2

\* Sums of the same terms are the same.
LEMMA SumsAgree ==
  ASSUME NEW f, NEW S, NEW g, IsSum(f, S, g), NEW e, NEW T, NEW h, IsSum(e, T, h),
         NEW R, R \subseteq S, R \subseteq T, IsFiniteSet(R), \A x \in R : f[x] = e[x]
  PROVE  g[R] = h[R]
<1> DEFINE Bad == {s \in SUBSET R : g[s] # h[s]}
           Sizes == {Cardinality(s) : s \in Bad}
<1> SUFFICES ASSUME Bad # {} PROVE FALSE
  OBVIOUS
<1>1. \A s \in SUBSET R : IsFiniteSet(s) /\ Cardinality(s) \in Nat
  BY FS_Subset, FS_CardinalityType
<1>2. Sizes \subseteq Nat /\ Sizes # {}
  BY <1>1
<1>3. PICK n \in Sizes : \A m \in Sizes : n <= m
  <2> HIDE DEF Sizes
  <2> QED  BY <1>2, LeastNumber
<1>4. PICK s \in Bad : Cardinality(s) = n
  BY <1>3
<1>5. s \in SUBSET R /\ g[s] # h[s] /\ s \in SUBSET S /\ s \in SUBSET T
  BY <1>4
<1>6. s # {}
  BY <1>5 DEF IsSum
<1>7. PICK x : x = Taken(s)
  OBVIOUS
<1>8. x \in s
  BY <1>6, <1>7, TakenFrom
<1>9. g[s] = f[x] + g[s \ {x}]
  BY <1>5, <1>6, <1>7 DEF IsSum
<1>10. h[s] = e[x] + h[s \ {x}]
  BY <1>5, <1>6, <1>7 DEF IsSum
<1>11. f[x] = e[x]
  BY <1>5, <1>8
<1>12. g[s \ {x}] # h[s \ {x}]
  BY <1>5, <1>9, <1>10, <1>11
<1>13. Cardinality(s \ {x}) \in Sizes
  BY <1>5, <1>12
<1>14. n \in Nat /\ Cardinality(s \ {x}) = n - 1
  BY <1>1, <1>4, <1>5, <1>8, TakenLeaves
<1> HIDE DEF Sizes
<1> QED  BY <1>3, <1>13, <1>14

\* Any term may be taken first.
LEMMA SumAnyOrder ==
  ASSUME NEW f, NEW T, IsFiniteSet(T), NEW g, IsSum(f, T, g), \A x \in T : f[x] \in Int
  PROVE  \A s \in SUBSET T : g[s] \in Int /\ \A x \in s : g[s] = f[x] + g[s \ {x}]
<1> DEFINE Good(s) == g[s] \in Int /\ \A x \in s : g[s] = f[x] + g[s \ {x}]
           Bad == {s \in SUBSET T : ~Good(s)}
           Sizes == {Cardinality(s) : s \in Bad}
<1> SUFFICES ASSUME Bad # {} PROVE FALSE
  OBVIOUS
<1>1. \A s \in SUBSET T : IsFiniteSet(s) /\ Cardinality(s) \in Nat
  BY FS_Subset, FS_CardinalityType
<1>2. Sizes \subseteq Nat /\ Sizes # {}
  <2> HIDE DEF Good
  <2> QED  BY <1>1
<1>3. PICK n \in Sizes : \A m \in Sizes : n <= m
  <2> HIDE DEF Sizes
  <2> QED  BY <1>2, LeastNumber
<1>4. PICK s \in Bad : Cardinality(s) = n
  <2> HIDE DEF Good
  <2> QED  BY <1>3
<1>5. s \in SUBSET T /\ ~Good(s)
  BY <1>4
<1>6. \A r \in SUBSET T : Cardinality(r) < n => Good(r)
  <2> SUFFICES ASSUME NEW r \in SUBSET T, Cardinality(r) < n, ~Good(r) PROVE FALSE
    OBVIOUS
  <2>1. Cardinality(r) \in Sizes /\ Cardinality(r) \in Nat /\ n \in Nat
    <3> HIDE DEF Good
    <3> QED  BY <1>1, <1>2
  <2> HIDE DEF Sizes, Good
  <2> QED  BY <1>3, <2>1
<1>7. \A x \in s : s \ {x} \in SUBSET T /\ Good(s \ {x})
  <2> SUFFICES ASSUME NEW x \in s PROVE s \ {x} \in SUBSET T /\ Good(s \ {x})
    OBVIOUS
  <2>1. n \in Nat /\ Cardinality(s \ {x}) = n - 1
    BY <1>1, <1>4, <1>5, TakenLeaves
  <2>2. Cardinality(s \ {x}) < n
    BY <2>1
  <2> HIDE DEF Good
  <2> QED  BY <1>5, <1>6, <2>2
<1>8. s # {}
  BY <1>5 DEF IsSum
<1>9. PICK c : c = Taken(s)
  OBVIOUS
<1>10. c \in s /\ f[c] \in Int
  BY <1>5, <1>8, <1>9, TakenFrom
<1>11. g[s] = f[c] + g[s \ {c}]
  BY <1>5, <1>8, <1>9 DEF IsSum
<1>12. g[s] \in Int
  <2>1. g[s \ {c}] \in Int
    BY <1>7, <1>10
  <2>2. f[c] + g[s \ {c}] \in Int
    BY <1>10, <2>1
  <2> QED  BY <1>11, <2>2
<1>13. PICK x \in s : g[s] # f[x] + g[s \ {x}]
  BY <1>5, <1>12
<1>14. x # c
  BY <1>11, <1>13
<1>15. f[x] \in Int /\ x \in s \ {c} /\ c \in s \ {x}
  BY <1>5, <1>10, <1>14
<1>16. g[s \ {c}] = f[x] + g[(s \ {c}) \ {x}]
  BY <1>7, <1>10, <1>15
<1>17. g[s \ {x}] = f[c] + g[(s \ {x}) \ {c}]
  BY <1>7, <1>15
<1>18. (s \ {c}) \ {x} = (s \ {x}) \ {c}
  OBVIOUS
<1>19. PICK r : r = (s \ {c}) \ {x}
  OBVIOUS
<1>20. g[r] \in Int
  <2>1. n \in Nat /\ Cardinality(s \ {c}) = n - 1 /\ IsFiniteSet(s \ {c})
    BY <1>1, <1>4, <1>5, <1>10, TakenLeaves
  <2>2. Cardinality(r) = (n - 1) - 1
    BY <1>15, <1>19, <2>1, TakenLeaves
  <2>3. r \in SUBSET T /\ Cardinality(r) < n
    BY <1>5, <1>19, <2>1, <2>2
  <2> QED  BY <1>6, <2>3
<1>21. g[s] = f[c] + (f[x] + g[r]) /\ g[s \ {x}] = f[c] + g[r]
  BY <1>11, <1>16, <1>17, <1>18, <1>19
<1>22. f[c] + (f[x] + g[r]) = f[x] + (f[c] + g[r])
  BY <1>10, <1>15, <1>20
<1> QED  BY <1>13, <1>21, <1>22

\* What is used of sums.
LEMMA SumOfNone ==
  ASSUME NEW f
  PROVE  SumFunctionOnSet(f, {}) = 0
<1>1. IsFiniteSet({})
  BY FS_EmptySet
<1>2. PICK g : IsSum(f, {}, g) /\ SumFunctionOnSet(f, {}) = g[{}]
  BY <1>1, SumIsFold
<1> QED  BY <1>2 DEF IsSum

LEMMA SumIsInt ==
  ASSUME NEW f, NEW T, IsFiniteSet(T), \A x \in T : f[x] \in Int
  PROVE  SumFunctionOnSet(f, T) \in Int
<1>1. PICK g : IsSum(f, T, g) /\ SumFunctionOnSet(f, T) = g[T]
  BY SumIsFold
<1>2. \A s \in SUBSET T : g[s] \in Int
  BY <1>1, SumAnyOrder
<1> QED  BY <1>1, <1>2

LEMMA SumOfSame ==
  ASSUME NEW f, NEW e, NEW T, IsFiniteSet(T), \A x \in T : f[x] = e[x]
  PROVE  SumFunctionOnSet(f, T) = SumFunctionOnSet(e, T)
<1>1. PICK g : IsSum(f, T, g) /\ SumFunctionOnSet(f, T) = g[T]
  BY SumIsFold
<1>2. PICK h : IsSum(e, T, h) /\ SumFunctionOnSet(e, T) = h[T]
  BY SumIsFold
<1>3. g[T] = h[T]
  BY <1>1, <1>2, SumsAgree
<1> QED  BY <1>1, <1>2, <1>3

LEMMA SumTakesOut ==
  ASSUME NEW f, NEW T, IsFiniteSet(T), \A x \in T : f[x] \in Int, NEW x \in T
  PROVE  /\ SumFunctionOnSet(f, T) = f[x] + SumFunctionOnSet(f, T \ {x})
         /\ SumFunctionOnSet(f, T \ {x}) \in Int
<1>1. IsFiniteSet(T \ {x}) /\ T \ {x} \in SUBSET T
  BY TakenLeaves
<1>2. PICK g : IsSum(f, T, g) /\ SumFunctionOnSet(f, T) = g[T]
  BY SumIsFold
<1>3. PICK h : IsSum(f, T \ {x}, h) /\ SumFunctionOnSet(f, T \ {x}) = h[T \ {x}]
  BY <1>1, SumIsFold
<1>4. g[T \ {x}] = h[T \ {x}]
  BY <1>1, <1>2, <1>3, SumsAgree
<1>5. g[T] = f[x] + g[T \ {x}]
  BY <1>2, SumAnyOrder
<1>6. SumFunctionOnSet(f, T \ {x}) \in Int
  BY <1>1, SumIsInt
<1> QED  BY <1>2, <1>3, <1>4, <1>5, <1>6

LEMMA SumIsNat ==
  ASSUME NEW f, NEW T, IsFiniteSet(T), \A x \in T : f[x] \in Nat
  PROVE  SumFunctionOnSet(f, T) \in Nat
<1> DEFINE Bad == {s \in SUBSET T : SumFunctionOnSet(f, s) \notin Nat}
           Sizes == {Cardinality(s) : s \in Bad}
<1> SUFFICES ASSUME Bad # {} PROVE FALSE
  OBVIOUS
<1>1. \A s \in SUBSET T : IsFiniteSet(s) /\ Cardinality(s) \in Nat
  BY FS_Subset, FS_CardinalityType
<1>2. Sizes \subseteq Nat /\ Sizes # {}
  BY <1>1
<1>3. PICK n \in Sizes : \A m \in Sizes : n <= m
  <2> HIDE DEF Sizes
  <2> QED  BY <1>2, LeastNumber
<1>4. PICK s \in Bad : Cardinality(s) = n
  BY <1>3
<1>5. PICK x : x \in s
  BY <1>4, SumOfNone
<1>6. f[x] \in Nat /\ \A y \in s : f[y] \in Int
  BY <1>4, <1>5
<1>7. /\ SumFunctionOnSet(f, s) = f[x] + SumFunctionOnSet(f, s \ {x})
      /\ SumFunctionOnSet(f, s \ {x}) \in Int
  BY <1>1, <1>4, <1>5, <1>6, SumTakesOut
<1>8. SumFunctionOnSet(f, s \ {x}) \notin Nat
  BY <1>4, <1>6, <1>7
<1>9. Cardinality(s \ {x}) \in Sizes
  BY <1>4, <1>8
<1>10. n \in Nat /\ Cardinality(s \ {x}) = n - 1
  BY <1>1, <1>4, <1>5, TakenLeaves
<1> HIDE DEF Sizes
<1> QED  BY <1>3, <1>9, <1>10

LEMMA SumGrows ==
  ASSUME NEW f, NEW e, NEW T, IsFiniteSet(T), NEW x, x \notin T, e[x] \in Int,
         \A y \in T : f[y] \in Int /\ e[y] = f[y]
  PROVE  /\ SumFunctionOnSet(e, T \cup {x}) = SumFunctionOnSet(f, T) + e[x]
         /\ SumFunctionOnSet(f, T) \in Int
<1>1. IsFiniteSet(T \cup {x}) /\ (T \cup {x}) \ {x} = T
  BY FS_AddElement
<1>2. \A y \in T \cup {x} : e[y] \in Int
  OBVIOUS
<1>3. SumFunctionOnSet(e, T \cup {x}) = e[x] + SumFunctionOnSet(e, T)
  BY <1>1, <1>2, SumTakesOut
<1>4. SumFunctionOnSet(e, T) = SumFunctionOnSet(f, T)
  BY SumOfSame
<1>5. SumFunctionOnSet(f, T) \in Int
  BY SumIsInt
<1> QED  BY <1>3, <1>4, <1>5

-----------------------------------------------------------------------------
(* The accounts and their history.                                              *)

IsRow(a) == a = [id |-> a.id, user |-> a.user, points |-> a.points] /\ a.id \in Nat /\ a.user \in Users

AccountsInv ==
  /\ \A a \in accounts : IsRow(a)
  /\ txn = [k \in Clerks |-> txn[k]]
  /\ \A k \in Clerks : \/ txn[k].pc = "idle"
                       \/ txn[k].pc \in {"earn", "credit", "redeem"} /\ IsRow(txn[k].row)

LEMMA OldestIsOne ==
  ASSUME AccountsInv, NEW u, RowsOf(u) # {}
  PROVE  Oldest(RowsOf(u)) \in RowsOf(u)
<1> DEFINE ids == {a.id : a \in RowsOf(u)}
<1>1. RowsOf(u) \subseteq accounts
  BY DEF RowsOf
<1>2. ids \subseteq Nat /\ ids # {}
  BY <1>1 DEF AccountsInv, IsRow
<1>3. PICK n \in ids : \A m \in ids : n <= m
  <2> HIDE DEF ids
  <2> QED  BY <1>2, LeastNumber
<1>4. \E a \in RowsOf(u) : \A b \in RowsOf(u) : a.id <= b.id
  BY <1>3
<1> QED  BY <1>4 DEF Oldest

LEMMA AccountIsRow ==
  ASSUME AccountsInv, NEW u \in Users
  PROVE  IsRow(AccountOf(u)) /\ AccountOf(u).user = u
<1>1. CASE RowsOf(u) = {}
  BY <1>1 DEF AccountOf, IsRow
<1>2. CASE RowsOf(u) # {}
  BY <1>2, OldestIsOne DEF AccountOf, RowsOf, AccountsInv
<1> QED  BY <1>1, <1>2

LEMMA CreditIsRows ==
  ASSUME AccountsInv, NEW doc, IsRow(doc), NEW points
  PROVE  \A a \in Credit(doc, points) : IsRow(a)
<1>1. PICK new : new = [doc EXCEPT !.points = @ + points]
  OBVIOUS
<1>2. new = [id |-> doc.id, user |-> doc.user, points |-> doc.points + points]
  BY <1>1 DEF IsRow
<1>3. IsRow(new)
  BY <1>2 DEF IsRow
<1>4. \A a \in Credit(doc, points) : a \in accounts \/ a = new
  BY <1>1 DEF Credit
<1> QED  BY <1>3, <1>4 DEF AccountsInv

LEMMA EndsKeeps ==
  ASSUME AccountsInv, NEW k, Ends(k), \A a \in accounts' : IsRow(a)
  PROVE  AccountsInv'
  BY DEF AccountsInv, Ends, Resting

LEMMA LockKeeps ==
  ASSUME AccountsInv, NEW k \in Clerks, NEW u \in Users, NEW pc \in {"earn", "redeem"}, NEW o,
         LockLoyaltyAccount(k, pc, u, o)
  PROVE  AccountsInv'
<1>1. PICK t : t = [pc |-> pc, user |-> u, row |-> AccountOf(u), order |-> o]
  OBVIOUS
<1>2. txn' = [txn EXCEPT ![k] = t] /\ UNCHANGED accounts
  BY <1>1 DEF LockLoyaltyAccount, Begins
<1>3. t.pc \in {"earn", "redeem"} /\ IsRow(t.row)
  BY <1>1, AccountIsRow
<1> QED  BY <1>2, <1>3 DEF AccountsInv

LEMMA MergeKeeps ==
  ASSUME AccountsInv, NEW u \in Users, MergeDuplicates(u)
  PROVE  AccountsInv'
<1>1. PICK old : old = Oldest(RowsOf(u))
  OBVIOUS
<1>2. PICK points : points = PointsIn(RowsOf(u))
  OBVIOUS
<1>3. PICK new : new = [old EXCEPT !.points = points]
  OBVIOUS
<1>4. accounts' = (accounts \ RowsOf(u)) \cup {new} /\ UNCHANGED txn /\ Cardinality(RowsOf(u)) > 1
  BY <1>1, <1>2, <1>3 DEF MergeDuplicates
<1>5. RowsOf(u) # {}
  BY <1>4, FS_EmptySet
<1>6. IsRow(old)
  BY <1>1, <1>5, OldestIsOne DEF RowsOf, AccountsInv
<1>7. IsRow(new)
  BY <1>3, <1>6 DEF IsRow
<1> QED  BY <1>4, <1>7 DEF AccountsInv

-----------------------------------------------------------------------------
(* The history: a reward is for a delivered order of a user who was rewarded.      *)

IsNotes(s) == \E S : s \in Seq(S)
Rewarded(n) ==
  /\ n.order \in Requests /\ req[n.order].status = "FINISHED"
  /\ req[n.order].user \in DOMAIN referrals /\ referrals[req[n.order].user] = "rewarded"

HistoryInv ==
  /\ IsNotes(history)
  /\ \A i \in 1..Len(history) : history[i].type = "referral" => Rewarded(history[i])
  /\ \A i, j \in 1..Len(history) :
       j # i /\ history[i].type = "referral" /\ history[j].type = "referral" =>
         req[history[j].order].user # req[history[i].order].user

LEMMA Appended ==
  ASSUME IsNotes(history), NEW n, history' = Append(history, n)
  PROVE  /\ IsNotes(history') /\ Len(history) \in Nat /\ Len(history') = Len(history) + 1
         /\ history'[Len(history')] = n /\ \A i \in 1..Len(history) : history'[i] = history[i]
<1>1. PICK S : history \in Seq(S)
  BY DEF IsNotes
<1>2. history \in Seq(S \cup {n})
  BY <1>1
<1>3. history' \in Seq(S \cup {n})
  BY <1>2
<1> QED  BY <1>2, <1>3 DEF IsNotes

LEMMA HistoryStays ==
  ASSUME HistoryInv, UNCHANGED history, OrdersStay, RewardsStay
  PROVE  HistoryInv'
  BY DEF HistoryInv, OrdersStay, RewardsStay, Rewarded

\* A note that is not of a referral.
LEMMA NotedKeeps ==
  ASSUME HistoryInv, OrdersStay, RewardsStay, NEW u, NEW points, NEW type, NEW o,
         Note(u, points, type, o), type # "referral"
  PROVE  HistoryInv'
<1>1. PICK n : n = [user |-> u, points |-> points, type |-> type, order |-> o]
  OBVIOUS
<1>2. history' = Append(history, n) /\ n.type = type /\ n.order = o
  BY <1>1 DEF Note
<1>3. /\ IsNotes(history') /\ Len(history) \in Nat /\ Len(history') = Len(history) + 1
      /\ history'[Len(history')] = n /\ \A i \in 1..Len(history) : history'[i] = history[i]
  BY <1>2, Appended DEF HistoryInv
<1>4. \A i \in 1..Len(history') : i = Len(history') \/ i \in 1..Len(history)
  BY <1>3
<1>5. \A i \in 1..Len(history') : history'[i].type = "referral" => i \in 1..Len(history) /\ Rewarded(history[i])
  BY <1>2, <1>3, <1>4 DEF HistoryInv
<1> QED  BY <1>3, <1>5 DEF HistoryInv, OrdersStay, RewardsStay, Rewarded

LEMMA RewardNotes ==
  ASSUME HistoryInv, PerkInv, OrdersStay, NEW r \in Requests, Reward(r)
  PROVE  HistoryInv'
<1>1. PICK u : u = req[r].user
  OBVIOUS
<1>2. PICK n : n = [user |-> Friend, points |-> RewardPoints, type |-> "referral", order |-> r]
  OBVIOUS
<1>3. /\ history' = Append(history, n) /\ n.type = "referral" /\ n.order = r
      /\ referrals[u] = "pending" /\ referrals' = [referrals EXCEPT ![u] = "rewarded"]
      /\ req[r].pc = "reward"
  BY <1>1, <1>2 DEF Reward, CreditReferral, Note, MarkRewarded
<1>4. req[r].status = "FINISHED" /\ u \in DOMAIN referrals
  BY <1>1, <1>3 DEF PerkInv, RequestsInv, RequestOK
<1>5. /\ IsNotes(history') /\ Len(history) \in Nat /\ Len(history') = Len(history) + 1
      /\ history'[Len(history')] = n /\ \A i \in 1..Len(history) : history'[i] = history[i]
  BY <1>3, Appended DEF HistoryInv
<1>6. \A i \in 1..Len(history') : i = Len(history') \/ i \in 1..Len(history)
  BY <1>5
<1>7. DOMAIN referrals' = DOMAIN referrals /\ referrals'[u] = "rewarded" /\ RewardsStay
  BY <1>3, <1>4 DEF RewardsStay
<1>8. req'[r].status = "FINISHED" /\ req'[r].user = u
  BY <1>1, <1>4 DEF OrdersStay
<1>9. \A i \in 1..Len(history) : history[i].type = "referral" =>
        Rewarded(history[i])' /\ req'[history[i].order].user # u
        /\ req'[history[i].order].user = req[history[i].order].user
  <2>1. \A i \in 1..Len(history) : history[i].type = "referral" => Rewarded(history[i])
    BY DEF HistoryInv
  <2> SUFFICES ASSUME NEW i \in 1..Len(history), history[i].type = "referral"
               PROVE  Rewarded(history[i])' /\ req'[history[i].order].user # u
                      /\ req'[history[i].order].user = req[history[i].order].user
    OBVIOUS
  <2>2. PICK o : o = history[i].order
    OBVIOUS
  <2>3. /\ o \in Requests /\ req[o].status = "FINISHED" /\ req[o].user \in DOMAIN referrals
        /\ referrals[req[o].user] = "rewarded"
    BY <2>1, <2>2 DEF Rewarded
  <2>4. req'[o].status = "FINISHED" /\ req'[o].user = req[o].user
    BY <2>3 DEF OrdersStay
  <2>5. history'[i].order = o
    BY <1>5, <2>2
  <2> QED  BY <1>3, <1>5, <1>7, <2>2, <2>3, <2>4, <2>5 DEF Rewarded, RewardsStay
<1>10. Rewarded(n)'
  BY <1>2, <1>4, <1>7, <1>8 DEF Rewarded
<1>12. ASSUME NEW i \in 1..Len(history'), history'[i].type = "referral"
       PROVE  Rewarded(history[i])'
  BY <1>5, <1>6, <1>9, <1>10, <1>12 DEF Rewarded
<1>13. ASSUME NEW i \in 1..Len(history'), NEW j \in 1..Len(history'), j # i,
              history'[i].type = "referral", history'[j].type = "referral"
       PROVE  req'[history'[j].order].user # req'[history'[i].order].user
  BY <1>3, <1>5, <1>6, <1>8, <1>9, <1>13 DEF HistoryInv
<1>14. \A i \in 1..Len(history') : history'[i].type = "referral" => Rewarded(history[i])'
  BY <1>12
<1>15. \A i, j \in 1..Len(history') :
         j # i /\ history'[i].type = "referral" /\ history'[j].type = "referral" =>
           req'[history'[j].order].user # req'[history'[i].order].user
  BY <1>13
<1> QED  BY <1>5, <1>14, <1>15 DEF HistoryInv

-----------------------------------------------------------------------------
PerksInv == PerkInv /\ AccountsInv /\ HistoryInv

LEMMA PerksInitial == PerksInit => PerksInv
<1> SUFFICES ASSUME PerksInit PROVE PerksInv
  OBVIOUS
<1>1. /\ coupons = [c \in {Promo} |-> NewCoupon(MaxUses, MaxUsesPerUser, NoUser)]
      /\ usages = {} /\ byHand = {} /\ referrals = [u \in {} |-> "pending"] /\ req = [r \in Requests |-> Unborn]
      /\ copy = NoCopy /\ faults = 0 /\ cashback = {}
      /\ accounts = Opening /\ history = <<>> /\ txn = [k \in Clerks |-> Resting]
  BY DEF PerksInit, CouponInit, LoyaltyInit
<1>2. PICK doc : doc = NewCoupon(MaxUses, MaxUsesPerUser, NoUser)
  OBVIOUS
<1>3. IsCoupon(doc) /\ doc.used = 0
  BY <1>2, CouponAssumption DEF NewCoupon, IsCoupon
<1>4. /\ DOMAIN coupons = {Promo} /\ coupons[Promo] = doc /\ coupons = [c \in DOMAIN coupons |-> coupons[c]]
      /\ DOMAIN referrals = {} /\ referrals = [u \in DOMAIN referrals |-> referrals[u]]
  BY <1>1, <1>2
<1>5. \A c, v : UsesOf(c) = {} /\ UsesBy(c, v) = {}
  BY <1>1 DEF UsesOf, UsesBy
<1>6. \A c, v : Cardinality(UsesOf(c)) = 0 /\ Cardinality(UsesBy(c, v)) = 0
  BY <1>5, FS_EmptySet
<1>7. doc.max \in Nat /\ doc.perUser \in Nat
  BY <1>3 DEF IsCoupon
<1>8. CouponsInv
  BY <1>1, <1>3, <1>4, <1>6, <1>7, FS_EmptySet DEF CouponsInv, Within
<1>9. RequestsInv
  BY <1>1 DEF RequestsInv, RequestOK, IsRequest, Unborn, Early, OwnUses
<1>10. ReferralsInv
  BY <1>1, <1>4, FS_EmptySet DEF ReferralsInv, Promo, Welcome
<1>11. AccountsInv
  BY <1>1, LoyaltyAssumption, PerksAssumption DEF AccountsInv, IsRow, Resting
<1>12. HistoryInv
  <2>1. history \in Seq({}) /\ Len(history) = 0
    BY <1>1
  <2> QED  BY <2>1 DEF HistoryInv, IsNotes
<1> QED  BY <1>8, <1>9, <1>10, <1>11, <1>12 DEF PerksInv, PerkInv

\* An order that earned for another phone is not credited: nothing is written.
LEMMA CountedEarnKeeps ==
  ASSUME AccountsInv, NEW k \in Clerks, CountEarned(k)
  PROVE  AccountsInv' /\ UNCHANGED history
<1>1. txn[k].pc = "earn" /\ IsRow(txn[k].row) /\ UNCHANGED <<accounts, history>>
  BY DEF AccountsInv, CountEarned
<1>2. CASE Ends(k)
  BY <1>1, <1>2, EndsKeeps DEF AccountsInv
<1>3. CASE txn' = [txn EXCEPT ![k].pc = "credit"]
  <2>1. PICK t : t = [txn[k] EXCEPT !.pc = "credit"]
    OBVIOUS
  <2>2. txn' = [txn EXCEPT ![k] = t]
    BY <1>3, <2>1
  <2>3. txn[k].row = t.row /\ (t.pc = "credit" \/ t.pc = "earn")
    BY <1>1, <2>1
  <2> QED  BY <1>1, <2>2, <2>3 DEF AccountsInv
<1> QED  BY <1>1, <1>2, <1>3 DEF CountEarned

LEMMA EarnedKeeps ==
  ASSUME PerksInv, NEW k, EarnPoints(k), k \in Clerks, UNCHANGED <<couponVars, cashback>>
  PROVE  PerksInv'
<1>1. PICK t : t = txn[k]
  OBVIOUS
<1>2. PICK points : points = OrderPoints * Multiplier(t.row.points)
  OBVIOUS
<1>3. /\ t.pc = "credit" /\ Ends(k)
      /\ accounts' = Credit(t.row, points) /\ Note(t.user, points, "earn", t.order)
  BY <1>1, <1>2 DEF EarnPoints
<1>4. IsRow(t.row)
  BY <1>1, <1>3 DEF PerksInv, AccountsInv
<1>5. AccountsInv'
  <2>1. \A a \in accounts' : IsRow(a)
    BY <1>3, <1>4, CreditIsRows DEF PerksInv, AccountsInv
  <2> QED  BY <1>3, <2>1, EndsKeeps DEF PerksInv
<1>6. PerkInv' /\ OrdersStay
  BY CouponsRest DEF PerksInv
<1>7. RewardsStay
  BY DEF RewardsStay, couponVars
<1>8. HistoryInv'
  BY <1>3, <1>6, <1>7, NotedKeeps DEF PerksInv
<1> QED  BY <1>5, <1>6, <1>8 DEF PerksInv

LEMMA BoughtKeeps ==
  ASSUME PerksInv, NEW k \in Clerks, NEW points, RedeemPoints(k, points)
  PROVE  PerksInv'
<1>1. PICK t : t = txn[k]
  OBVIOUS
<1>2. /\ t.pc = "redeem" /\ Ends(k) /\ accounts' = Credit(t.row, -points)
      /\ Note(t.user, -points, "redeem", NoClerk) /\ UNCHANGED referrals
  BY <1>1 DEF RedeemPoints, Redeem
<1>3. IsRow(t.row)
  BY <1>1, <1>2 DEF PerksInv, AccountsInv
<1>4. AccountsInv'
  BY <1>2, <1>3, CreditIsRows, EndsKeeps DEF PerksInv
<1>5. PerkInv' /\ OrdersStay
  BY RedeemedKeeps DEF PerksInv
<1>6. RewardsStay
  BY <1>2 DEF RewardsStay
<1>7. HistoryInv'
  BY <1>2, <1>5, <1>6, NotedKeeps DEF PerksInv
<1> QED  BY <1>4, <1>5, <1>7 DEF PerksInv

LEMMA PaidKeeps ==
  ASSUME PerksInv, NEW r \in Requests, Reward(r)
  PROVE  PerksInv'
<1>1. PerkInv' /\ OrdersStay
  BY RewardedKeeps DEF PerksInv
<1>2. accounts' = Credit(AccountOf(Friend), RewardPoints) /\ UNCHANGED txn
  BY DEF Reward, CreditReferral
<1>3. AccountsInv'
  BY <1>2, AccountIsRow, CreditIsRows, PerksAssumption DEF PerksInv, AccountsInv
<1>4. HistoryInv'
  BY <1>1, RewardNotes DEF PerksInv
<1> QED  BY <1>1, <1>3, <1>4 DEF PerksInv

LEMMA PerksStep == PerksInv /\ [PerksNext]_perkVars => PerksInv'
<1> SUFFICES ASSUME PerksInv, [PerksNext]_perkVars PROVE PerksInv'
  OBVIOUS
<1>1. CASE CouponNext /\ UNCHANGED <<loyaltyVars, cashback>>
  <2>1. PerkInv' /\ OrdersStay /\ RewardsStay
    BY <1>1, CouponStepKeeps, ReferralsStay DEF PerksInv
  <2>2. AccountsInv' /\ HistoryInv'
    BY <1>1, <2>1, HistoryStays DEF PerksInv, AccountsInv, loyaltyVars
  <2> QED  BY <2>1, <2>2 DEF PerksInv
<1>2. CASE CouponCrash /\ LoyaltyCrash /\ UNCHANGED cashback
  <2>1. PerkInv' /\ OrdersStay
    BY <1>2, CrashKeeps DEF PerksInv
  <2>2. RewardsStay
    BY <1>2 DEF CouponCrash, RewardsStay
  <2>3. HistoryInv'
    BY <1>2, <2>1, <2>2, HistoryStays DEF PerksInv, LoyaltyCrash
  <2>4. AccountsInv'
    BY <1>2 DEF PerksInv, AccountsInv, LoyaltyCrash, Resting
  <2> QED  BY <2>1, <2>3, <2>4 DEF PerksInv
<1>3. ASSUME NEW r \in Requests, Reward(r) PROVE PerksInv'
  BY <1>3, PaidKeeps
<1>4. ASSUME UNCHANGED <<couponVars, history, cashback>>, AccountsInv' PROVE PerksInv'
  <2>1. PerkInv' /\ OrdersStay
    BY <1>4, CouponsRest DEF PerksInv
  <2>2. RewardsStay
    BY <1>4 DEF RewardsStay, couponVars
  <2> QED  BY <1>4, <2>1, <2>2, HistoryStays DEF PerksInv
<1>5. ASSUME NEW r \in Requests, NEW k \in Clerks, NEW u \in Users, Earn(k, u, r) PROVE PerksInv'
  <2>2. AccountsInv' /\ UNCHANGED history
    BY <1>5, LockKeeps DEF Earn, PerksInv, LockLoyaltyAccount
  <2> QED  BY <1>4, <1>5, <2>2 DEF Earn
<1>6. ASSUME NEW k \in Clerks, NEW u \in Users, AskToRedeem(k, u) PROVE PerksInv'
  <2>1. AccountsInv' /\ UNCHANGED history
    BY <1>6, LockKeeps DEF AskToRedeem, PerksInv, LockLoyaltyAccount
  <2> QED  BY <1>4, <1>6, <2>1 DEF AskToRedeem
<1>7. ASSUME NEW k \in Clerks, EarnPoints(k) /\ UNCHANGED <<couponVars, cashback>> PROVE PerksInv'
  BY <1>7, EarnedKeeps
<1>8. ASSUME NEW k \in Clerks, RollBack(k) /\ UNCHANGED <<couponVars, cashback>> PROVE PerksInv'
  <2>1. AccountsInv' /\ UNCHANGED history
    BY <1>8, EndsKeeps DEF RollBack, PerksInv, AccountsInv
  <2> QED  BY <1>4, <1>8, <2>1
<1>9. ASSUME NEW k \in Clerks, NEW points \in Redemptions, RedeemPoints(k, points) PROVE PerksInv'
  BY <1>9, BoughtKeeps
<1>10. ASSUME NEW u \in Users, MergeDuplicates(u) /\ UNCHANGED <<couponVars, cashback>> PROVE PerksInv'
  <2>1. AccountsInv' /\ UNCHANGED history
    BY <1>10, MergeKeeps DEF MergeDuplicates, PerksInv
  <2> QED  BY <1>4, <1>10, <2>1
<1>12. ASSUME NEW k \in Clerks, CountEarned(k) /\ UNCHANGED <<couponVars, cashback>> PROVE PerksInv'
  <2>1. AccountsInv' /\ UNCHANGED history
    BY <1>12, CountedEarnKeeps DEF PerksInv
  <2> QED  BY <1>4, <1>12, <2>1
<1>11. CASE UNCHANGED perkVars
  <2>1. AccountsInv' /\ UNCHANGED <<couponVars, history, cashback>>
    BY <1>11 DEF perkVars, loyaltyVars, PerksInv, AccountsInv
  <2> QED  BY <1>4, <2>1
<1> QED
  BY <1>1, <1>2, <1>3, <1>5, <1>6, <1>7, <1>8, <1>9, <1>10, <1>11, <1>12 DEF PerksNext

LEMMA PerksImplied == PerksInv => CouponsKept
<1> SUFFICES ASSUME PerksInv PROVE CouponsKept
  OBVIOUS
<1>1. PerksTypeOK
  BY DEF PerksInv, PerkInv, AccountsInv, CouponsInv, ReferralsInv, IsCoupon, IsUse, IsRow, PerksTypeOK
<1>2. LimitsHeld /\ UsesCounted
  BY DEF PerksInv, PerkInv, CouponsInv, Within, LimitsHeld, UsesCounted
<1>3. NoUseWasted
  <2>1. \A s \in usages \ byHand : s.order \in Requests /\ s \in OwnUses(s.order)
    BY DEF PerksInv, PerkInv, CouponsInv, IsUse, OwnUses
  <2>2. \A o \in Requests : faults = 0 /\ OwnUses(o) # {} =>
          req[o].status # "none" \/ req[o].pc \in {"save", "release"}
    BY DEF PerksInv, PerkInv, RequestsInv, RequestOK
  <2> QED  BY <2>1, <2>2 DEF NoUseWasted, MadeOrRuns
<1>4. RewardedOnce
  BY DEF PerksInv, HistoryInv, Rewarded, RewardedOnce
<1> QED  BY <1>1, <1>2, <1>3, <1>4 DEF CouponsKept

-----------------------------------------------------------------------------
(* What the points add up to.  Who holds the lock of a phone holds the row of it  *)
(* that counts, and the rows of one phone can be told apart; so what a credit     *)
(* writes over is what it read.                                                 *)

LEMMA PointsGrow ==
  ASSUME NEW R, IsFiniteSet(R), \A a \in R : a.points \in Int, NEW x, x \notin R, x.points \in Int
  PROVE  PointsIn(R \cup {x}) = PointsIn(R) + x.points /\ PointsIn(R) \in Int
<1>1. PICK f : f = [a \in R |-> a.points]
  OBVIOUS
<1>2. PICK e : e = [a \in R \cup {x} |-> a.points]
  OBVIOUS
<1>3. PointsIn(R) = SumFunctionOnSet(f, R) /\ PointsIn(R \cup {x}) = SumFunctionOnSet(e, R \cup {x})
  BY <1>1, <1>2 DEF PointsIn, SumFunction
<1>4. e[x] = x.points /\ \A a \in R : f[a] = a.points /\ e[a] = f[a]
  BY <1>1, <1>2
<1> QED  BY <1>3, <1>4, SumGrows

LEMMA PointsOfNobody == PointsIn({}) = 0
BY SumOfNone DEF PointsIn, SumFunction

LEMMA PointsAreNat ==
  ASSUME NEW R, IsFiniteSet(R), \A a \in R : a.points \in Nat
  PROVE  PointsIn(R) \in Nat
<1>1. PICK f : f = [a \in R |-> a.points]
  OBVIOUS
<1>2. PointsIn(R) = SumFunctionOnSet(f, R)
  BY <1>1 DEF PointsIn, SumFunction
<1> QED  BY <1>1, <1>2, SumIsNat

RowsInv ==
  /\ IsFiniteSet(accounts) /\ \A a \in accounts : a.points \in Nat
  /\ \A a, b \in accounts : a.user = b.user /\ a.id = b.id => a = b

HoldsRow(k) == \E u \in Users : txn[k].user = u /\ lock[u] = k /\ txn[k].row = AccountOf(u)
LocksInv ==
  /\ lock = [u \in Users |-> lock[u]]
  /\ \A k \in Clerks : txn[k].pc # "idle" => HoldsRow(k)

NotesInv == IsNotes(history) /\ \A i \in Notes : history[i].points \in Int

CashInv ==
  /\ IsFiniteSet(cashback) /\ \A b \in cashback : b.value \in Int
  /\ \A b \in cashback : \E n \in 1..Cardinality(cashback) : b.code = <<"cashback", n>>

PointsInv == RowsInv /\ LocksInv /\ NotesInv /\ CashInv /\ PointsMatchHistory /\ PointsBuyTheirWorth

\* A credit to the account of a phone adds what it credits, and to no other.
LEMMA CreditCounts ==
  ASSUME AccountsInv, RowsInv, NEW u \in Users, NEW p \in Int, AccountOf(u).points + p \in Nat,
         accounts' = Credit(AccountOf(u), p)
  PROVE  /\ RowsInv' /\ \A v : v # u => RowsOf(v)' = RowsOf(v)
         /\ PointsIn(RowsOf(u))' = PointsIn(RowsOf(u)) + p /\ PointsIn(RowsOf(u)) \in Int
<1>1. PICK doc : doc = AccountOf(u)
  OBVIOUS
<1>2. IsRow(doc) /\ doc.user = u
  BY <1>1, AccountIsRow
<1>3. PICK new : new = [doc EXCEPT !.points = @ + p]
  OBVIOUS
<1>4. new = [id |-> doc.id, user |-> u, points |-> doc.points + p] /\ new.points \in Nat
  BY <1>1, <1>2, <1>3 DEF IsRow
<1>5. PICK R : R = RowsOf(u)
  OBVIOUS
<1>6. PICK gone : gone = {a \in R : a.id = doc.id}
  OBVIOUS
<1>7. accounts' = (accounts \ gone) \cup {new}
  BY <1>1, <1>2, <1>3, <1>5, <1>6 DEF Credit
<1>8. gone \subseteq R /\ R \subseteq accounts /\ \A a \in R : a.user = u
  BY <1>5, <1>6 DEF RowsOf
<1>9. RowsInv'
  <2>1. IsFiniteSet(accounts \ gone)
    BY FS_Subset DEF RowsInv
  <2>2. IsFiniteSet(accounts')
    BY <1>7, <2>1, FS_AddElement
  <2>3. \A a \in accounts' : a.points \in Nat
    BY <1>4, <1>7 DEF RowsInv
  <2>4. \A a \in accounts \ gone : ~(a.user = u /\ a.id = doc.id)
    BY <1>5, <1>6 DEF RowsOf
  <2>5. \A a, b \in accounts' : a.user = b.user /\ a.id = b.id => a = b
    BY <1>4, <1>7, <2>4 DEF RowsInv
  <2> QED  BY <2>2, <2>3, <2>5 DEF RowsInv
<1>10. \A v : v # u => RowsOf(v)' = RowsOf(v)
  BY <1>4, <1>7, <1>8 DEF RowsOf
<1>11. IsFiniteSet(R) /\ \A a \in R : a.points \in Nat
  BY <1>8, FS_Subset DEF RowsInv
<1>12. PICK rest : rest = R \ gone
  OBVIOUS
<1>13. RowsOf(u)' = rest \cup {new} /\ new \notin rest
  BY <1>4, <1>5, <1>6, <1>7, <1>8, <1>12 DEF RowsOf
<1>14. IsFiniteSet(rest) /\ \A a \in rest : a.points \in Int
  BY <1>11, <1>12, FS_Subset
<1>15. PointsIn(rest \cup {new}) = PointsIn(rest) + new.points /\ PointsIn(rest) \in Int
  BY <1>4, <1>13, <1>14, PointsGrow
<1>16. PointsIn(R) = PointsIn(rest) + doc.points /\ doc.points \in Nat
  <2>1. CASE R = {}
    <3>1. doc.points = 0
      BY <1>1, <1>5, <2>1 DEF AccountOf
    <3>2. rest = {}
      BY <1>12, <2>1
    <3> QED  BY <2>1, <3>1, <3>2, PointsOfNobody
  <2>2. CASE R # {}
    <3>1. doc \in R
      BY <1>1, <1>5, <2>2, OldestIsOne DEF AccountOf
    <3>2. gone = {doc}
      BY <1>6, <1>8, <3>1 DEF RowsInv
    <3>3. R = rest \cup {doc} /\ doc \notin rest /\ doc.points \in Nat
      BY <1>11, <1>12, <3>1, <3>2
    <3>4. doc.points \in Int
      BY <3>3
    <3>5. PointsIn(rest \cup {doc}) = PointsIn(rest) + doc.points
      BY <1>14, <3>3, <3>4, PointsGrow
    <3> QED  BY <3>3, <3>5
  <2> QED  BY <2>1, <2>2
<1>17. new.points = doc.points + p
  BY <1>4
<1>18. PointsIn(rest \cup {new}) = PointsIn(R) + p /\ PointsIn(R) \in Int
  BY <1>15, <1>16, <1>17
<1>19. PointsIn(RowsOf(u))' = PointsIn(rest \cup {new})
  BY <1>13 DEF PointsIn
<1> QED  BY <1>5, <1>9, <1>10, <1>18, <1>19

\* What a note says is added to what is noted of its phone, and of no other.
LEMMA NoteCounts ==
  ASSUME NotesInv, NEW u, NEW p \in Int, NEW type, NEW o, Note(u, p, type, o)
  PROVE  /\ NotesInv' /\ \A v : v # u => Noted(v)' = Noted(v)
         /\ Noted(u)' = Noted(u) + p /\ Noted(u) \in Int
         /\ PointsSpent' = PointsSpent + (IF type = "redeem" THEN -p ELSE 0) /\ PointsSpent \in Int
<1>1. PICK n : n = [user |-> u, points |-> p, type |-> type, order |-> o]
  OBVIOUS
<1>2. history' = Append(history, n) /\ n.user = u /\ n.points = p /\ n.type = type
  BY <1>1 DEF Note
<1>3. /\ IsNotes(history') /\ Len(history) \in Nat /\ Len(history') = Len(history) + 1
      /\ history'[Len(history')] = n /\ \A i \in 1..Len(history) : history'[i] = history[i]
  BY <1>2, Appended DEF NotesInv
<1>4. PICK last : last = Len(history) + 1
  OBVIOUS
<1>5. Notes' = Notes \cup {last} /\ last \notin Notes /\ history'[last] = n
  BY <1>3, <1>4 DEF Notes
<1>6. \A i \in Notes : history'[i] = history[i] /\ history[i].points \in Int
  BY <1>3 DEF Notes, NotesInv
<1>7. IsFiniteSet(Notes)
  BY <1>3, FS_Interval DEF Notes
<1>8. PICK f : f = [i \in Notes |-> history[i].points]
  OBVIOUS
<1>9. PICK e : e = [i \in Notes' |-> history'[i].points]
  OBVIOUS
<1>10. e[last] = p /\ \A i \in Notes : f[i] \in Int /\ e[i] = f[i]
  BY <1>2, <1>5, <1>6, <1>8, <1>9
<1>11. \A v : Noted(v) = SumFunctionOnSet(f, {i \in Notes : history[i].user = v})
  BY <1>8 DEF Noted
<1>12. \A v : Noted(v)' = SumFunctionOnSet(e, {i \in Notes' : history'[i].user = v})
  BY <1>9 DEF Noted
<1>13. \A v : IsFiniteSet({i \in Notes : history[i].user = v})
  BY <1>7, FS_Subset
<1>14. NotesInv'
  <2>1. \A i \in Notes' : history'[i].points \in Int
    BY <1>2, <1>5, <1>6
  <2> QED  BY <1>3, <2>1 DEF NotesInv
<1>15. ASSUME NEW v, v # u PROVE Noted(v)' = Noted(v)
  <2>1. PICK T : T = {i \in Notes : history[i].user = v}
    OBVIOUS
  <2>2. {i \in Notes' : history'[i].user = v} = T
    BY <1>2, <1>5, <1>6, <1>15, <2>1
  <2>3. IsFiniteSet(T) /\ \A i \in T : e[i] = f[i]
    BY <1>10, <1>13, <2>1
  <2>4. SumFunctionOnSet(e, T) = SumFunctionOnSet(f, T)
    BY <2>3, SumOfSame
  <2> QED  BY <1>11, <1>12, <2>1, <2>2, <2>4
<1>16. Noted(u)' = Noted(u) + p /\ Noted(u) \in Int
  <2>1. PICK T : T = {i \in Notes : history[i].user = u}
    OBVIOUS
  <2>2. {i \in Notes' : history'[i].user = u} = T \cup {last} /\ last \notin T
    BY <1>2, <1>5, <1>6, <2>1
  <2>3. IsFiniteSet(T) /\ \A i \in T : f[i] \in Int /\ e[i] = f[i]
    BY <1>10, <1>13, <2>1
  <2>4. e[last] \in Int
    BY <1>10
  <2>5. SumFunctionOnSet(e, T \cup {last}) = SumFunctionOnSet(f, T) + e[last] /\ SumFunctionOnSet(f, T) \in Int
    BY <2>2, <2>3, <2>4, SumGrows
  <2> QED  BY <1>10, <1>11, <1>12, <2>1, <2>2, <2>5
<1>17. PICK g : g = [i \in Notes |-> -history[i].points]
  OBVIOUS
<1>18. PICK h : h = [i \in Notes' |-> -history'[i].points]
  OBVIOUS
<1>19. h[last] = -p /\ \A i \in Notes : g[i] \in Int /\ h[i] = g[i]
  <2>1. h[last] = -history'[last].points
    BY <1>5, <1>18
  <2>2. h[last] = -p
    BY <1>2, <1>5, <2>1
  <2>3. ASSUME NEW i \in Notes PROVE g[i] \in Int /\ h[i] = g[i]
    <3>1. g[i] = -history[i].points /\ h[i] = -history'[i].points
      BY <1>5, <1>17, <1>18
    <3> QED  BY <1>6, <3>1
  <2> QED  BY <2>2, <2>3
<1>20. PICK T : T = {i \in Notes : history[i].type = "redeem"}
  OBVIOUS
<1>21. PointsSpent = SumFunctionOnSet(g, T) /\ IsFiniteSet(T) /\ \A i \in T : g[i] \in Int /\ h[i] = g[i]
  BY <1>7, <1>17, <1>19, <1>20, FS_Subset DEF PointsSpent
<1>22. PointsSpent' = SumFunctionOnSet(h, {i \in Notes' : history'[i].type = "redeem"})
  BY <1>18 DEF PointsSpent
<1>23. CASE type = "redeem"
  <2>1. {i \in Notes' : history'[i].type = "redeem"} = T \cup {last} /\ last \notin T
    BY <1>2, <1>5, <1>6, <1>20, <1>23
  <2>2. h[last] \in Int
    BY <1>19
  <2>3. SumFunctionOnSet(h, T \cup {last}) = SumFunctionOnSet(g, T) + h[last] /\ SumFunctionOnSet(g, T) \in Int
    BY <1>21, <2>1, <2>2, SumGrows
  <2> QED  BY <1>14, <1>15, <1>16, <1>19, <1>21, <1>22, <1>23, <2>1, <2>3
<1>24. CASE type # "redeem"
  <2>1. {i \in Notes' : history'[i].type = "redeem"} = T
    BY <1>2, <1>5, <1>6, <1>20, <1>24
  <2>2. SumFunctionOnSet(h, T) = SumFunctionOnSet(g, T)
    BY <1>21, SumOfSame
  <2>3. SumFunctionOnSet(g, T) \in Int
    BY <1>21, SumIsInt
  <2>4. PointsSpent' = PointsSpent /\ PointsSpent \in Int
    BY <1>21, <1>22, <2>1, <2>2, <2>3
  <2>5. PointsSpent' = PointsSpent + 0
    BY <2>4
  <2> QED  BY <1>14, <1>15, <1>16, <1>24, <2>4, <2>5
<1> QED  BY <1>23, <1>24

LEMMA AccountIsPaidUp ==
  ASSUME AccountsInv, RowsInv, NEW u \in Users
  PROVE  AccountOf(u).points \in Nat
<1>1. CASE RowsOf(u) = {}
  BY <1>1 DEF AccountOf
<1>2. CASE RowsOf(u) # {}
  BY <1>2, OldestIsOne DEF AccountOf, RowsOf, RowsInv
<1> QED  BY <1>1, <1>2

LEMMA OpeningCounts ==
  ASSUME NEW u
  PROVE  PointsIn({a \in Opening : a.user = u}) \in Nat
<1>1. PICK R : R = {a \in Opening : a.user = u}
  OBVIOUS
<1>2. IsFiniteSet(R) /\ \A a \in R : a.points \in Nat
  BY <1>1, LoyaltyAssumption, FS_Subset
<1> QED  BY <1>1, <1>2, PointsAreNat

\* Who is done lets go of the lock; whoever waits with another has its row still.
LEMMA EndsLocks ==
  ASSUME LocksInv, NEW k \in Clerks, Ends(k), txn[k].pc # "idle", txn = [c \in Clerks |-> txn[c]],
         \A v \in Users : v # txn[k].user => RowsOf(v)' = RowsOf(v)
  PROVE  LocksInv'
<1>1. PICK rest : rest = Resting
  OBVIOUS
<1>2. rest.pc = "idle" /\ txn' = [txn EXCEPT ![k] = rest]
  BY <1>1 DEF Ends, Resting
<1>3. lock' = [u \in Users |-> IF lock[u] = k THEN NoClerk ELSE lock[u]]
  BY PerksAssumption DEF Ends
<1>4. ASSUME NEW c \in Clerks, txn'[c].pc # "idle" PROVE HoldsRow(c)'
  <2>1. c # k /\ txn'[c] = txn[c]
    BY <1>2, <1>4
  <2>2. PICK u \in Users : txn[c].user = u /\ lock[u] = c /\ txn[c].row = AccountOf(u)
    BY <1>4, <2>1 DEF LocksInv, HoldsRow
  <2>3. u # txn[k].user
    BY <2>1, <2>2 DEF LocksInv, HoldsRow
  <2>4. AccountOf(u)' = AccountOf(u)
    BY <2>2, <2>3 DEF AccountOf
  <2>5. lock'[u] = c
    BY <1>3, <2>1, <2>2
  <2> QED  BY <2>1, <2>2, <2>4, <2>5 DEF HoldsRow
<1>5. lock' = [u \in Users |-> lock'[u]]
  BY <1>3
<1> QED  BY <1>4, <1>5 DEF LocksInv

LEMMA FreeLocks ==
  ASSUME LocksInv, NEW u, lock[u] = NoClerk, UNCHANGED <<lock, txn>>,
         \A v \in Users : v # u => RowsOf(v)' = RowsOf(v)
  PROVE  LocksInv'
<1>1. ASSUME NEW c \in Clerks, txn[c].pc # "idle" PROVE HoldsRow(c)'
  <2>1. PICK v \in Users : txn[c].user = v /\ lock[v] = c /\ txn[c].row = AccountOf(v)
    BY <1>1 DEF LocksInv, HoldsRow
  <2>2. v # u
    BY <2>1, LoyaltyAssumption
  <2>3. AccountOf(v)' = AccountOf(v)
    BY <2>2 DEF AccountOf
  <2> QED  BY <2>1, <2>3 DEF HoldsRow
<1> QED  BY <1>1 DEF LocksInv

LEMMA TakesLock ==
  ASSUME LocksInv, NEW k \in Clerks, NEW u \in Users, NEW pc, NEW o, LockLoyaltyAccount(k, pc, u, o),
         txn = [c \in Clerks |-> txn[c]]
  PROVE  LocksInv'
<1>1. PICK t : t = [pc |-> pc, user |-> u, row |-> AccountOf(u), order |-> o]
  OBVIOUS
<1>2. /\ txn' = [txn EXCEPT ![k] = t] /\ UNCHANGED accounts
      /\ lock[u] = NoClerk /\ lock' = [lock EXCEPT ![u] = k]
  BY <1>1 DEF LockLoyaltyAccount, Begins
<1>3. t.user = u /\ t.row = AccountOf(u)
  BY <1>1
<1>4. \A v : AccountOf(v)' = AccountOf(v)
  BY <1>2 DEF AccountOf, RowsOf
<1>5. ASSUME NEW c \in Clerks, txn'[c].pc # "idle" PROVE HoldsRow(c)'
  <2>1. CASE c = k
    <3>1. txn'[c] = t /\ lock'[u] = k
      BY <1>2, <2>1 DEF LocksInv
    <3> QED  BY <1>3, <1>4, <2>1, <3>1 DEF HoldsRow
  <2>2. CASE c # k
    <3>1. txn'[c] = txn[c]
      BY <1>2, <2>2
    <3>2. PICK v \in Users : txn[c].user = v /\ lock[v] = c /\ txn[c].row = AccountOf(v)
      BY <1>5, <3>1 DEF LocksInv, HoldsRow
    <3>3. v # u
      BY <1>2, <3>2, LoyaltyAssumption
    <3>4. lock'[v] = c
      BY <1>2, <3>2, <3>3 DEF LocksInv
    <3> QED  BY <1>4, <3>1, <3>2, <3>4 DEF HoldsRow
  <2> QED  BY <2>1, <2>2
<1>6. lock' = [v \in Users |-> lock'[v]]
  BY <1>2 DEF LocksInv
<1> QED  BY <1>5, <1>6 DEF LocksInv

\* A credit and its note go together.
LEMMA MatchMoves ==
  ASSUME PointsMatchHistory, NEW u \in Users, NEW p \in Int,
         PointsIn(RowsOf(u))' = PointsIn(RowsOf(u)) + p, Noted(u)' = Noted(u) + p,
         PointsIn(RowsOf(u)) \in Int, Noted(u) \in Int,
         \A v \in Users : v # u => RowsOf(v)' = RowsOf(v) /\ Noted(v)' = Noted(v)
  PROVE  PointsMatchHistory'
<1>1. ASSUME NEW v \in Users
      PROVE  PointsIn(RowsOf(v))' = PointsIn({a \in Opening : a.user = v}) + Noted(v)'
  <2>1. PICK b : b = PointsIn({a \in Opening : a.user = v})
    OBVIOUS
  <2>2. PointsIn(RowsOf(v)) = b + Noted(v) /\ b \in Int
    <3>1. PointsIn(RowsOf(v)) = PointsIn({a \in Opening : a.user = v}) + Noted(v)
      BY PerksAssumption DEF PointsMatchHistory
    <3>2. PointsIn({a \in Opening : a.user = v}) \in Nat
      BY OpeningCounts
    <3> QED  BY <2>1, <3>1, <3>2
  <2>3. CASE v = u
    BY <2>1, <2>2, <2>3
  <2>4. CASE v # u
    <3>1. PointsIn(RowsOf(v))' = PointsIn(RowsOf(v))
      BY <2>4 DEF PointsIn
    <3> QED  BY <2>1, <2>2, <2>4, <3>1
  <2> QED  BY <2>3, <2>4
<1> QED  BY <1>1, PerksAssumption DEF PointsMatchHistory

LEMMA CashStays ==
  ASSUME CashInv, UNCHANGED cashback
  PROVE  CashInv' /\ CashBack' = CashBack
BY DEF CashInv, CashBack

\* Whatever leaves the accounts and the history alone, and keeps the locks right.
LEMMA PointsRest ==
  ASSUME PointsInv, UNCHANGED <<accounts, history, cashback>>, LocksInv'
  PROVE  PointsInv'
<1>1. RowsInv' /\ NotesInv' /\ CashInv' /\ CashBack' = CashBack
  BY CashStays DEF PointsInv, RowsInv, NotesInv, Notes
<1>2. PointsMatchHistory'
  BY DEF PointsInv, PointsMatchHistory, PointsIn, RowsOf, Noted, Notes
<1>3. PointsBuyTheirWorth'
  BY <1>1 DEF PointsInv, PointsBuyTheirWorth, PointsSpent, Notes
<1> QED  BY <1>1, <1>2, <1>3 DEF PointsInv

LEMMA PointsInitial == PerksInit => PointsInv
<1> SUFFICES ASSUME PerksInit PROVE PointsInv
  OBVIOUS
<1>1. /\ accounts = Opening /\ history = <<>> /\ txn = [k \in Clerks |-> Resting] /\ cashback = {}
      /\ lock = [u \in Users |-> NoClerk]
  BY PerksAssumption DEF PerksInit, LoyaltyInit
<1>2. RowsInv
  BY <1>1, LoyaltyAssumption DEF RowsInv
<1>3. LocksInv
  BY <1>1 DEF LocksInv, Resting
<1>4. history \in Seq({}) /\ Len(history) = 0
  BY <1>1
<1>5. Notes = {}
  BY <1>4 DEF Notes
<1>6. NotesInv
  BY <1>4, <1>5 DEF NotesInv, IsNotes
<1>7. CashInv
  BY <1>1, FS_EmptySet DEF CashInv
<1>8. \A v : Noted(v) = 0
  <2> SUFFICES ASSUME NEW v PROVE Noted(v) = 0
    OBVIOUS
  <2>1. PICK f : f = [i \in Notes |-> history[i].points]
    OBVIOUS
  <2>2. {i \in Notes : history[i].user = v} = {}
    BY <1>5
  <2> QED  BY <2>1, <2>2, SumOfNone DEF Noted
<1>9. PointsMatchHistory
  <2> SUFFICES ASSUME NEW u \in Members
               PROVE  PointsIn(RowsOf(u)) = PointsIn({a \in Opening : a.user = u}) + Noted(u)
    BY DEF PointsMatchHistory
  <2>1. RowsOf(u) = {a \in Opening : a.user = u}
    BY <1>1 DEF RowsOf
  <2>2. PICK n : n = PointsIn({a \in Opening : a.user = u})
    OBVIOUS
  <2>3. n \in Nat
    BY <2>2, OpeningCounts, Zenon
  <2> QED  BY <1>8, <2>1, <2>2, <2>3
<1>10. PointsBuyTheirWorth
  <2>1. PICK f : f = [i \in Notes |-> -history[i].points]
    OBVIOUS
  <2>2. {i \in Notes : history[i].type = "redeem"} = {}
    BY <1>5
  <2>3. PointsSpent = 0
    BY <2>1, <2>2, SumOfNone DEF PointsSpent
  <2>4. PICK g : g = [b \in cashback |-> b.value]
    OBVIOUS
  <2>5. CashBack = SumFunctionOnSet(g, {})
    BY <1>1, <2>4 DEF CashBack, SumFunction
  <2>6. CashBack = 0
    BY <2>5, SumOfNone
  <2> QED  BY <2>3, <2>6, LoyaltyAssumption DEF PointsBuyTheirWorth
<1> QED  BY <1>2, <1>3, <1>6, <1>7, <1>9, <1>10 DEF PointsInv

\* A transaction that credits the account it holds and notes it.
LEMMA HeldCredit ==
  ASSUME AccountsInv, PointsInv, NEW k \in Clerks, NEW t, t = txn[k], t.pc # "idle", Ends(k),
         NEW p \in Int, t.row.points + p \in Nat, accounts' = Credit(t.row, p),
         NEW type, NEW o, Note(t.user, p, type, o)
  PROVE  RowsInv' /\ LocksInv' /\ NotesInv' /\ PointsMatchHistory' /\ PointsSpent \in Int
         /\ PointsSpent' = PointsSpent + (IF type = "redeem" THEN -p ELSE 0)
<1>1. PICK u : u = t.user
  OBVIOUS
<1>2. u \in Users /\ t.row = AccountOf(u)
  BY <1>1 DEF PointsInv, LocksInv, HoldsRow
<1>3. /\ RowsInv' /\ \A v : v # u => RowsOf(v)' = RowsOf(v)
      /\ PointsIn(RowsOf(u))' = PointsIn(RowsOf(u)) + p /\ PointsIn(RowsOf(u)) \in Int
  BY <1>2, CreditCounts DEF PointsInv
<1>4. Note(u, p, type, o)
  BY <1>1
<1>5. /\ NotesInv' /\ \A v : v # u => Noted(v)' = Noted(v)
      /\ Noted(u)' = Noted(u) + p /\ Noted(u) \in Int
      /\ PointsSpent' = PointsSpent + (IF type = "redeem" THEN -p ELSE 0) /\ PointsSpent \in Int
  BY <1>4, NoteCounts DEF PointsInv
<1>6. LocksInv'
  BY <1>1, <1>3, EndsLocks DEF PointsInv, AccountsInv
<1>7. PointsMatchHistory'
  BY <1>2, <1>3, <1>5, MatchMoves DEF PointsInv
<1> QED  BY <1>3, <1>5, <1>6, <1>7

LEMMA EarnedCounts ==
  ASSUME AccountsInv, PointsInv, NEW k \in Clerks, EarnPoints(k), UNCHANGED cashback
  PROVE  PointsInv'
<1>1. PICK t : t = txn[k]
  OBVIOUS
<1>2. PICK p : p = OrderPoints * Multiplier(t.row.points)
  OBVIOUS
<1>3. /\ t.pc = "credit" /\ Ends(k)
      /\ accounts' = Credit(t.row, p) /\ Note(t.user, p, "earn", t.order)
  BY <1>1, <1>2 DEF EarnPoints
<1>4. t.user \in Users /\ t.row = AccountOf(t.user)
  BY <1>1, <1>3 DEF PointsInv, LocksInv, HoldsRow
<1>5. t.row.points \in Nat
  BY <1>4, AccountIsPaidUp DEF PointsInv
<1>6. p \in Nat
  <2>1. Multiplier(t.row.points) \in {1, 2}
    BY DEF Multiplier
  <2> QED  BY <1>2, <2>1, LoyaltyAssumption
<1>7. p \in Int /\ t.row.points + p \in Nat /\ t.pc # "idle"
  BY <1>3, <1>5, <1>6
<1>8. /\ RowsInv' /\ LocksInv' /\ NotesInv' /\ PointsMatchHistory' /\ PointsSpent \in Int
      /\ PointsSpent' = PointsSpent + (IF "earn" = "redeem" THEN -p ELSE 0)
  BY <1>1, <1>3, <1>7, HeldCredit
<1>9. PointsSpent' = PointsSpent
  BY <1>8
<1>10. CashInv' /\ CashBack' = CashBack
  BY CashStays DEF PointsInv
<1>11. PointsBuyTheirWorth'
  BY <1>9, <1>10 DEF PointsInv, PointsBuyTheirWorth
<1> QED  BY <1>8, <1>10, <1>11 DEF PointsInv

\* Who finds that the order has not earned goes on with the row it holds.
LEMMA CountedLocks ==
  ASSUME AccountsInv, LocksInv, NEW k \in Clerks, CountEarned(k)
  PROVE  LocksInv'
<1>1. /\ txn[k].pc = "earn" /\ UNCHANGED <<accounts, history>>
      /\ txn = [c \in Clerks |-> txn[c]] /\ \A v : AccountOf(v)' = AccountOf(v)
  BY DEF CountEarned, AccountsInv, AccountOf, RowsOf
<1>2. CASE Ends(k)
  BY <1>1, <1>2, EndsLocks DEF RowsOf
<1>3. CASE txn' = [txn EXCEPT ![k].pc = "credit"] /\ UNCHANGED lock
  <2>1. PICK t : t = [txn[k] EXCEPT !.pc = "credit"]
    OBVIOUS
  <2>2. txn' = [txn EXCEPT ![k] = t] /\ t.user = txn[k].user /\ t.row = txn[k].row
    BY <1>3, <2>1
  <2>3. ASSUME NEW c \in Clerks, txn'[c].pc # "idle" PROVE HoldsRow(c)'
    <3>1. txn'[c].user = txn[c].user /\ txn'[c].row = txn[c].row /\ txn[c].pc # "idle"
      BY <1>1, <2>2, <2>3
    <3>2. PICK u \in Users : txn[c].user = u /\ lock[u] = c /\ txn[c].row = AccountOf(u)
      BY <3>1 DEF LocksInv, HoldsRow
    <3> QED  BY <1>1, <1>3, <3>1, <3>2 DEF HoldsRow
  <2> QED  BY <1>3, <2>3 DEF LocksInv
<1> QED  BY <1>2, <1>3 DEF CountEarned

LEMMA WholeCoupons ==
  ASSUME NEW n \in Nat \ {0}, NEW p \in Nat, p % n = 0
  PROVE  p \div n \in Nat /\ p = n * (p \div n)
OBVIOUS

LEMMA Distributes ==
  ASSUME NEW n \in Int, NEW a \in Int, NEW b \in Int
  PROVE  n * (a + b) = n * a + n * b /\ n * a \in Int /\ n * b \in Int
OBVIOUS

LEMMA BoughtCounts ==
  ASSUME AccountsInv, PointsInv, NEW k \in Clerks, NEW points \in Redemptions, RedeemPoints(k, points)
  PROVE  PointsInv'
<1>1. PICK t : t = txn[k]
  OBVIOUS
<1>2. PICK value : value = points \div PointsPerReal
  OBVIOUS
<1>3. PICK b : b = [code |-> CashbackCode, user |-> t.user, value |-> value]
  OBVIOUS
<1>4. /\ t.pc = "redeem" /\ Ends(k) /\ points <= t.row.points /\ points % PointsPerReal = 0
      /\ accounts' = Credit(t.row, -points) /\ Note(t.user, -points, "redeem", NoClerk)
      /\ cashback' = cashback \cup {b}
  BY <1>1, <1>2, <1>3 DEF RedeemPoints, Redeem
<1>5. points \in Nat /\ value \in Nat /\ points = PointsPerReal * value
  <2>1. points \in Nat /\ PointsPerReal \in Nat \ {0}
    BY PerksAssumption, LoyaltyAssumption
  <2> QED  BY <1>2, <1>4, <2>1, WholeCoupons
<1>6. t.row.points \in Nat
  <2>1. t.user \in Users /\ t.row = AccountOf(t.user)
    BY <1>1, <1>4 DEF PointsInv, LocksInv, HoldsRow
  <2> QED  BY <2>1, AccountIsPaidUp DEF PointsInv
<1>7. -points \in Int /\ t.row.points + (-points) \in Nat /\ t.pc # "idle"
  BY <1>4, <1>5, <1>6
<1>8. /\ RowsInv' /\ LocksInv' /\ NotesInv' /\ PointsMatchHistory' /\ PointsSpent \in Int
      /\ PointsSpent' = PointsSpent + (IF "redeem" = "redeem" THEN -(-points) ELSE 0)
  BY <1>1, <1>4, <1>7, HeldCredit
<1>9. PointsSpent' = PointsSpent + points
  BY <1>5, <1>8
<1>10. PICK n : n = Cardinality(cashback)
  OBVIOUS
<1>11. IsFiniteSet(cashback) /\ n \in Nat /\ b.code = <<"cashback", n + 1>> /\ b.value = value
  BY <1>3, <1>10, FS_CardinalityType DEF PointsInv, CashInv, CashbackCode
<1>12. b \notin cashback
  <2> SUFFICES ASSUME b \in cashback PROVE FALSE
    OBVIOUS
  <2>1. PICK m \in 1..n : b.code = <<"cashback", m>>
    BY <1>10 DEF PointsInv, CashInv
  <2>2. m = n + 1
    BY <1>11, <2>1
  <2> QED  BY <1>11, <2>2
<1>13. IsFiniteSet(cashback') /\ Cardinality(cashback') = n + 1
  BY <1>4, <1>10, <1>11, <1>12, FS_AddElement
<1>14. CashInv'
  <2>1. \A c \in cashback' : c.value \in Int
    BY <1>4, <1>5, <1>11 DEF PointsInv, CashInv
  <2>2. \A c \in cashback' : \E m \in 1..(n + 1) : c.code = <<"cashback", m>>
    <3>1. 1..n \subseteq 1..(n + 1) /\ n + 1 \in 1..(n + 1)
      BY <1>11
    <3> QED  BY <1>4, <1>10, <1>11, <3>1 DEF PointsInv, CashInv
  <2> QED  BY <1>13, <2>1, <2>2 DEF CashInv
<1>15. CashBack' = CashBack + value /\ CashBack \in Int
  <2>1. PICK f : f = [c \in cashback |-> c.value]
    OBVIOUS
  <2>2. PICK e : e = [c \in cashback' |-> c.value]
    OBVIOUS
  <2>3. CashBack = SumFunctionOnSet(f, cashback) /\ CashBack' = SumFunctionOnSet(e, cashback \cup {b})
    BY <1>4, <2>1, <2>2 DEF CashBack, SumFunction
  <2>4. e[b] = value /\ \A c \in cashback : f[c] = c.value /\ e[c] = f[c]
    BY <1>4, <1>11, <2>1, <2>2
  <2>5. e[b] \in Int /\ \A c \in cashback : f[c] \in Int /\ e[c] = f[c]
    BY <1>5, <2>4 DEF PointsInv, CashInv
  <2>6. SumFunctionOnSet(e, cashback \cup {b}) = SumFunctionOnSet(f, cashback) + e[b] /\ SumFunctionOnSet(f, cashback) \in Int
    BY <1>11, <1>12, <2>5, SumGrows
  <2> QED  BY <2>3, <2>4, <2>6
<1>16. PointsBuyTheirWorth'
  <2>1. PointsSpent = PointsPerReal * CashBack
    BY DEF PointsInv, PointsBuyTheirWorth
  <2>2. PointsPerReal \in Int /\ value \in Int
    BY <1>5, LoyaltyAssumption
  <2>3. PointsPerReal * (CashBack + value) = PointsPerReal * CashBack + PointsPerReal * value
    BY <1>15, <2>2, Distributes
  <2> QED  BY <1>5, <1>9, <1>15, <2>1, <2>3 DEF PointsBuyTheirWorth
<1> QED  BY <1>8, <1>14, <1>16 DEF PointsInv

LEMMA RewardCounts ==
  ASSUME AccountsInv, PointsInv, NEW r, Reward(r)
  PROVE  PointsInv'
<1>1. /\ lock[Friend] = NoClerk /\ accounts' = Credit(AccountOf(Friend), RewardPoints)
      /\ Note(Friend, RewardPoints, "referral", r) /\ UNCHANGED <<lock, txn, cashback>>
  BY DEF Reward, CreditReferral
<1>2. Friend \in Users /\ RewardPoints \in Nat /\ AccountOf(Friend).points \in Nat
  BY PerksAssumption, AccountIsPaidUp DEF PointsInv
<1>3. RewardPoints \in Int /\ AccountOf(Friend).points + RewardPoints \in Nat
  BY <1>2
<1>4. /\ RowsInv' /\ \A v : v # Friend => RowsOf(v)' = RowsOf(v)
      /\ PointsIn(RowsOf(Friend))' = PointsIn(RowsOf(Friend)) + RewardPoints /\ PointsIn(RowsOf(Friend)) \in Int
  BY <1>1, <1>2, <1>3, CreditCounts DEF PointsInv
<1>5. /\ NotesInv' /\ \A v : v # Friend => Noted(v)' = Noted(v)
      /\ Noted(Friend)' = Noted(Friend) + RewardPoints /\ Noted(Friend) \in Int
      /\ PointsSpent' = PointsSpent + (IF "referral" = "redeem" THEN -RewardPoints ELSE 0) /\ PointsSpent \in Int
  BY <1>1, <1>3, NoteCounts DEF PointsInv
<1>6. PointsSpent' = PointsSpent
  BY <1>5
<1>7. LocksInv'
  BY <1>1, <1>4, FreeLocks DEF PointsInv
<1>8. PointsMatchHistory'
  BY <1>2, <1>3, <1>4, <1>5, MatchMoves DEF PointsInv
<1>9. CashInv' /\ CashBack' = CashBack
  BY <1>1, CashStays DEF PointsInv
<1>10. PointsBuyTheirWorth'
  BY <1>6, <1>9 DEF PointsInv, PointsBuyTheirWorth
<1> QED  BY <1>4, <1>5, <1>7, <1>8, <1>9, <1>10 DEF PointsInv

LEMMA MergeCounts ==
  ASSUME AccountsInv, PointsInv, NEW u \in Users, MergeDuplicates(u), UNCHANGED cashback
  PROVE  PointsInv'
<1>1. PICK R : R = RowsOf(u)
  OBVIOUS
<1>2. PICK old : old = Oldest(R)
  OBVIOUS
<1>3. PICK total : total = PointsIn(R)
  OBVIOUS
<1>4. PICK new : new = [old EXCEPT !.points = total]
  OBVIOUS
<1>5. /\ accounts' = (accounts \ R) \cup {new} /\ Cardinality(R) > 1 /\ lock[u] = NoClerk
      /\ UNCHANGED <<history, lock, txn>>
  BY <1>1, <1>2, <1>3, <1>4 DEF MergeDuplicates
<1>6. R # {}
  BY <1>5, FS_EmptySet
<1>7. old \in R /\ R \subseteq accounts /\ \A a \in R : a.user = u
  BY <1>1, <1>2, <1>6, OldestIsOne DEF RowsOf
<1>8. IsRow(old) /\ old.user = u
  BY <1>7 DEF AccountsInv
<1>9. new = [id |-> old.id, user |-> u, points |-> total]
  BY <1>4, <1>8 DEF IsRow
<1>10. IsFiniteSet(R) /\ \A a \in R : a.points \in Nat
  BY <1>7, FS_Subset DEF PointsInv, RowsInv
<1>11. total \in Nat
  BY <1>3, <1>10, PointsAreNat
<1>12. RowsInv'
  <2>1. IsFiniteSet(accounts \ R)
    BY FS_Subset DEF PointsInv, RowsInv
  <2>2. IsFiniteSet(accounts')
    BY <1>5, <2>1, FS_AddElement
  <2>3. \A a \in accounts' : a.points \in Nat
    BY <1>5, <1>9, <1>11 DEF PointsInv, RowsInv
  <2>4. \A a \in accounts \ R : a.user # u
    BY <1>1 DEF RowsOf
  <2>5. \A a, b \in accounts' : a.user = b.user /\ a.id = b.id => a = b
    BY <1>5, <1>9, <2>4 DEF PointsInv, RowsInv
  <2> QED  BY <2>2, <2>3, <2>5 DEF RowsInv
<1>13. \A v : v # u => RowsOf(v)' = RowsOf(v)
  BY <1>5, <1>7, <1>9 DEF RowsOf
<1>14. RowsOf(u)' = {} \cup {new}
  BY <1>1, <1>5, <1>9 DEF RowsOf
<1>15. PointsIn({} \cup {new}) = PointsIn({}) + new.points
  <2>1. IsFiniteSet({}) /\ new.points \in Int
    BY <1>9, <1>11, FS_EmptySet
  <2> QED  BY <2>1, PointsGrow
<1>16. PointsIn({} \cup {new}) = total
  BY <1>9, <1>11, <1>15, PointsOfNobody
<1>17. PointsIn(RowsOf(u))' = PointsIn(RowsOf(u))
  <2>1. PointsIn(RowsOf(u))' = PointsIn({} \cup {new})
    BY <1>14 DEF PointsIn
  <2> QED  BY <1>1, <1>3, <1>16, <2>1
<1>18. LocksInv'
  BY <1>5, <1>13, FreeLocks DEF PointsInv
<1>19. NotesInv' /\ (\A v : Noted(v)' = Noted(v)) /\ PointsSpent' = PointsSpent
  BY <1>5 DEF PointsInv, NotesInv, Noted, Notes, PointsSpent
<1>20. PointsMatchHistory'
  <2>1. \A v : PointsIn(RowsOf(v))' = PointsIn(RowsOf(v))
    BY <1>13, <1>17 DEF PointsIn
  <2> QED  BY <1>19, <2>1 DEF PointsInv, PointsMatchHistory
<1>21. CashInv' /\ CashBack' = CashBack
  BY CashStays DEF PointsInv
<1>22. PointsBuyTheirWorth'
  BY <1>19, <1>21 DEF PointsInv, PointsBuyTheirWorth
<1> QED  BY <1>12, <1>18, <1>19, <1>20, <1>21, <1>22 DEF PointsInv

LEMMA PointsStep == PerksInv /\ PointsInv /\ [PerksNext]_perkVars => PointsInv'
<1> SUFFICES ASSUME PerksInv, PointsInv, [PerksNext]_perkVars PROVE PointsInv'
  OBVIOUS
<1>1. AccountsInv /\ txn = [c \in Clerks |-> txn[c]]
  BY DEF PerksInv, AccountsInv
<1>2. ASSUME UNCHANGED <<loyaltyVars, cashback>> PROVE PointsInv'
  <2>1. UNCHANGED <<accounts, history, lock, txn, cashback>>
    BY <1>2 DEF loyaltyVars
  <2>2. LocksInv'
    BY <2>1 DEF PointsInv, LocksInv, HoldsRow, AccountOf, RowsOf
  <2> QED  BY <2>1, <2>2, PointsRest
<1>3. CASE CouponCrash /\ LoyaltyCrash /\ UNCHANGED cashback
  <2>1. LocksInv'
    BY <1>3, PerksAssumption DEF LoyaltyCrash, LocksInv, Resting
  <2> QED  BY <1>3, <2>1, PointsRest DEF LoyaltyCrash
<1>4. ASSUME NEW r \in Requests, Reward(r) PROVE PointsInv'
  BY <1>1, <1>4, RewardCounts
<1>5. ASSUME NEW r \in Requests, NEW k \in Clerks, NEW u \in Users, Earn(k, u, r) PROVE PointsInv'
  <2>2. LocksInv' /\ UNCHANGED <<accounts, history, cashback>>
    BY <1>1, <1>5, TakesLock DEF Earn, PointsInv, LockLoyaltyAccount
  <2> QED  BY <2>2, PointsRest
<1>6. ASSUME NEW k \in Clerks, NEW u \in Users, AskToRedeem(k, u) PROVE PointsInv'
  <2>1. LocksInv' /\ UNCHANGED <<accounts, history, cashback>>
    BY <1>1, <1>6, TakesLock DEF AskToRedeem, PointsInv, LockLoyaltyAccount
  <2> QED  BY <2>1, PointsRest
<1>7. ASSUME NEW k \in Clerks, EarnPoints(k) /\ UNCHANGED <<couponVars, cashback>> PROVE PointsInv'
  BY <1>1, <1>7, EarnedCounts
<1>8. ASSUME NEW k \in Clerks, RollBack(k) /\ UNCHANGED <<couponVars, cashback>> PROVE PointsInv'
  <2>1. txn[k].pc # "idle" /\ Ends(k) /\ UNCHANGED <<accounts, history, cashback>>
    BY <1>8 DEF RollBack
  <2>2. LocksInv'
    BY <1>1, <2>1, EndsLocks DEF PointsInv, RowsOf
  <2> QED  BY <2>1, <2>2, PointsRest
<1>9. ASSUME NEW k \in Clerks, NEW points \in Redemptions, RedeemPoints(k, points) PROVE PointsInv'
  BY <1>1, <1>9, BoughtCounts
<1>10. ASSUME NEW u \in Users, MergeDuplicates(u) /\ UNCHANGED <<couponVars, cashback>> PROVE PointsInv'
  BY <1>1, <1>10, MergeCounts
<1>11. ASSUME NEW k \in Clerks, CountEarned(k) /\ UNCHANGED <<couponVars, cashback>> PROVE PointsInv'
  <2>1. UNCHANGED <<accounts, history, cashback>> /\ LocksInv'
    BY <1>1, <1>11, CountedLocks DEF CountEarned, PointsInv
  <2> QED  BY <2>1, PointsRest
<1>12. CASE UNCHANGED perkVars
  BY <1>2, <1>12 DEF perkVars
<1> QED
  BY <1>2, <1>3, <1>4, <1>5, <1>6, <1>7, <1>8, <1>9, <1>10, <1>11, <1>12 DEF PerksNext

-----------------------------------------------------------------------------
(* A phone earns an order once: who is about to note it holds the lock of the     *)
(* phone since before it counted.                                               *)

Earned(u, o) == \E i \in 1..Len(history) :
                  history[i].type = "earn" /\ history[i].order = o /\ history[i].user = u
EarnInv ==
  /\ EarnedOnce
  /\ \A k \in Clerks : txn[k].pc = "credit" => ~Earned(txn[k].user, txn[k].order)

\* Nobody comes to credit by this, and nothing is noted.
LEMMA EarnRests ==
  ASSUME EarnInv, UNCHANGED history,
         \A c \in Clerks : txn'[c].pc = "credit" => txn'[c] = txn[c]
  PROVE  EarnInv'
BY DEF EarnInv, EarnedOnce, Earned

LEMMA EarnOnEnd ==
  ASSUME EarnInv, AccountsInv, NEW k, Ends(k), UNCHANGED history
  PROVE  EarnInv'
<1>1. \A c \in Clerks : txn'[c].pc = "credit" => txn'[c] = txn[c]
  BY DEF Ends, Resting, AccountsInv
<1> QED  BY <1>1, EarnRests

LEMMA EarnOnLock ==
  ASSUME EarnInv, AccountsInv, NEW k, NEW pc \in {"earn", "redeem"}, NEW u, NEW o, LockLoyaltyAccount(k, pc, u, o)
  PROVE  EarnInv'
<1>1. PICK t : t = [pc |-> pc, user |-> u, row |-> AccountOf(u), order |-> o]
  OBVIOUS
<1>2. txn' = [txn EXCEPT ![k] = t] /\ t.pc # "credit" /\ UNCHANGED history
  BY <1>1 DEF LockLoyaltyAccount, Begins
<1>3. \A c \in Clerks : txn'[c].pc = "credit" => txn'[c] = txn[c]
  BY <1>2 DEF AccountsInv
<1> QED  BY <1>2, <1>3, EarnRests

\* What is noted is no earning, or the first of that order by that phone.
LEMMA EarnNotes ==
  ASSUME EarnInv, IsNotes(history), NEW u, NEW p, NEW type, NEW o, Note(u, p, type, o),
         type = "earn" => ~Earned(u, o),
         \A c \in Clerks : txn'[c].pc = "credit" =>
           txn'[c] = txn[c] /\ (type = "earn" => txn[c].user # u)
  PROVE  EarnInv'
<1>1. PICK n : n = [user |-> u, points |-> p, type |-> type, order |-> o]
  OBVIOUS
<1>2. history' = Append(history, n) /\ n.type = type /\ n.order = o /\ n.user = u
  BY <1>1 DEF Note
<1>3. /\ Len(history) \in Nat /\ Len(history') = Len(history) + 1
      /\ history'[Len(history')] = n /\ \A i \in 1..Len(history) : history'[i] = history[i]
  BY <1>2, Appended
<1>4. \A i \in 1..Len(history') : i = Len(history') \/ i \in 1..Len(history)
  BY <1>3
<1>5. EarnedOnce'
  BY <1>2, <1>3, <1>4 DEF EarnInv, EarnedOnce, Earned
<1>6. ASSUME NEW c \in Clerks, NEW t, t = txn'[c], t.pc = "credit"
      PROVE  ~Earned(t.user, t.order)'
  <2>1. t = txn[c] /\ (type = "earn" => t.user # u) /\ ~Earned(t.user, t.order)
    BY <1>6 DEF EarnInv
  <2> QED  BY <1>2, <1>3, <1>4, <2>1 DEF Earned
<1> QED  BY <1>5, <1>6 DEF EarnInv, Earned

LEMMA EarnOnCredit ==
  ASSUME EarnInv, AccountsInv, PointsInv, NEW k \in Clerks, EarnPoints(k)
  PROVE  EarnInv'
<1>1. PICK t : t = txn[k]
  OBVIOUS
<1>2. PICK p : p = OrderPoints * Multiplier(t.row.points)
  OBVIOUS
<1>3. t.pc = "credit" /\ Ends(k) /\ Note(t.user, p, "earn", t.order)
  BY <1>1, <1>2 DEF EarnPoints
<1>4. ~Earned(t.user, t.order)
  BY <1>1, <1>3 DEF EarnInv
<1>5. lock[t.user] = k
  BY <1>1, <1>3 DEF PointsInv, LocksInv, HoldsRow
<1>6. ASSUME NEW c \in Clerks, txn'[c].pc = "credit" PROVE txn'[c] = txn[c] /\ txn[c].user # t.user
  <2>1. c # k /\ txn'[c] = txn[c]
    BY <1>3, <1>6 DEF Ends, Resting, AccountsInv
  <2>2. lock[txn[c].user] = c
    BY <1>6, <2>1 DEF PointsInv, LocksInv, HoldsRow
  <2> QED  BY <1>5, <2>1, <2>2
<1>7. IsNotes(history)
  BY DEF PointsInv, NotesInv
<1> QED  BY <1>3, <1>4, <1>6, <1>7, EarnNotes

LEMMA EarnOnCount ==
  ASSUME EarnInv, AccountsInv, NEW k \in Clerks, CountEarned(k)
  PROVE  EarnInv'
<1>1. UNCHANGED history
  BY DEF CountEarned
<1>2. CASE Ends(k)
  BY <1>1, <1>2, EarnOnEnd
<1>3. CASE /\ txn' = [txn EXCEPT ![k].pc = "credit"]
           /\ ~ \E i \in 1..Len(history) : history[i].type = "earn" /\ history[i].order = txn[k].order
  <2>1. PICK t : t = [txn[k] EXCEPT !.pc = "credit"]
    OBVIOUS
  <2>2. PICK o : o = txn[k].order
    OBVIOUS
  <2>3. txn' = [txn EXCEPT ![k] = t] /\ (t.order = o \/ t = txn[k])
    BY <1>3, <2>1, <2>2
  <2>4. ASSUME NEW c \in Clerks, NEW n, n = txn'[c], n.pc = "credit"
        PROVE  ~Earned(n.user, n.order)'
    <3>1. CASE c = k
      <4>1. n.order = o \/ n = txn[k]
        BY <2>2, <2>3, <2>4, <3>1 DEF AccountsInv
      <4>2. n.order = o
        BY <2>2, <4>1
      <4> QED  BY <1>1, <1>3, <2>2, <4>2 DEF Earned
    <3>2. CASE c # k
      <4>1. n = txn[c]
        BY <2>3, <2>4, <3>2
      <4> QED  BY <1>1, <2>4, <4>1 DEF EarnInv, Earned
    <3> QED  BY <3>1, <3>2
  <2> QED  BY <1>1, <2>4 DEF EarnInv, EarnedOnce, Earned
<1> QED  BY <1>2, <1>3 DEF CountEarned

LEMMA EarnInitial == PerksInit => EarnInv
<1> SUFFICES ASSUME PerksInit PROVE EarnInv
  OBVIOUS
<1>1. history = <<>> /\ txn = [k \in Clerks |-> Resting]
  BY DEF PerksInit, LoyaltyInit
<1>2. history \in Seq({}) /\ Len(history) = 0
  BY <1>1
<1> QED  BY <1>1, <1>2 DEF EarnInv, EarnedOnce, Resting

LEMMA EarnStep == PerksInv /\ PointsInv /\ EarnInv /\ [PerksNext]_perkVars => EarnInv'
<1> SUFFICES ASSUME PerksInv, PointsInv, EarnInv, [PerksNext]_perkVars PROVE EarnInv'
  OBVIOUS
<1>1. AccountsInv /\ IsNotes(history)
  BY DEF PerksInv, PointsInv, NotesInv
<1>2. ASSUME UNCHANGED <<history, txn>> PROVE EarnInv'
  BY <1>2, EarnRests
<1>3. CASE CouponCrash /\ LoyaltyCrash /\ UNCHANGED cashback
  <2>1. UNCHANGED history /\ txn' = [k \in Clerks |-> Resting]
    BY <1>3 DEF LoyaltyCrash
  <2> QED  BY <2>1, EarnRests DEF Resting
<1>4. ASSUME NEW r \in Requests, Reward(r) PROVE EarnInv'
  <2>1. Note(Friend, RewardPoints, "referral", r) /\ UNCHANGED txn
    BY <1>4 DEF Reward, CreditReferral
  <2> QED  BY <1>1, <2>1, EarnNotes
<1>5. ASSUME NEW r \in Requests, NEW k \in Clerks, NEW u \in Users, Earn(k, u, r) PROVE EarnInv'
  BY <1>1, <1>5, EarnOnLock DEF Earn
<1>6. ASSUME NEW k \in Clerks, NEW u \in Users, AskToRedeem(k, u) PROVE EarnInv'
  BY <1>1, <1>6, EarnOnLock DEF AskToRedeem
<1>7. ASSUME NEW k \in Clerks, EarnPoints(k) PROVE EarnInv'
  BY <1>1, <1>7, EarnOnCredit
<1>8. ASSUME NEW k \in Clerks, CountEarned(k) PROVE EarnInv'
  BY <1>1, <1>8, EarnOnCount
<1>9. ASSUME NEW k \in Clerks, RollBack(k) PROVE EarnInv'
  BY <1>1, <1>9, EarnOnEnd DEF RollBack
<1>10. ASSUME NEW k \in Clerks, NEW points \in Redemptions, RedeemPoints(k, points) PROVE EarnInv'
  <2>1. PICK u : u = txn[k].user
    OBVIOUS
  <2>2. Note(u, -points, "redeem", NoClerk) /\ Ends(k)
    BY <1>10, <2>1 DEF RedeemPoints, Redeem
  <2>3. \A c \in Clerks : txn'[c].pc = "credit" => txn'[c] = txn[c]
    BY <1>1, <2>2 DEF Ends, Resting, AccountsInv
  <2>4. PICK p : p = -points
    OBVIOUS
  <2>5. Note(u, p, "redeem", NoClerk)
    BY <2>2, <2>4
  <2> QED  BY <1>1, <2>3, <2>5, EarnNotes
<1>11. ASSUME NEW u \in Users, MergeDuplicates(u) PROVE EarnInv'
  BY <1>2, <1>11 DEF MergeDuplicates
<1>12. CASE UNCHANGED <<loyaltyVars, cashback>>
  BY <1>2, <1>12 DEF loyaltyVars
<1>13. CASE UNCHANGED perkVars
  BY <1>2, <1>13 DEF perkVars, loyaltyVars
<1> QED
  BY <1>3, <1>4, <1>5, <1>6, <1>7, <1>8, <1>9, <1>10, <1>11, <1>12, <1>13 DEF PerksNext

\* A coupon is used within its limits and counted once, whatever races; a use
\* of an order that came to nothing is given back; a referral is rewarded once
\* (order_coupon.go, referral.go).
THEOREM CouponsAreKept == PerksSpec => []CouponsKept
<1> QED  BY PerksInitial, PerksStep, PerksImplied, PTL DEF PerksSpec

\* The points of a phone are what its history says, never less than none, a phone
\* earns those of an order once and a coupon costs what it is worth, whoever credits,
\* redeems, rewards, merges or crashes meanwhile (loyalty.go, sql/29).
THEOREM PointsAreKept == PerksSpec => []PointsKept
<1>1. PerksInv /\ PointsInv /\ EarnInv => PointsKept
  BY DEF PointsInv, RowsInv, EarnInv, PointsKept, NeverOverdrawn
<1> QED  BY <1>1, PerksInitial, PerksStep, PointsInitial, PointsStep, EarnInitial, EarnStep, PTL DEF PerksSpec

-----------------------------------------------------------------------------
(* Sponsored days.  A worker carries a copy of a booking that agrees with the   *)
(* row on what was sold; while nobody has met on a booking, and no day ended on   *)
(* somebody's work, it is the row itself and today is its day, so that what the  *)
(* availability was asked of is what the row is written over.                    *)

SameDeal(r, s) == r.store = s.store /\ r.first = s.first /\ r.last = s.last

BookingOK(r) == r # NoRow => /\ r \in Row /\ r.first <= r.last
                             /\ r.status = "active" => r.paid
                             /\ r.status = "pending" => ~r.paid

BookingsInv ==
  /\ today \in Days /\ clashed \in BOOLEAN /\ crashes \in 0..MaxTroubles
  /\ row \in [Bookings -> Row \cup {NoRow}] /\ pix \in [Bookings -> {"none", "open", "paid"}]
  /\ scan \in [now : Days, batch : SUBSET Bookings]
  /\ \E k \in 0..NumBookings : \A b \in Bookings : row[b] # NoRow <=> b <= k
  /\ \A b \in Bookings : BookingOK(row[b])
  /\ \A b \in Bookings : pix[b] # "none" => row[b] # NoRow

JobFits(j, rows) ==
  j # Idle => /\ j \in Job /\ j.snap \in Row
              /\ rows[j.on] # NoRow /\ SameDeal(j.snap, rows[j.on])
              /\ j.snap.status = "active" => rows[j.on].paid
              /\ j.snap.status = "cancelled" => rows[j.on].status # "pending"
              /\ j.step = "cancel" => j.snap.status \in {"pending", "active"}

WorkInv == job \in [Workers -> Job \cup {Idle}] /\ \A w \in Workers : JobFits(job[w], row)

RefundsInv ==
  /\ LedgerTypeOK
  /\ \A b \in Bookings : \A s \in Wallets : HasLedgerEntry(s, "credit", RefundRef(b)) =>
       row[b] # NoRow /\ row[b].store = s /\ row[b].paid

Honoured(r, refunded) ==
  r # NoRow => /\ r.status \in {"pending", "active"} => ~refunded
               /\ r.status = "cancelled" /\ r.paid => refunded \/ r.cancelledOn >= r.first

GivenBack(b) == \E s \in Wallets : HasLedgerEntry(s, "credit", RefundRef(b))

CalmWork ==
  /\ \A w \in Workers : job[w] # Idle => job[w].snap = row[job[w].on] /\ job[w].now = today
  /\ \A v, w \in Workers : job[v] # Idle /\ job[w] # Idle /\ job[v].on = job[w].on => v = w
  /\ scan.batch # {} => scan.now = today

CalmBookings ==
  /\ \A d \in Days : Occupancy(d, today) <= Slots
  /\ \A b \in Bookings : Honoured(row[b], GivenBack(b))

SponsorIInv == /\ BookingsInv /\ WorkInv /\ RefundsInv
               /\ ~clashed => CalmWork /\ CalmBookings

-----------------------------------------------------------------------------
(* Facts about rows, references and occupancy.                                  *)

LEMMA NoBookingIsEmpty ==
  /\ NoRow \notin Row /\ Idle \notin Job /\ NoRow.status = "none"
  /\ \A j \in Job : j.on \in Bookings /\ j.on # NoBooking
<1>1. \A r \in Row : r # NoRow
  BY DEF Row, NoRow
<1>2. \A j \in Job : j # Idle /\ j.on \in Bookings
  BY DEF Job, Idle
<1> QED  BY <1>1, <1>2, SponsorAssumption DEF NoRow

LEMMA RefsApart ==
  /\ \A b \in Bookings : DebitRef(b) \in Refs /\ RefundRef(b) \in Refs
  /\ \A a, b \in Bookings : (RefundRef(a) = RefundRef(b) => a = b)
  /\ \A b \in Bookings : \A s \in Wallets : RefundRef(b) # SaleRef(s)
<1>1. \A a, b : RefundRef(a) = RefundRef(b) => a = b
  BY DEF RefundRef
<1>2. \A b, s : RefundRef(b) # SaleRef(s)
  BY DEF RefundRef, SaleRef
<1> QED  BY <1>1, <1>2, SponsorAssumption

\* What a booking costs is an amount a wallet can carry.
LEMMA PriceIsAmount ==
  ASSUME NEW r \in Row, r.first <= r.last
  PROVE  Price(r) \in Amounts
<1>1. r.first \in 1..LastDay /\ r.last \in 1..LastDay /\ LastDay \in Nat
  BY SponsorAssumption DEF Row, Days
<1>2. r.last - r.first + 1 \in 1..LastDay
  BY <1>1
<1> QED  BY <1>2, SponsorAssumption DEF Price, Days

\* A movement adds its own entry and no other.
LEMMA EntryAdded ==
  ASSUME LedgerTypeOK, NEW s \in Wallets, NEW type \in TxnTypes, NEW amount \in Amounts, NEW r \in References,
         AdjustWalletBalance(s, type, amount, r)
  PROVE  /\ LedgerTypeOK'
         /\ \A v \in Wallets, t \in TxnTypes, x \in References :
              HasLedgerEntry(v, t, x)' <=> HasLedgerEntry(v, t, x) \/ (v = s /\ t = type /\ x = r)
<1>1. PICK n : n = Len(ledger[s])
  OBVIOUS
<1>2. PICK e : e = NewEntry(s, type, amount, r)
  OBVIOUS
<1>3. /\ LedgerTypeOK' /\ (\A v \in Wallets \ {s} : ledger'[v] = ledger[v]) /\ n \in Nat
      /\ DOMAIN ledger[s] = 1..n /\ DOMAIN ledger'[s] = 1..(n + 1)
      /\ (\A i \in 1..n : ledger'[s][i] = ledger[s][i]) /\ ledger'[s][n + 1] = e
  BY <1>1, <1>2, PostedRow
<1>4. e.type = type /\ e.ref = r
  BY <1>2 DEF NewEntry
<1>5. 1..(n + 1) = 1..n \cup {n + 1}
  BY <1>3
<1>6. ASSUME NEW v \in Wallets, NEW t \in TxnTypes, NEW x \in References
      PROVE  HasLedgerEntry(v, t, x)' <=> HasLedgerEntry(v, t, x) \/ (v = s /\ t = type /\ x = r)
  <2>1. CASE v = s
    BY <1>3, <1>4, <1>5, <2>1 DEF HasLedgerEntry
  <2>2. CASE v # s
    <3>1. ledger'[v] = ledger[v]
      BY <1>3, <2>2
    <3> QED  BY <2>2, <3>1 DEF HasLedgerEntry
  <2> QED  BY <2>1, <2>2
<1> QED  BY <1>3, <1>6

LEMMA BookingsAreFew ==
  ASSUME NEW S \in SUBSET Bookings, NEW U \in SUBSET Bookings, NEW b \in Bookings
  PROVE  /\ Cardinality(S) \in Nat /\ Cardinality(U) \in Nat
         /\ U \subseteq S => Cardinality(U) <= Cardinality(S)
         /\ U \subseteq S \cup {b} => Cardinality(U) <= Cardinality(S) + 1
<1>1. IsFiniteSet(Bookings)
  <2>1. NumBookings \in Int /\ 1 \in Int
    BY SponsorAssumption
  <2> QED  BY <2>1, FS_Interval DEF Bookings
<1>2. IsFiniteSet(S) /\ IsFiniteSet(U)
  BY <1>1, FS_Subset
<1>3. Cardinality(S) \in Nat /\ Cardinality(U) \in Nat
  BY <1>2, FS_CardinalityType
<1>4. U \subseteq S => Cardinality(U) <= Cardinality(S)
  BY <1>2, FS_Subset
<1>5. IsFiniteSet(S \cup {b}) /\ Cardinality(S \cup {b}) <= Cardinality(S) + 1 /\ Cardinality(S \cup {b}) \in Nat
  <2>1. /\ IsFiniteSet(S \cup {b})
        /\ Cardinality(S \cup {b}) = IF b \in S THEN Cardinality(S) ELSE Cardinality(S) + 1
    BY <1>2, FS_AddElement
  <2> QED  BY <1>3, <2>1
<1>6. U \subseteq S \cup {b} => Cardinality(U) <= Cardinality(S \cup {b})
  BY <1>5, FS_Subset
<1> QED  BY <1>3, <1>4, <1>5, <1>6

Occupied(d, now) == {b \in Bookings : Holds(row[b], now) /\ Covers(row[b], d)}

\* One booking is rewritten: if it held its days before, or they were free, no day
\* has too many.
LEMMA DaysNotOversold ==
  ASSUME BookingsInv, NEW b \in Bookings, NEW r \in Row, row' = [row EXCEPT ![b] = r], UNCHANGED today,
         \A d \in Days : Occupancy(d, today) <= Slots,
         \A d \in Days : Holds(r, today) /\ Covers(r, d) =>
           (Holds(row[b], today) /\ Covers(row[b], d)) \/ Occupancy(d, today) < Slots
  PROVE  \A d \in Days : Occupancy(d, today)' <= Slots
<1> SUFFICES ASSUME NEW d \in Days PROVE Occupancy(d, today)' <= Slots
  OBVIOUS
<1>1. Occupied(d, today) \in SUBSET Bookings /\ Occupied(d, today)' \in SUBSET Bookings
  BY DEF Occupied
<1>2. Occupancy(d, today) = Cardinality(Occupied(d, today)) /\ Occupancy(d, today)' = Cardinality(Occupied(d, today)')
  BY DEF Occupied, Occupancy
<1>3. row'[b] = r /\ \A a \in Bookings \ {b} : row'[a] = row[a]
  BY DEF BookingsInv
<1>4. Occupied(d, today)' \subseteq Occupied(d, today) \cup {b}
  BY <1>3 DEF Occupied
<1>5. Slots \in Nat
  BY SponsorAssumption
<1>6. CASE Occupied(d, today)' \subseteq Occupied(d, today)
  BY <1>1, <1>2, <1>5, <1>6, BookingsAreFew
<1>7. CASE ~(Occupied(d, today)' \subseteq Occupied(d, today))
  <2>1. b \in Occupied(d, today)' /\ b \notin Occupied(d, today)
    BY <1>4, <1>7
  <2>2. Occupancy(d, today) < Slots
    BY <1>3, <2>1 DEF Occupied
  <2> QED  BY <1>1, <1>2, <1>4, <1>5, <2>2, BookingsAreFew
<1> QED  BY <1>6, <1>7

\* Work that is left alone still fits when rows keep what was sold, and what was
\* paid.
LEMMA WorkStillFits ==
  ASSUME NEW rows, NEW after, NEW j, JobFits(j, rows),
         \A b \in Bookings : rows[b] # NoRow =>
           /\ after[b] # NoRow /\ SameDeal(after[b], rows[b]) /\ (rows[b].paid => after[b].paid)
           /\ after[b].status = "pending" => rows[b].status = "pending"
  PROVE  JobFits(j, after)
BY NoBookingIsEmpty DEF JobFits, SameDeal

-----------------------------------------------------------------------------
(* Steps.                                                                       *)

LEMMA SponsorInitial == Init => SponsorIInv
<1> SUFFICES ASSUME Init PROVE SponsorIInv
  OBVIOUS
<1>1. LastDay \in Nat \ {0} /\ NumBookings \in Nat /\ Slots \in Nat /\ MaxTroubles \in Nat
  BY SponsorAssumption
<1>2. BookingsInv
  <2>1. 1 \in Days /\ 0 \in 0..NumBookings /\ \A b \in Bookings : ~(b <= 0)
    BY <1>1 DEF Days, Bookings
  <2>2. \E k \in 0..NumBookings : \A b \in Bookings : row[b] # NoRow <=> b <= k
    BY <2>1 DEF Init
  <2>3. /\ today = 1 /\ clashed = FALSE /\ crashes = 0 /\ row = [b \in Bookings |-> NoRow]
        /\ pix = [b \in Bookings |-> "none"] /\ scan = [now |-> 1, batch |-> {}]
    BY DEF Init
  <2>4. scan \in [now : Days, batch : SUBSET Bookings]
    BY <2>1, <2>3
  <2>5. \A b \in Bookings : BookingOK(row[b])
    BY <2>3 DEF BookingOK
  <2>6. today \in Days /\ clashed \in BOOLEAN /\ crashes \in 0..MaxTroubles
    <3>1. 0 \in 0..MaxTroubles
      BY <1>1
    <3> QED  BY <2>1, <2>3, <3>1
  <2>7. /\ row \in [Bookings -> Row \cup {NoRow}] /\ pix \in [Bookings -> {"none", "open", "paid"}]
        /\ \A b \in Bookings : pix[b] # "none" => row[b] # NoRow
    BY <2>3
  <2> QED  BY <2>2, <2>4, <2>5, <2>6, <2>7 DEF BookingsInv
<1>3. WorkInv
  BY DEF Init, WorkInv, JobFits
<1>4. ASSUME NEW s \in Wallets
      PROVE  /\ balance[s] \in Nat /\ Sold(s) \in Seq(Entry)
             /\ \A t, x : HasLedgerEntry(s, t, x) => x = SaleRef(s)
  <2>1. Savings[s] \in Amounts \cup {0} /\ Savings[s] \in Nat /\ SaleRef(s) \in References
    <3>1. Savings \in [Wallets -> Amounts \cup {0}] /\ SaleRef(s) \in Refs
      BY SponsorAssumption
    <3>2. Savings[s] \in Amounts \cup {0}
      BY <3>1
    <3>3. Amounts \subseteq Nat
      BY LedgerAssumption
    <3>4. Savings[s] \in Nat
      <4>1. PICK x : x = Savings[s]
        OBVIOUS
      <4>2. x \in Amounts \cup {0} => x \in Nat
        BY ONLY <3>3
      <4> QED  BY <3>2, <4>1, <4>2
    <3>5. SaleRef(s) \in References
      BY <3>1 DEF References
    <3> QED  BY <3>2, <3>4, <3>5
  <2>2. CASE Savings[s] = 0
    <3>1. Sold(s) = <<>> /\ ledger[s] = <<>>
      BY <2>2 DEF Sold, Init
    <3> QED  BY <2>1, <3>1 DEF Init, HasLedgerEntry
  <2>3. CASE Savings[s] # 0
    <3>1. PICK e : e = [type |-> "credit", amount |-> Savings[s], before |-> 0, after |-> Savings[s], ref |-> SaleRef(s)]
      OBVIOUS
    <3>2. e \in Entry /\ e.ref = SaleRef(s)
      BY <2>1, <2>3, <3>1 DEF Entry, TxnTypes
    <3>3. Sold(s) = <<e>> /\ ledger[s] = <<e>>
      BY <2>3, <3>1 DEF Sold, Init
    <3>4. DOMAIN ledger[s] = {1} /\ ledger[s][1] = e
      BY <3>3
    <3> QED  BY <2>1, <3>2, <3>3, <3>4 DEF Init, HasLedgerEntry
  <2> QED  BY <2>2, <2>3
<1>5. RefundsInv /\ \A b \in Bookings : ~GivenBack(b)
  <2>1. LedgerTypeOK
    <3>1. balance = Savings /\ Savings \in [Wallets -> Amounts \cup {0}] /\ Amounts \subseteq Nat
      BY SponsorAssumption, LedgerAssumption DEF Init
    <3>2. ledger = [s \in Wallets |-> Sold(s)]
      BY DEF Init
    <3> QED  BY <1>4, <3>1, <3>2 DEF LedgerTypeOK
  <2>2. \A b \in Bookings : \A s \in Wallets : ~HasLedgerEntry(s, "credit", RefundRef(b))
    BY <1>4, RefsApart
  <2> QED  BY <2>1, <2>2 DEF RefundsInv, GivenBack
<1>6. CalmWork
  BY DEF Init, CalmWork
<1>7. CalmBookings
  <2>1. ASSUME NEW d \in Days PROVE Occupancy(d, today) <= Slots
    <3>1. {b \in Bookings : Holds(row[b], today) /\ Covers(row[b], d)} = {}
      BY DEF Init, Holds, NoRow
    <3>2. Cardinality({b \in Bookings : Holds(row[b], today) /\ Covers(row[b], d)}) = 0
      BY <3>1, FS_EmptySet
    <3> QED  BY <1>1, <3>2 DEF Occupancy
  <2>2. \A b \in Bookings : Honoured(row[b], GivenBack(b))
    BY DEF Init, Honoured
  <2> QED  BY <2>1, <2>2 DEF CalmBookings
<1> QED  BY <1>2, <1>3, <1>5, <1>6, <1>7 DEF SponsorIInv

\* Nothing is written and no job moves: whatever the clash says, all stays.
LEMMA BookingsStay ==
  ASSUME UNCHANGED <<ledgerVars, row, today>>
  PROVE  /\ RefundsInv => RefundsInv'
         /\ CalmBookings => CalmBookings'
         /\ \A b : GivenBack(b)' <=> GivenBack(b)
<1>1. \A s, t, x : HasLedgerEntry(s, t, x)' <=> HasLedgerEntry(s, t, x)
  BY DEF HasLedgerEntry, ledgerVars
<1>2. \A b : GivenBack(b)' <=> GivenBack(b)
  BY <1>1 DEF GivenBack
<1>3. RefundsInv => RefundsInv'
  BY <1>1 DEF RefundsInv, LedgerTypeOK, ledgerVars
<1>4. \A d : Occupancy(d, today)' = Occupancy(d, today)
  BY DEF Occupancy
<1>5. CalmBookings => CalmBookings'
  BY <1>2, <1>4 DEF CalmBookings
<1> QED  BY <1>2, <1>3, <1>5

\* A worker moves on without writing a row.
LEMMA WorkMoves ==
  ASSUME SponsorIInv, NEW w \in Workers, NEW j, job' = [job EXCEPT ![w] = j], JobFits(j, row),
         UNCHANGED <<ledgerVars, row, today, pix, crashes>>, scan' \in [now : Days, batch : SUBSET Bookings],
         clashed' \in BOOLEAN, ~clashed' => ~clashed,
         ~clashed' /\ scan'.batch # {} => scan'.now = today,
         ~clashed' /\ j # Idle => j.snap = row[j.on] /\ j.now = today /\ \A v \in Workers \ {w} : job[v].on # j.on
  PROVE  SponsorIInv'
<1>1. BookingsInv'
  BY DEF SponsorIInv, BookingsInv
<1>2. job'[w] = j /\ (\A v \in Workers \ {w} : job'[v] = job[v]) /\ row' = row /\ j \in Job \cup {Idle}
  BY DEF SponsorIInv, WorkInv, JobFits
<1>3. WorkInv'
  <2>1. job' \in [Workers -> Job \cup {Idle}]
    BY <1>2 DEF SponsorIInv, WorkInv
  <2>2. \A v \in Workers : JobFits(job'[v], row)
    BY <1>2 DEF SponsorIInv, WorkInv
  <2> QED  BY <1>2, <2>1, <2>2 DEF WorkInv
<1>4. RefundsInv' /\ (CalmBookings => CalmBookings')
  BY BookingsStay DEF SponsorIInv
<1>5. ~clashed' => CalmWork'
  <2> SUFFICES ASSUME ~clashed' PROVE CalmWork'
    OBVIOUS
  <2>1. CalmWork
    BY DEF SponsorIInv
  <2>2. ASSUME NEW v \in Workers, job'[v] # Idle PROVE job'[v].snap = row[job'[v].on] /\ job'[v].now = today
    BY <1>2, <2>1, <2>2 DEF CalmWork
  <2>3. ASSUME NEW v \in Workers, NEW u \in Workers, job'[v] # Idle, job'[u] # Idle, job'[v].on = job'[u].on PROVE v = u
    BY <1>2, <2>1, <2>3 DEF CalmWork
  <2> QED  BY <2>2, <2>3 DEF CalmWork
<1> QED  BY <1>1, <1>3, <1>4, <1>5 DEF SponsorIInv

\* A worker reads a booking that was made.
LEMMA StartKeeps ==
  ASSUME SponsorIInv, NEW w \in Workers, NEW step \in {"confirm", "settle", "cancel"}, NEW b \in Bookings, NEW now \in Days,
         Start(w, step, b, now), row[b] # NoRow, step = "cancel" => row[b].status \in {"pending", "active"},
         UNCHANGED <<ledgerVars, row, today, pix, crashes>>, scan' \in [now : Days, batch : SUBSET Bookings],
         ~clashed => now = today,
         ~clashed /\ scan'.batch # {} => scan'.now = today
  PROVE  SponsorIInv'
<1>1. PICK j : j = [step |-> step, on |-> b, snap |-> row[b], now |-> now]
  OBVIOUS
<1>2. PICK clash \in BOOLEAN : clash <=> \E v \in Workers : job[v].on = b
  OBVIOUS
<1>3. job[w] = Idle /\ job' = [job EXCEPT ![w] = j] /\ clashed' = (clashed \/ clash)
  BY <1>1, <1>2 DEF Start
<1>4. row[b] \in Row /\ (row[b].status = "active" => row[b].paid) /\ clashed \in BOOLEAN
  BY DEF SponsorIInv, BookingsInv, BookingOK
<1>5. j \in Job /\ j.snap = row[b] /\ j.on = b /\ j.now = now /\ j.step = step
  BY <1>1, <1>4 DEF Job
<1>6. JobFits(j, row)
  BY <1>4, <1>5 DEF JobFits, SameDeal
<1>7. clashed' \in BOOLEAN /\ (~clashed' => ~clashed /\ \A v \in Workers : job[v].on # b)
  BY <1>2, <1>3, <1>4
<1> QED  BY <1>3, <1>5, <1>6, <1>7, WorkMoves

\* A worker writes its booking, with the money that goes with it, and is done.
LEMMA WorkEnds ==
  ASSUME SponsorIInv, NEW w \in Workers, job[w] # Idle, NEW b, b = job[w].on, NEW r \in Row,
         row' = [row EXCEPT ![b] = r], job' = [job EXCEPT ![w] = Idle],
         UNCHANGED <<today, scan, clashed, crashes>>,
         pix' = pix \/ pix' = [pix EXCEPT ![b] = "open"],
         SameDeal(r, row[b]), BookingOK(r), row[b].paid => r.paid, r.status = "pending" => row[b].status = "pending",
         LedgerTypeOK',
         \A a \in Bookings \ {b} : GivenBack(a)' <=> GivenBack(a),
         \A a \in Bookings : \A s \in Wallets : HasLedgerEntry(s, "credit", RefundRef(a))' =>
           HasLedgerEntry(s, "credit", RefundRef(a)) \/ (a = b /\ s = r.store /\ r.paid),
         ~clashed => \A d \in Days : Holds(r, today) /\ Covers(r, d) =>
           (Holds(row[b], today) /\ Covers(row[b], d)) \/ Occupancy(d, today) < Slots,
         ~clashed => Honoured(r, GivenBack(b)')
  PROVE  SponsorIInv'
<1>1. b \in Bookings /\ row[b] # NoRow /\ r # NoRow
  BY NoBookingIsEmpty DEF SponsorIInv, WorkInv, JobFits
<1>2. row'[b] = r /\ (\A a \in Bookings \ {b} : row'[a] = row[a]) /\ row' \in [Bookings -> Row \cup {NoRow}]
  BY <1>1 DEF SponsorIInv, BookingsInv
<1>3. job'[w] = Idle /\ \A v \in Workers \ {w} : job'[v] = job[v]
  BY DEF SponsorIInv, WorkInv
<1>4. \A a \in Bookings : row[a] # NoRow =>
        /\ row'[a] # NoRow /\ SameDeal(row'[a], row[a]) /\ (row[a].paid => row'[a].paid)
        /\ row'[a].status = "pending" => row[a].status = "pending"
  BY <1>1, <1>2 DEF SameDeal
<1>5. BookingsInv'
  <2>1. \A a \in Bookings : row'[a] # NoRow <=> row[a] # NoRow
    BY <1>1, <1>2
  <2>2. pix' \in [Bookings -> {"none", "open", "paid"}] /\ \A a \in Bookings : pix'[a] # "none" => row'[a] # NoRow
    BY <1>1, <2>1 DEF SponsorIInv, BookingsInv
  <2>3. \A a \in Bookings : BookingOK(row'[a])
    BY <1>1, <1>2 DEF SponsorIInv, BookingsInv
  <2> QED  BY <1>2, <2>1, <2>2, <2>3 DEF SponsorIInv, BookingsInv
<1>6. WorkInv'
  <2>1. job' \in [Workers -> Job \cup {Idle}]
    BY <1>3 DEF SponsorIInv, WorkInv
  <2>2. ASSUME NEW v \in Workers PROVE JobFits(job'[v], row')
    <3>1. CASE v = w
      BY <1>3, <3>1 DEF JobFits
    <3>2. CASE v # w
      <4>1. JobFits(job[v], row)
        BY DEF SponsorIInv, WorkInv
      <4>2. JobFits(job[v], row')
        BY <1>4, <4>1, NoBookingIsEmpty DEF JobFits, SameDeal
      <4> QED  BY <1>3, <3>2, <4>2
    <3> QED  BY <3>1, <3>2
  <2> QED  BY <2>1, <2>2 DEF WorkInv
<1>7. RefundsInv'
  <2> SUFFICES ASSUME NEW a \in Bookings, NEW s \in Wallets, HasLedgerEntry(s, "credit", RefundRef(a))'
               PROVE  row'[a] # NoRow /\ row'[a].store = s /\ row'[a].paid
    BY DEF RefundsInv
  <2>1. CASE HasLedgerEntry(s, "credit", RefundRef(a))
    <3>1. row[a] # NoRow /\ row[a].store = s /\ row[a].paid
      BY <2>1 DEF SponsorIInv, RefundsInv
    <3> QED  BY <1>4, <3>1 DEF SameDeal
  <2>2. CASE a = b /\ s = r.store /\ r.paid
    BY <1>1, <1>2, <2>2
  <2> QED  BY <2>1, <2>2
<1>8. ~clashed' => CalmWork' /\ CalmBookings'
  <2> SUFFICES ASSUME ~clashed PROVE CalmWork' /\ CalmBookings'
    OBVIOUS
  <2>1. CalmWork /\ CalmBookings
    BY DEF SponsorIInv
  <2>2. ASSUME NEW v \in Workers, job'[v] # Idle PROVE job'[v].snap = row'[job'[v].on] /\ job'[v].now = today
    <3>1. v # w /\ job'[v] = job[v]
      BY <1>3, <2>2
    <3>2. job[v].on \in Bookings /\ job[v].on # b
      BY <2>1, <2>2, <3>1, NoBookingIsEmpty DEF CalmWork, SponsorIInv, WorkInv, JobFits
    <3> QED  BY <1>2, <2>1, <2>2, <3>1, <3>2 DEF CalmWork
  <2>3. ASSUME NEW v \in Workers, NEW u \in Workers, job'[v] # Idle, job'[u] # Idle, job'[v].on = job'[u].on PROVE v = u
    BY <1>3, <2>1, <2>3 DEF CalmWork
  <2>4. CalmWork'
    BY <2>1, <2>2, <2>3 DEF CalmWork
  <2>5. \A d \in Days : Occupancy(d, today)' <= Slots
    <3>1. BookingsInv /\ \A d \in Days : Occupancy(d, today) <= Slots
      BY <2>1 DEF CalmBookings, SponsorIInv
    <3> QED  BY <1>1, <3>1, DaysNotOversold
  <2>6. ASSUME NEW a \in Bookings PROVE Honoured(row'[a], GivenBack(a)')
    <3>1. CASE a = b
      BY <1>2, <3>1
    <3>2. CASE a # b
      <4>1. row'[a] = row[a] /\ (GivenBack(a)' <=> GivenBack(a)) /\ Honoured(row[a], GivenBack(a))
        BY <1>2, <2>1, <3>2 DEF CalmBookings
      <4> QED  BY <4>1 DEF Honoured
    <3> QED  BY <3>1, <3>2
  <2>7. CalmBookings'
    BY <2>5, <2>6 DEF CalmBookings
  <2> QED  BY <2>4, <2>7
<1> QED  BY <1>5, <1>6, <1>7, <1>8 DEF SponsorIInv

\* A refund, new or already there, leaves the store with its one entry.
LEMMA RefundGivesBack ==
  ASSUME BookingsInv, RefundsInv, NEW b \in Bookings, row[b] # NoRow, NEW r \in Row, SameDeal(r, row[b]), Refund(b, r)
  PROVE  /\ LedgerTypeOK' /\ GivenBack(b)'
         /\ \A a \in Bookings \ {b} : GivenBack(a)' <=> GivenBack(a)
         /\ \A a \in Bookings : \A s \in Wallets : HasLedgerEntry(s, "credit", RefundRef(a))' =>
              HasLedgerEntry(s, "credit", RefundRef(a)) \/ (a = b /\ s = r.store)
<1>1. r.first <= r.last /\ r.store \in Wallets
  BY DEF BookingsInv, BookingOK, SameDeal, Row
<1>2. RefundRef(b) \in References /\ RefundRef(b) # NoRef /\ "credit" \in TxnTypes /\ Price(r) \in Amounts
      /\ \A a \in Bookings : RefundRef(a) \in References
  BY <1>1, RefsApart, PriceIsAmount, LedgerAssumption DEF References, TxnTypes
<1>3. CASE AdjustWalletBalance(r.store, "credit", Price(r), RefundRef(b))
  <2>1. /\ LedgerTypeOK'
        /\ \A v \in Wallets, t \in TxnTypes, x \in References :
             HasLedgerEntry(v, t, x)' <=> HasLedgerEntry(v, t, x) \/ (v = r.store /\ t = "credit" /\ x = RefundRef(b))
    BY <1>1, <1>2, <1>3, EntryAdded DEF RefundsInv
  <2>2. \A a \in Bookings : \A s \in Wallets :
          HasLedgerEntry(s, "credit", RefundRef(a))' <=> HasLedgerEntry(s, "credit", RefundRef(a)) \/ (a = b /\ s = r.store)
    BY <1>2, <2>1, RefsApart
  <2> QED  BY <1>1, <2>1, <2>2 DEF GivenBack
<1>4. CASE Duplicate(r.store, "credit", RefundRef(b)) /\ UNCHANGED ledgerVars
  <2>1. \A s, t, x : HasLedgerEntry(s, t, x)' <=> HasLedgerEntry(s, t, x)
    BY <1>4 DEF HasLedgerEntry, ledgerVars
  <2>2. LedgerTypeOK'
    BY <1>4 DEF RefundsInv, LedgerTypeOK, ledgerVars
  <2>3. GivenBack(b)
    BY <1>4 DEF Duplicate, GivenBack
  <2> QED  BY <2>1, <2>2, <2>3 DEF GivenBack
<1> QED  BY <1>3, <1>4 DEF Refund

\* A worker that is at a step has a booking, and a copy of it.
LEMMA WorkerHas ==
  ASSUME SponsorIInv, NEW w \in Workers, job[w] # Idle
  PROVE  /\ job[w] \in Job /\ job[w].on \in Bookings /\ job[w].now \in Days /\ job[w].snap \in Row
         /\ row[job[w].on] # NoRow /\ row[job[w].on] \in Row /\ BookingOK(row[job[w].on])
         /\ SameDeal(job[w].snap, row[job[w].on])
         /\ ~clashed => job[w].snap = row[job[w].on] /\ job[w].now = today
         /\ ~clashed => Honoured(row[job[w].on], GivenBack(job[w].on))
<1>1. job[w] \in Job /\ JobFits(job[w], row)
  BY DEF SponsorIInv, WorkInv
<1>2. job[w].on \in Bookings /\ job[w].now \in Days
  BY <1>1 DEF Job
<1> QED  BY <1>1, <1>2 DEF JobFits, SponsorIInv, BookingsInv, BookingOK, CalmWork, CalmBookings

LEMMA IssuedPixKeeps ==
  ASSUME SponsorIInv, NEW w \in Workers, IssueSponsorPix(w)
  PROVE  SponsorIInv'
<1>1. PICK b : b = job[w].on
  OBVIOUS
<1>2. job[w] # Idle /\ job' = [job EXCEPT ![w] = Idle] /\ UNCHANGED <<ledgerVars, today, scan, clashed, crashes>>
  BY DEF IssueSponsorPix, At, Finish
<1>3. ASSUME UNCHANGED <<pix, row>> PROVE SponsorIInv'
  <2>1. JobFits(Idle, row)
    BY DEF JobFits
  <2> QED  BY <1>2, <1>3, <2>1, WorkMoves DEF SponsorIInv, BookingsInv, CalmWork
<1>4. ASSUME pix' = [pix EXCEPT ![b] = "open"], SetRow(b, [row[b] EXCEPT !.charged = TRUE]) PROVE SponsorIInv'
  <2>1. PICK r : r = [row[b] EXCEPT !.charged = TRUE]
    OBVIOUS
  <2>2. row' = [row EXCEPT ![b] = r]
    BY <1>4, <2>1 DEF SetRow
  <2>3. /\ b \in Bookings /\ row[b] \in Row /\ BookingOK(row[b]) /\ row[b] # NoRow
        /\ ~clashed => Honoured(row[b], GivenBack(b))
    BY <1>1, <1>2, WorkerHas
  <2>4. /\ r \in Row /\ r.status = row[b].status /\ r.store = row[b].store /\ r.first = row[b].first /\ r.last = row[b].last
        /\ r.expires = row[b].expires /\ r.paid = row[b].paid /\ r.cancelledOn = row[b].cancelledOn
    BY <2>1, <2>3 DEF Row
  <2>5. /\ SameDeal(r, row[b]) /\ BookingOK(r)
        /\ \A d \in Days : Holds(r, today) /\ Covers(r, d) => Holds(row[b], today) /\ Covers(row[b], d)
    BY <2>3, <2>4 DEF SameDeal, BookingOK, Holds, Covers
  <2>6. \A s, t, x : HasLedgerEntry(s, t, x)' <=> HasLedgerEntry(s, t, x)
    BY <1>2 DEF HasLedgerEntry, ledgerVars
  <2>7. LedgerTypeOK' /\ \A a : GivenBack(a)' <=> GivenBack(a)
    BY <1>2, <2>6 DEF SponsorIInv, RefundsInv, LedgerTypeOK, ledgerVars, GivenBack
  <2>8. ~clashed => Honoured(r, GivenBack(b)')
    BY <2>3, <2>4, <2>7 DEF Honoured
  <2> QED  BY <1>1, <1>2, <1>4, <2>2, <2>3, <2>4, <2>5, <2>6, <2>7, <2>8, WorkEnds
<1> QED  BY <1>1, <1>3, <1>4 DEF IssueSponsorPix

LEMMA ActivatedKeeps ==
  ASSUME SponsorIInv, NEW w \in Workers, ActivateSponsorBooking(w)
  PROVE  SponsorIInv'
<1>1. PICK b : b = job[w].on
  OBVIOUS
<1>2. PICK snap : snap = job[w].snap
  OBVIOUS
<1>3. PICK usable \in BOOLEAN : usable <=> (snap.status = "pending" /\ ~SlotsGone(snap, job[w].now))
  OBVIOUS
<1>4. /\ job[w] # Idle /\ job[w].step \in {"settle", "confirm"}
      /\ IF usable THEN SetRow(b, [row[b] EXCEPT !.status = "active", !.paid = TRUE, !.expires = 0]) ELSE UNCHANGED row
      /\ IF usable \/ snap.status = "active" \/ At(w, "confirm") THEN Finish(w) ELSE Proceed(w, "refund.read")
      /\ UNCHANGED <<ledgerVars, today, pix, scan, clashed, crashes>>
  BY <1>1, <1>2, <1>3 DEF ActivateSponsorBooking, At
<1>5. /\ job[w] \in Job /\ b \in Bookings /\ row[b] \in Row /\ row[b] # NoRow /\ BookingOK(row[b])
      /\ ~clashed => snap = row[b] /\ job[w].now = today /\ Honoured(row[b], GivenBack(b))
  BY <1>1, <1>2, <1>4, WorkerHas
<1>6. CASE usable
  <2>1. PICK r : r = [row[b] EXCEPT !.status = "active", !.paid = TRUE, !.expires = 0]
    OBVIOUS
  <2>2. row' = [row EXCEPT ![b] = r] /\ job' = [job EXCEPT ![w] = Idle]
    BY <1>4, <1>6, <2>1 DEF SetRow, Finish
  <2>3. /\ r \in Row /\ r.status = "active" /\ r.store = row[b].store /\ r.first = row[b].first /\ r.last = row[b].last
        /\ r.paid = TRUE
    BY <1>5, <2>1 DEF Row
  <2>4. SameDeal(r, row[b]) /\ BookingOK(r)
    BY <1>5, <2>3 DEF SameDeal, BookingOK
  <2>5. \A s, t, x : HasLedgerEntry(s, t, x)' <=> HasLedgerEntry(s, t, x)
    BY <1>4 DEF HasLedgerEntry, ledgerVars
  <2>6. LedgerTypeOK' /\ \A a : GivenBack(a)' <=> GivenBack(a)
    BY <1>4, <2>5 DEF SponsorIInv, RefundsInv, LedgerTypeOK, ledgerVars, GivenBack
  <2>7. ~clashed => Honoured(r, GivenBack(b)')
    BY <1>3, <1>5, <1>6, <2>3, <2>6 DEF Honoured
  <2>8. ASSUME ~clashed, NEW d \in Days, Covers(r, d)
        PROVE  (Holds(row[b], today) /\ Covers(row[b], d)) \/ Occupancy(d, today) < Slots
    <3>1. Covers(row[b], d) /\ row[b].status = "pending" /\ ~SlotsGone(row[b], today)
      BY <1>3, <1>5, <1>6, <2>3, <2>8 DEF Covers
    <3>2. row[b].expires \in Nat /\ today \in Nat /\ row[b].first \in Nat /\ row[b].last \in Nat /\ d \in Nat
      BY <1>5 DEF Row, SponsorIInv, BookingsInv, Days
    <3>3. CASE row[b].expires > today
      BY <3>1, <3>3 DEF Holds
    <3>4. CASE row[b].expires <= today
      <4>1. Available(row[b].store, row[b].first..row[b].last, today)
        BY <3>1, <3>4 DEF SlotsGone
      <4>2. d \in row[b].first..row[b].last
        BY <3>1, <3>2 DEF Covers
      <4> QED  BY <4>1, <4>2 DEF Available
    <3> QED  BY <3>2, <3>3, <3>4
  <2> QED  BY <1>1, <1>4, <2>2, <2>3, <2>4, <2>5, <2>6, <2>7, <2>8, WorkEnds
<1>7. CASE ~usable
  <2>1. UNCHANGED row
    BY <1>4, <1>7
  <2>2. JobFits(Idle, row) /\ scan \in [now : Days, batch : SUBSET Bookings] /\ clashed \in BOOLEAN
        /\ (~clashed /\ scan.batch # {} => scan.now = today)
    BY DEF JobFits, SponsorIInv, BookingsInv, CalmWork
  <2>3. CASE job' = [job EXCEPT ![w] = Idle]
    BY <1>4, <2>1, <2>2, <2>3, WorkMoves
  <2>4. CASE job' = [job EXCEPT ![w].step = "refund.read"]
    <3>1. PICK j : j = [job[w] EXCEPT !.step = "refund.read"]
      OBVIOUS
    <3>2. j = [step |-> "refund.read", on |-> b, snap |-> snap, now |-> job[w].now]
      BY <1>1, <1>2, <1>5, <3>1 DEF Job
    <3>3. j \in Job
      BY <1>1, <1>2, <1>5, <3>2 DEF Job
    <3>4. JobFits(job[w], row)
      BY DEF SponsorIInv, WorkInv
    <3>5. JobFits(j, row)
      BY <1>1, <1>2, <1>4, <3>2, <3>3, <3>4 DEF JobFits
    <3>6. ~clashed => \A v \in Workers \ {w} : job[v].on # b
      <4> SUFFICES ASSUME ~clashed, NEW v \in Workers \ {w}, job[v].on = b PROVE FALSE
        OBVIOUS
      <4>1. job[v] # Idle
        BY <1>5, SponsorAssumption DEF Idle
      <4> QED  BY <1>1, <1>4, <4>1 DEF SponsorIInv, CalmWork
    <3>7. job' = [job EXCEPT ![w] = j]
      BY <2>4, <3>1
    <3> QED  BY <1>4, <1>5, <2>1, <2>2, <3>2, <3>5, <3>6, <3>7, WorkMoves
  <2> QED  BY <1>4, <2>3, <2>4 DEF Finish, Proceed
<1> QED  BY <1>6, <1>7

LEMMA RefundReadKeeps ==
  ASSUME SponsorIInv, NEW w \in Workers, RefundRead(w)
  PROVE  SponsorIInv'
<1>1. PICK b : b = job[w].on
  OBVIOUS
<1>2. PICK j : j = [job[w] EXCEPT !.step = "refund.write", !.snap = row[b]]
  OBVIOUS
<1>3. job[w] # Idle /\ job' = [job EXCEPT ![w] = j] /\ UNCHANGED <<ledgerVars, today, row, pix, scan, clashed, crashes>>
  BY <1>1, <1>2 DEF RefundRead, At
<1>4. /\ job[w] \in Job /\ b \in Bookings /\ row[b] \in Row /\ row[b] # NoRow /\ BookingOK(row[b])
      /\ ~clashed => job[w].now = today
  BY <1>1, <1>3, WorkerHas
<1>5. j = [step |-> "refund.write", on |-> b, snap |-> row[b], now |-> job[w].now]
  BY <1>1, <1>2, <1>4 DEF Job
<1>6. j \in Job
  BY <1>1, <1>4, <1>5 DEF Job
<1>7. JobFits(j, row)
  BY <1>4, <1>5, <1>6 DEF JobFits, SameDeal, BookingOK
<1>8. ~clashed => \A v \in Workers \ {w} : job[v].on # b
  <2> SUFFICES ASSUME ~clashed, NEW v \in Workers \ {w}, job[v].on = b PROVE FALSE
    OBVIOUS
  <2>1. job[v] # Idle
    BY <1>4, SponsorAssumption DEF Idle
  <2> QED  BY <1>1, <1>3, <2>1 DEF SponsorIInv, CalmWork
<1>9. scan \in [now : Days, batch : SUBSET Bookings] /\ clashed \in BOOLEAN /\ (~clashed /\ scan.batch # {} => scan.now = today)
  BY DEF SponsorIInv, BookingsInv, CalmWork
<1> QED  BY <1>3, <1>4, <1>5, <1>7, <1>8, <1>9, WorkMoves

LEMMA RefundWriteKeeps ==
  ASSUME SponsorIInv, NEW w \in Workers, RefundWrite(w)
  PROVE  SponsorIInv'
<1>1. PICK b : b = job[w].on
  OBVIOUS
<1>2. PICK kept \in BOOLEAN : kept <=> job[w].snap.status = "cancelled"
  OBVIOUS
<1>3. PICK status : status = IF kept THEN row[b].status ELSE "cancelled"
  OBVIOUS
<1>4. PICK on : on = IF kept THEN row[b].cancelledOn ELSE job[w].now
  OBVIOUS
<1>5. PICK r : r = [row[b] EXCEPT !.status = status, !.cancelledOn = on, !.paid = TRUE]
  OBVIOUS
<1>6. /\ job[w] # Idle /\ row' = [row EXCEPT ![b] = r] /\ Refund(b, job[w].snap) /\ job' = [job EXCEPT ![w] = Idle]
      /\ UNCHANGED <<today, pix, scan, clashed, crashes>>
  BY <1>1, <1>2, <1>3, <1>4, <1>5 DEF RefundWrite, At, SetRow, Finish
<1>7. /\ job[w] \in Job /\ b \in Bookings /\ row[b] \in Row /\ row[b] # NoRow /\ BookingOK(row[b])
      /\ job[w].snap \in Row /\ SameDeal(job[w].snap, row[b]) /\ job[w].now \in Days
      /\ ~clashed => job[w].snap = row[b] /\ job[w].now = today /\ Honoured(row[b], GivenBack(b))
  BY <1>1, <1>6, WorkerHas
<1>8. /\ LedgerTypeOK' /\ GivenBack(b)'
      /\ \A a \in Bookings \ {b} : GivenBack(a)' <=> GivenBack(a)
      /\ \A a \in Bookings : \A s \in Wallets : HasLedgerEntry(s, "credit", RefundRef(a))' =>
           HasLedgerEntry(s, "credit", RefundRef(a)) \/ (a = b /\ s = job[w].snap.store)
  BY <1>6, <1>7, RefundGivesBack DEF SponsorIInv
<1>9. /\ r \in Row /\ r.status = status /\ r.store = row[b].store /\ r.first = row[b].first /\ r.last = row[b].last
      /\ r.expires = row[b].expires /\ r.paid = TRUE
  <2>1. status \in {"none", "pending", "active", "cancelled"} /\ on \in 0..LastDay
    BY <1>3, <1>4, <1>7 DEF Row, Days
  <2> QED  BY <1>5, <1>7, <2>1 DEF Row
<1>10. SameDeal(r, row[b]) /\ r.store = job[w].snap.store
  BY <1>7, <1>9 DEF SameDeal
<1>11. BookingOK(r) /\ (r.status = "pending" => row[b].status = "pending")
  <2>1. kept => row[b].status # "pending"
    BY <1>1, <1>2, <1>6 DEF SponsorIInv, WorkInv, JobFits
  <2> QED  BY <1>3, <1>7, <1>9, <2>1 DEF BookingOK, SameDeal
<1>12. \A d \in Days : Holds(r, today) /\ Covers(r, d) => Holds(row[b], today) /\ Covers(row[b], d)
  BY <1>3, <1>9 DEF Holds, Covers
<1>13. ~clashed => Honoured(r, GivenBack(b)')
  BY <1>2, <1>3, <1>7, <1>8, <1>9 DEF Honoured
<1>14. /\ row[b].paid => r.paid
       /\ pix' = pix \/ pix' = [pix EXCEPT ![b] = "open"]
       /\ UNCHANGED <<today, scan, clashed, crashes>>
       /\ \A a \in Bookings : \A s \in Wallets : HasLedgerEntry(s, "credit", RefundRef(a))' =>
            HasLedgerEntry(s, "credit", RefundRef(a)) \/ (a = b /\ s = r.store /\ r.paid)
       /\ ~clashed => \A d \in Days : Holds(r, today) /\ Covers(r, d) =>
            (Holds(row[b], today) /\ Covers(row[b], d)) \/ Occupancy(d, today) < Slots
  BY <1>6, <1>8, <1>9, <1>10, <1>12
<1> QED  BY <1>1, <1>6, <1>8, <1>9, <1>10, <1>11, <1>13, <1>14, WorkEnds

LEMMA CancelledKeeps ==
  ASSUME SponsorIInv, NEW w \in Workers, CancelWrite(w)
  PROVE  SponsorIInv'
<1>1. PICK b : b = job[w].on
  OBVIOUS
<1>2. PICK now : now = job[w].now
  OBVIOUS
<1>3. PICK snap : snap = job[w].snap
  OBVIOUS
<1>4. PICK r : r = [row[b] EXCEPT !.status = "cancelled", !.cancelledOn = now]
  OBVIOUS
<1>5. /\ job[w] # Idle /\ job[w].step = "cancel" /\ row' = [row EXCEPT ![b] = r] /\ job' = [job EXCEPT ![w] = Idle]
      /\ IF PaidBack(snap, now) THEN Refund(b, snap) ELSE UNCHANGED ledgerVars
      /\ UNCHANGED <<today, pix, scan, clashed, crashes>>
  BY <1>1, <1>2, <1>3, <1>4 DEF CancelWrite, At, SetRow, Finish
<1>6. /\ b \in Bookings /\ row[b] \in Row /\ row[b] # NoRow /\ BookingOK(row[b])
      /\ snap \in Row /\ SameDeal(snap, row[b]) /\ now \in Days
      /\ ~clashed => snap = row[b] /\ now = today /\ Honoured(row[b], GivenBack(b))
  BY <1>1, <1>2, <1>3, <1>5, WorkerHas
<1>7. /\ snap.status \in {"pending", "active"} /\ (snap.status = "active" => row[b].paid)
  BY <1>1, <1>3, <1>5 DEF SponsorIInv, WorkInv, JobFits
<1>8. /\ r \in Row /\ r.status = "cancelled" /\ r.store = row[b].store /\ r.first = row[b].first /\ r.last = row[b].last
      /\ r.paid = row[b].paid /\ r.cancelledOn = now
  <2>1. now \in 0..LastDay
    BY <1>6, SponsorAssumption DEF Days
  <2> QED  BY <1>4, <1>6, <2>1 DEF Row
<1>9. SameDeal(r, row[b]) /\ BookingOK(r) /\ r.store = snap.store
  BY <1>6, <1>8 DEF SameDeal, BookingOK
<1>10. \A d \in Days : ~Holds(r, today)
  BY <1>8 DEF Holds
<1>11. CASE PaidBack(snap, now)
  <2>1. /\ LedgerTypeOK' /\ GivenBack(b)'
        /\ \A a \in Bookings \ {b} : GivenBack(a)' <=> GivenBack(a)
        /\ \A a \in Bookings : \A s \in Wallets : HasLedgerEntry(s, "credit", RefundRef(a))' =>
             HasLedgerEntry(s, "credit", RefundRef(a)) \/ (a = b /\ s = snap.store)
    BY <1>5, <1>6, <1>11, RefundGivesBack DEF SponsorIInv
  <2>2. r.paid
    BY <1>7, <1>8, <1>11 DEF PaidBack
  <2>3. Honoured(r, GivenBack(b)')
    BY <1>8, <2>1 DEF Honoured
  <2>4. /\ row[b].paid => r.paid
        /\ pix' = pix \/ pix' = [pix EXCEPT ![b] = "open"]
        /\ UNCHANGED <<today, scan, clashed, crashes>>
        /\ r.status = "pending" => row[b].status = "pending"
        /\ \A a \in Bookings : \A s \in Wallets : HasLedgerEntry(s, "credit", RefundRef(a))' =>
             HasLedgerEntry(s, "credit", RefundRef(a)) \/ (a = b /\ s = r.store /\ r.paid)
        /\ ~clashed => \A d \in Days : Holds(r, today) /\ Covers(r, d) =>
             (Holds(row[b], today) /\ Covers(row[b], d)) \/ Occupancy(d, today) < Slots
    BY <1>5, <1>8, <1>9, <1>10, <2>1, <2>2
  <2> QED  BY <1>1, <1>5, <1>8, <1>9, <2>1, <2>3, <2>4, WorkEnds
<1>12. CASE ~PaidBack(snap, now)
  <2>1. UNCHANGED ledgerVars
    BY <1>5, <1>12
  <2>2. \A s, t, x : HasLedgerEntry(s, t, x)' <=> HasLedgerEntry(s, t, x)
    BY <2>1 DEF HasLedgerEntry, ledgerVars
  <2>3. LedgerTypeOK' /\ \A a : GivenBack(a)' <=> GivenBack(a)
    BY <2>1, <2>2 DEF SponsorIInv, RefundsInv, LedgerTypeOK, ledgerVars, GivenBack
  <2>4. ~clashed => Honoured(r, GivenBack(b)')
    <3>1. now \in Nat /\ row[b].first \in Nat
      BY <1>6 DEF Row, Days
    <3>2. ~clashed /\ r.paid => r.cancelledOn >= r.first
      BY <1>6, <1>7, <1>8, <1>12, <3>1 DEF PaidBack, BookingOK
    <3> QED  BY <1>8, <3>2 DEF Honoured
  <2> QED  BY <1>1, <1>5, <1>6, <1>8, <1>9, <1>10, <2>2, <2>3, <2>4, WorkEnds
<1> QED  BY <1>11, <1>12

\* A booking is made in the next free row, and its days had a slot left.
LEMMA CreatedKeeps ==
  ASSUME SponsorIInv, NEW w \in Workers, NEW s \in Wallets, NEW first \in Days, NEW last \in Days,
         NEW payWith \in {"wallet", "pix"}, CreateSponsorBooking(w, s, first, last, payWith)
  PROVE  SponsorIInv'
<1>1. PICK b : b = 1 + Cardinality({a \in Bookings : row[a] # NoRow})
  OBVIOUS
<1>2. PICK r : r = [status |-> IF payWith = "wallet" THEN "active" ELSE "pending",
                    store |-> s, first |-> first, last |-> last, created |-> today,
                    expires |-> IF payWith = "wallet" THEN 0 ELSE today + PendingHold,
                    paid |-> payWith = "wallet", charged |-> FALSE, cancelledOn |-> 0]
  OBVIOUS
<1>3. PICK j : j = [step |-> "issue", on |-> b, snap |-> r, now |-> today]
  OBVIOUS
<1>4. /\ job[w] = Idle /\ b \in Bookings /\ last - first \in 0..MaxDays - 1 /\ Available(s, first..last, today)
      /\ row' = [row EXCEPT ![b] = r]
      /\ IF payWith = "wallet" THEN AdjustWalletBalance(s, "debit", Price(r), DebitRef(b)) /\ UNCHANGED job
                               ELSE job' = [job EXCEPT ![w] = j] /\ UNCHANGED ledgerVars
      /\ UNCHANGED <<today, pix, scan, clashed, crashes>>
  BY <1>1, <1>2, <1>3 DEF CreateSponsorBooking, SetRow
<1>5. NumBookings \in Nat /\ MaxDays \in Nat /\ PendingHold \in Nat /\ LastDay \in Nat /\ LastDay # 0
  BY SponsorAssumption
<1>6. today \in Nat /\ today \in Days /\ first \in Nat /\ last \in Nat /\ first <= last
  BY <1>4, <1>5 DEF SponsorIInv, BookingsInv, Days
<1>7. /\ r \in Row /\ r.store = s /\ r.first = first /\ r.last = last /\ r.paid = (payWith = "wallet")
      /\ r.status = (IF payWith = "wallet" THEN "active" ELSE "pending") /\ r # NoRow
  <2>1. /\ (IF payWith = "wallet" THEN "active" ELSE "pending") \in {"none", "pending", "active", "cancelled"}
        /\ (IF payWith = "wallet" THEN 0 ELSE today + PendingHold) \in Nat /\ 0 \in 0..LastDay
    BY <1>5, <1>6
  <2>2. r \in Row
    BY <1>2, <1>6, <2>1 DEF Row
  <2> QED  BY <1>2, <2>2, NoBookingIsEmpty
<1>8. BookingOK(r)
  BY <1>6, <1>7 DEF BookingOK
<1>9. row[b] = NoRow /\ \E k \in 0..NumBookings : \A a \in Bookings : row'[a] # NoRow <=> a <= k
  <2>1. PICK k \in 0..NumBookings : \A a \in Bookings : row[a] # NoRow <=> a <= k
    BY DEF SponsorIInv, BookingsInv
  <2>2. {a \in Bookings : row[a] # NoRow} = 1..k
    BY <1>5, <2>1 DEF Bookings
  <2>3. Cardinality(1..k) = k
    <3>1. Cardinality(1..k) = IF 1 > k THEN 0 ELSE k - 1 + 1
      BY FS_Interval
    <3> QED  BY <3>1
  <2>4. b = k + 1
    <3>1. Cardinality({a \in Bookings : row[a] # NoRow}) = k
      BY <2>2, <2>3
    <3>2. k \in Int
      BY <1>5, <2>1
    <3> QED  BY ONLY <1>1, <3>1, <3>2
  <2>5. k + 1 \in 0..NumBookings /\ row[b] = NoRow
    BY <1>4, <1>5, <2>1, <2>4 DEF Bookings
  <2>6. ASSUME NEW a \in Bookings PROVE row'[a] # NoRow <=> a <= k + 1
    <3>1. a \in Nat
      BY DEF Bookings
    <3>2. CASE a = b
      BY <1>4, <1>7, <2>4, <3>2 DEF SponsorIInv, BookingsInv
    <3>3. CASE a # b
      <4>1. row'[a] = row[a] /\ (row[a] # NoRow <=> a <= k)
        BY <1>4, <2>1, <3>3 DEF SponsorIInv, BookingsInv
      <4> QED  BY <2>4, <3>1, <3>3, <4>1
    <3> QED  BY <3>2, <3>3
  <2> QED  BY <2>5, <2>6
<1>10. row'[b] = r /\ (\A a \in Bookings \ {b} : row'[a] = row[a]) /\ row' \in [Bookings -> Row \cup {NoRow}]
  BY <1>4, <1>7 DEF SponsorIInv, BookingsInv
<1>11. BookingsInv'
  <2>1. \A a \in Bookings : BookingOK(row'[a])
    BY <1>8, <1>10 DEF SponsorIInv, BookingsInv
  <2>2. \A a \in Bookings : pix'[a] # "none" => row'[a] # NoRow
    BY <1>4, <1>7, <1>10 DEF SponsorIInv, BookingsInv
  <2> QED  BY <1>4, <1>9, <1>10, <2>1, <2>2 DEF SponsorIInv, BookingsInv
<1>12. JobFits(j, row') /\ j \in Job
  <2>1. j \in Job
    BY <1>3, <1>4, <1>6, <1>7 DEF Job
  <2> QED  BY <1>3, <1>7, <1>10, <2>1 DEF JobFits, SameDeal
<1>13. \A v \in Workers : job'[v] = job[v] \/ (v = w /\ job'[v] = j)
  BY <1>4 DEF SponsorIInv, WorkInv
<1>14. \A v \in Workers : job[v] # Idle => job[v].on \in Bookings /\ job[v].on # b
  BY <1>9, NoBookingIsEmpty DEF SponsorIInv, WorkInv, JobFits
<1>15. WorkInv'
  <2>1. ASSUME NEW v \in Workers PROVE JobFits(job'[v], row')
    <3>1. JobFits(job[v], row)
      BY DEF SponsorIInv, WorkInv
    <3>2. JobFits(job[v], row')
      BY <1>10, <1>14, <3>1 DEF JobFits
    <3> QED  BY <1>12, <1>13, <3>2
  <2>2. job' \in [Workers -> Job \cup {Idle}]
    BY <1>4, <1>12 DEF SponsorIInv, WorkInv
  <2> QED  BY <2>1, <2>2 DEF WorkInv
<1>16. /\ LedgerTypeOK'
       /\ \A a \in Bookings : \A v \in Wallets :
            HasLedgerEntry(v, "credit", RefundRef(a))' <=> HasLedgerEntry(v, "credit", RefundRef(a))
  <2>1. CASE payWith = "wallet"
    <3>1. /\ AdjustWalletBalance(s, "debit", Price(r), DebitRef(b)) /\ LedgerTypeOK
          /\ Price(r) \in Amounts /\ DebitRef(b) \in References /\ {"debit", "credit"} \subseteq TxnTypes
          /\ \A a \in Bookings : RefundRef(a) \in References
      BY <1>4, <1>6, <1>7, <2>1, PriceIsAmount, RefsApart DEF References, TxnTypes, SponsorIInv, RefundsInv
    <3>2. /\ LedgerTypeOK'
          /\ \A v \in Wallets, t \in TxnTypes, x \in References :
               HasLedgerEntry(v, t, x)' <=> HasLedgerEntry(v, t, x) \/ (v = s /\ t = "debit" /\ x = DebitRef(b))
      BY <3>1, EntryAdded
    <3> QED  BY <3>1, <3>2
  <2>2. CASE payWith # "wallet"
    BY <1>4, <2>2 DEF HasLedgerEntry, ledgerVars, SponsorIInv, RefundsInv, LedgerTypeOK
  <2> QED  BY <2>1, <2>2
<1>17. \A a \in Bookings : GivenBack(a)' <=> GivenBack(a)
  BY <1>16 DEF GivenBack
<1>18. RefundsInv'
  <2> SUFFICES ASSUME NEW a \in Bookings, NEW v \in Wallets, HasLedgerEntry(v, "credit", RefundRef(a))'
               PROVE  row'[a] # NoRow /\ row'[a].store = v /\ row'[a].paid
    BY <1>16 DEF RefundsInv
  <2>1. row[a] # NoRow /\ row[a].store = v /\ row[a].paid
    BY <1>16 DEF SponsorIInv, RefundsInv
  <2> QED  BY <1>9, <1>10, <2>1
<1>19. ~clashed' => CalmWork' /\ CalmBookings'
  <2> SUFFICES ASSUME ~clashed PROVE CalmWork' /\ CalmBookings'
    BY <1>4
  <2>1. CalmWork /\ CalmBookings
    BY DEF SponsorIInv
  <2>2. j # Idle /\ j.on = b /\ j.snap = r /\ j.now = today
    BY <1>3, <1>12, NoBookingIsEmpty
  <2>3. ASSUME NEW v \in Workers, job'[v] # Idle PROVE job'[v].snap = row'[job'[v].on] /\ job'[v].now = today
    <3>1. CASE job'[v] = j
      BY <1>10, <2>2, <3>1
    <3>2. CASE job'[v] = job[v]
      BY <1>10, <1>14, <2>1, <2>3, <3>2 DEF CalmWork
    <3> QED  BY <1>13, <3>1, <3>2
  <2>4. ASSUME NEW v \in Workers, NEW u \in Workers, job'[v] # Idle, job'[u] # Idle, job'[v].on = job'[u].on PROVE v = u
    BY <1>13, <1>14, <2>1, <2>2, <2>4 DEF CalmWork
  <2>5. CalmWork'
    BY <1>4, <2>1, <2>3, <2>4 DEF CalmWork
  <2>6. \A d \in Days : Covers(r, d) => Occupancy(d, today) < Slots
    BY <1>4, <1>7 DEF Covers, Available, Days
  <2>7. \A d \in Days : Occupancy(d, today)' <= Slots
    BY <1>4, <1>7, <2>1, <2>6, DaysNotOversold DEF CalmBookings, SponsorIInv
  <2>8. ~GivenBack(b)
    BY <1>4, <1>9 DEF SponsorIInv, RefundsInv, GivenBack
  <2>9. \A a \in Bookings : Honoured(row'[a], GivenBack(a)')
    <3> SUFFICES ASSUME NEW a \in Bookings PROVE Honoured(row'[a], GivenBack(a)')
      OBVIOUS
    <3>1. CASE a = b
      BY <1>7, <1>10, <1>17, <2>8, <3>1 DEF Honoured
    <3>2. CASE a # b
      <4>1. row'[a] = row[a] /\ (GivenBack(a)' <=> GivenBack(a)) /\ Honoured(row[a], GivenBack(a))
        BY <1>10, <1>17, <2>1, <3>2 DEF CalmBookings
      <4> QED  BY <4>1 DEF Honoured
    <3> QED  BY <3>1, <3>2
  <2> QED  BY <2>5, <2>7, <2>9 DEF CalmBookings
<1> QED  BY <1>11, <1>15, <1>18, <1>19 DEF SponsorIInv

\* The scan begins, and goes on, as of the day it began.
LEMMA ScanKeeps ==
  ASSUME SponsorIInv, Reconcile
  PROVE  SponsorIInv'
<1>1. /\ today \in Days /\ clashed \in BOOLEAN /\ scan \in [now : Days, batch : SUBSET Bookings]
      /\ ~clashed /\ scan.batch # {} => scan.now = today
  BY DEF SponsorIInv, BookingsInv, CalmWork
<1>2. CASE ScanStart
  <2>1. /\ scan' \in [now : Days, batch : SUBSET Bookings] /\ scan'.now = today
        /\ UNCHANGED <<ledgerVars, today, row, pix, job, clashed, crashes>>
    BY <1>1, <1>2 DEF ScanStart
  <2>2. BookingsInv' /\ WorkInv'
    BY <2>1 DEF SponsorIInv, BookingsInv, WorkInv
  <2>3. CalmWork => CalmWork'
    BY <2>1 DEF CalmWork
  <2> QED  BY <2>1, <2>2, <2>3, BookingsStay DEF SponsorIInv
<1>3. CASE ScanNext
  <2>1. PICK b \in scan.batch :
          /\ scan' = [scan EXCEPT !.batch = @ \ {b}]
          /\ IF pix[b] = "paid" THEN Start(Scanner, "settle", b, scan.now) ELSE UNCHANGED <<job, clashed>>
          /\ UNCHANGED <<ledgerVars, today, row, pix, crashes>>
    BY <1>3 DEF ScanNext
  <2>2. scan' = [now |-> scan.now, batch |-> scan.batch \ {b}]
    BY <1>1, <2>1
  <2>3. /\ scan' \in [now : Days, batch : SUBSET Bookings] /\ (~clashed => scan'.now = today /\ scan.now = today)
        /\ scan.now \in Days /\ b \in Bookings
    BY <1>1, <2>1, <2>2
  <2>4. CASE pix[b] = "paid"
    <3>1. row[b] # NoRow /\ Scanner \in Workers
      BY <2>3, <2>4 DEF SponsorIInv, BookingsInv, Workers
    <3> QED  BY <2>1, <2>3, <2>4, <3>1, StartKeeps
  <2>5. CASE pix[b] # "paid"
    <3>1. UNCHANGED <<ledgerVars, today, row, pix, job, clashed, crashes>>
      BY <2>1, <2>5
    <3>2. BookingsInv' /\ WorkInv'
      BY <2>3, <3>1 DEF SponsorIInv, BookingsInv, WorkInv
    <3>3. ~clashed /\ CalmWork => CalmWork'
      BY <2>3, <3>1 DEF CalmWork
    <3> QED  BY <3>1, <3>2, <3>3, BookingsStay DEF SponsorIInv
  <2> QED  BY <2>4, <2>5
<1> QED  BY <1>2, <1>3 DEF Reconcile

\* A day ends: fewer bookings hold their days, and nobody is at work unless that is
\* noted.
LEMMA DayKeeps ==
  ASSUME SponsorIInv, NextDay
  PROVE  SponsorIInv'
<1>1. /\ today < LastDay /\ today' = today + 1 /\ clashed' = (clashed \/ Busy)
      /\ UNCHANGED <<ledgerVars, row, pix, job, scan, crashes>>
  BY DEF NextDay
<1>2. today \in Nat /\ today \in Days /\ today' \in Days /\ Busy \in BOOLEAN /\ clashed \in BOOLEAN
  BY <1>1, SponsorAssumption DEF SponsorIInv, BookingsInv, Days, Busy
<1>3. BookingsInv' /\ WorkInv'
  BY <1>1, <1>2 DEF SponsorIInv, BookingsInv, WorkInv
<1>4. \A s, t, x : HasLedgerEntry(s, t, x)' <=> HasLedgerEntry(s, t, x)
  BY <1>1 DEF HasLedgerEntry, ledgerVars
<1>5. RefundsInv'
  BY <1>1, <1>4 DEF SponsorIInv, RefundsInv, LedgerTypeOK, ledgerVars
<1>6. ~clashed' => CalmWork' /\ CalmBookings'
  <2> SUFFICES ASSUME ~clashed, ~Busy PROVE CalmWork' /\ CalmBookings'
    BY <1>1, <1>2
  <2>1. CalmBookings
    BY DEF SponsorIInv
  <2>2. CalmWork'
    BY <1>1 DEF Busy, CalmWork
  <2>3. ASSUME NEW d \in Days PROVE Occupancy(d, today)' <= Slots
    <3>1. Occupied(d, today) \in SUBSET Bookings /\ Occupied(d, today)' \in SUBSET Bookings
      BY DEF Occupied
    <3>2. Occupied(d, today)' \subseteq Occupied(d, today)
      <4> SUFFICES ASSUME NEW b \in Bookings, Holds(row[b], today + 1), Covers(row[b], d) PROVE Holds(row[b], today)
        BY <1>1 DEF Occupied
      <4>1. row[b] # NoRow
        BY NoBookingIsEmpty DEF Holds
      <4>2. row[b].expires \in Nat
        BY <4>1 DEF SponsorIInv, BookingsInv, Row
      <4> QED  BY <1>2, <4>2 DEF Holds
    <3>3. Occupancy(d, today) = Cardinality(Occupied(d, today)) /\ Occupancy(d, today)' = Cardinality(Occupied(d, today)')
      BY DEF Occupied, Occupancy
    <3>4. Occupancy(d, today) <= Slots /\ Slots \in Nat
      BY <2>1, SponsorAssumption DEF CalmBookings
    <3>5. Cardinality(Occupied(d, today)) \in Nat /\ Cardinality(Occupied(d, today)') \in Nat
          /\ Cardinality(Occupied(d, today)') <= Cardinality(Occupied(d, today))
      <4>1. CASE Bookings = {}
        BY <3>1, <3>2, <4>1, FS_EmptySet
      <4>2. CASE Bookings # {}
        BY <3>1, <3>2, <4>2, BookingsAreFew
      <4> QED  BY <4>1, <4>2
    <3> QED  BY <3>3, <3>4, <3>5
  <2>4. \A b \in Bookings : Honoured(row'[b], GivenBack(b)')
    BY <1>1, <1>4, <2>1 DEF CalmBookings, GivenBack
  <2> QED  BY <2>2, <2>3, <2>4 DEF CalmBookings
<1> QED  BY <1>3, <1>5, <1>6 DEF SponsorIInv

LEMMA RestartKeeps ==
  ASSUME SponsorIInv, Crash
  PROVE  SponsorIInv'
<1>1. /\ job' = [w \in Workers |-> Idle] /\ scan' = [scan EXCEPT !.batch = {}] /\ crashes' = crashes + 1
      /\ crashes < MaxTroubles /\ UNCHANGED <<ledgerVars, today, row, pix, clashed>>
  BY DEF Crash
<1>2. scan' \in [now : Days, batch : SUBSET Bookings] /\ scan'.batch = {} /\ crashes' \in 0..MaxTroubles
  BY <1>1, SponsorAssumption DEF SponsorIInv, BookingsInv
<1>3. BookingsInv' /\ WorkInv'
  BY <1>1, <1>2 DEF SponsorIInv, BookingsInv, WorkInv, JobFits
<1>4. CalmWork'
  BY <1>1, <1>2 DEF CalmWork
<1> QED  BY <1>1, <1>3, <1>4, BookingsStay DEF SponsorIInv

LEMMA PaidPixKeeps ==
  ASSUME SponsorIInv, NEW b \in Bookings, PayPix(b)
  PROVE  SponsorIInv'
<1>1. /\ pix[b] = "open" /\ pix' = [pix EXCEPT ![b] = "paid"]
      /\ UNCHANGED <<ledgerVars, today, row, job, scan, clashed, crashes>>
  BY DEF PayPix
<1>2. BookingsInv' /\ WorkInv' /\ (CalmWork => CalmWork')
  BY <1>1 DEF SponsorIInv, BookingsInv, WorkInv, CalmWork
<1> QED  BY <1>1, <1>2, BookingsStay DEF SponsorIInv

\* What stores, admins and the gateway ask for.
LEMMA AskedKeeps ==
  ASSUME SponsorIInv, NEW w \in Handlers, SponsorRequest(w)
  PROVE  SponsorIInv'
<1>1. w \in Workers /\ today \in Days /\ scan \in [now : Days, batch : SUBSET Bookings]
      /\ (~clashed /\ scan.batch # {} => scan.now = today)
  BY DEF Workers, SponsorIInv, BookingsInv, CalmWork
<1>2. ASSUME NEW s \in Wallets, NEW first \in Days, NEW last \in Days, NEW payWith \in {"wallet", "pix"},
             CreateSponsorBooking(w, s, first, last, payWith)
      PROVE  SponsorIInv'
  BY <1>1, <1>2, CreatedKeeps
<1>3. ASSUME NEW b \in Bookings, SettleSponsorCharge(w, b) PROVE SponsorIInv'
  <2>1. row[b] # NoRow
    BY <1>3 DEF SettleSponsorCharge, SponsorIInv, BookingsInv
  <2> QED  BY <1>1, <1>3, <2>1, StartKeeps DEF SettleSponsorCharge
<1>4. ASSUME NEW b \in Bookings, ConfirmSponsorPayment(w, b) PROVE SponsorIInv'
  <2>1. row[b] # NoRow
    BY <1>4, NoBookingIsEmpty DEF ConfirmSponsorPayment
  <2> QED  BY <1>1, <1>4, <2>1, StartKeeps DEF ConfirmSponsorPayment
<1>5. ASSUME NEW b \in Bookings, NEW admin \in BOOLEAN, CancelSponsorBooking(w, b, admin) PROVE SponsorIInv'
  <2>1. row[b] # NoRow
    BY <1>5, NoBookingIsEmpty DEF CancelSponsorBooking
  <2> QED  BY <1>1, <1>5, <2>1, StartKeeps DEF CancelSponsorBooking
<1> QED  BY <1>2, <1>3, <1>4, <1>5 DEF SponsorRequest

LEMMA SponsorStep == SponsorIInv /\ [Next]_vars => SponsorIInv'
<1> SUFFICES ASSUME SponsorIInv, [Next]_vars PROVE SponsorIInv'
  OBVIOUS
<1>1. ASSUME NEW w \in Workers, JobStep(w) PROVE SponsorIInv'
  BY <1>1, IssuedPixKeeps, ActivatedKeeps, RefundReadKeeps, RefundWriteKeeps, CancelledKeeps DEF JobStep
<1>2. ASSUME NEW w \in Handlers, SponsorRequest(w) PROVE SponsorIInv'
  BY <1>2, AskedKeeps
<1>3. CASE Reconcile
  BY <1>3, ScanKeeps
<1>4. CASE NextDay
  BY <1>4, DayKeeps
<1>5. CASE Crash
  BY <1>5, RestartKeeps
<1>6. ASSUME NEW b \in Bookings, PayPix(b) PROVE SponsorIInv'
  BY <1>6, PaidPixKeeps
<1>7. CASE UNCHANGED vars
  <2>1. UNCHANGED <<ledgerVars, today, row, pix, job, scan, clashed, crashes>>
    BY <1>7 DEF vars, ledgerVars
  <2>2. BookingsInv' /\ WorkInv' /\ (CalmWork => CalmWork')
    BY <2>1 DEF SponsorIInv, BookingsInv, WorkInv, CalmWork
  <2> QED  BY <2>1, <2>2, BookingsStay DEF SponsorIInv
<1> QED  BY <1>1, <1>2, <1>3, <1>4, <1>5, <1>6, <1>7 DEF Next

LEMMA SponsorImplied == SponsorIInv => SponsorInv
<1> SUFFICES ASSUME SponsorIInv PROVE SponsorInv
  OBVIOUS
<1>1. TypeOK
  BY DEF SponsorIInv, BookingsInv, WorkInv, JobFits, RefundsInv, TypeOK
<1>2. \A b \in Bookings : row[b] # NoRow => row[b] \in Row /\ row[b].store \in Wallets /\ BookingOK(row[b])
  BY DEF SponsorIInv, BookingsInv, Row
<1>3. \A b \in Bookings : row[b] # NoRow => (Refunded(b) <=> GivenBack(b))
  BY <1>2 DEF SponsorIInv, RefundsInv, Refunded, GivenBack
<1>4. RefundOnlyPaid
  BY <1>2 DEF SponsorIInv, RefundsInv, Refunded, RefundOnlyPaid
<1>5. SlotsNotOversoldWhenCalm
  BY DEF SponsorIInv, CalmBookings, SlotsNotOversoldWhenCalm, SlotsNotOversold, Calm
<1>6. PaidIsHonoured
  <2> SUFFICES ASSUME ~clashed, NEW b \in Bookings, row[b].status \in {"active", "cancelled"}
               PROVE  /\ row[b].status = "active" => row[b].paid /\ ~Refunded(b)
                      /\ row[b].status = "cancelled" /\ row[b].paid => Refunded(b) \/ row[b].cancelledOn >= row[b].first
    BY DEF PaidIsHonoured, Calm
  <2>1. row[b] # NoRow
    BY NoBookingIsEmpty
  <2> QED  BY <1>2, <1>3, <2>1 DEF SponsorIInv, CalmBookings, Honoured, BookingOK
<1> QED  BY <1>1, <1>4, <1>5, <1>6 DEF SponsorInv

\* However bookings, payments, cancellations, the scan and restarts meet, a store
\* gets back only what it paid; and as long as no two handlers meet on a booking
\* no day is sold twice and a paid booking is on or given back: with any number
\* of stores, bookings, days, slots and handlers.
THEOREM SponsorsAreServed == Spec => []SponsorInv
<1> QED  BY SponsorInitial, SponsorStep, SponsorImplied, PTL DEF Spec
=============================================================================
