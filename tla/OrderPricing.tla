---------------------------- MODULE OrderPricing ----------------------------
(***************************************************************************)
(* What an order costs and where the money goes: the delivery fee of the    *)
(* address, the coupon, the order document, the charge that must follow the *)
(* document and not the client, and the split of what was paid between the  *)
(* store, the courier and the platform.  orders_api writes the document,    *)
(* payment_api reads it again when the order is charged; between the two    *)
(* the shares of the zone may have moved.  Money is in cents.  Who may use  *)
(* a coupon, and how often, is CouponUse.                                   *)
(***************************************************************************)
EXTENDS Integers, FiniteSets

CONSTANTS
  Stores,        \* establishments
  AnyStore,      \* establishment_id 0 of a coupon: every store
  MenuValues,    \* what a cart may be worth at the prices of the database
  Ceps,          \* postal codes
  RegionForms,   \* the region rules an admin may send
  StoreFees,     \* fixed fee + per km x distance, as a store configures it
  CouponForms,   \* the coupons a creator may send
  SplitShares,   \* [platform, establishment] percentages a zone may have
  FreeAbove,     \* free_delivery_above of the basic plan
  LegacyOrders,  \* documents written before the server computed the values
  Unset          \* a field the document or the configuration does not have

ASSUME PricingAssumption ==
  /\ Stores \cap {AnyStore, "admin", ""} = {}
  /\ Unset \notin Nat
  /\ MenuValues \subseteq Nat /\ StoreFees \subseteq Nat
  /\ \A r \in RegionForms : {r.first, r.last, r.fee, r.priority} \subseteq Int
  /\ \A f \in CouponForms : /\ f.type \in {"PERCENTAGE", "FIXED", "FREE_DELIVERY"}
                           /\ {f.value, f.min} \subseteq Int
  /\ SplitShares \subseteq [platform : Nat, establishment : Nat]
  /\ \A o \in LegacyOrders : /\ o.type = "legacy" /\ o.creator = ""
                            /\ o.total \in Nat /\ o.discount \in Nat
                            /\ o.delivery \in Nat \cup {Unset}

VARIABLES
  regions,   \* delivery_region_fees
  config,    \* deliveries: the fee of each store outside every region
  coupon,    \* the coupon in circulation, with who created it
  order,     \* the order_documents row
  charge,    \* the payments row of the order
  shares     \* split_rules, written when the payment is settled

pricingVars == <<regions, config, coupon, order, charge, shares>>

None == [type |-> "none"]   \* no row

RoundPct(v, pct) == (2 * v * pct + 100) \div 200   \* half a cent goes up
AtLeastZero(v)   == IF v < 0 THEN 0 ELSE v
Smaller(a, b)    == IF a < b THEN a ELSE b

-----------------------------------------------------------------------------
(* The fee of the address. *)

\* The rules sent by an admin that validar lets through.
ValidRegion(r) == r.first > 0 /\ r.first <= r.last /\ r.fee >= 0

CreateDeliveryRegion(r) ==
  /\ ValidRegion(r)
  /\ regions' = regions \cup {r}
  /\ UNCHANGED <<config, coupon, order, charge, shares>>

UpdateDeliveryRegion(old, r) ==
  /\ old \in regions /\ ValidRegion(r)
  /\ regions' = (regions \ {old}) \cup {r}
  /\ UNCHANGED <<config, coupon, order, charge, shares>>

DeleteDeliveryRegion(old) ==
  /\ old \in regions
  /\ regions' = regions \ {old}
  /\ UNCHANGED <<config, coupon, order, charge, shares>>

InsertDelivery(s, fee) ==
  /\ fee >= 0
  /\ config' = [config EXCEPT ![s] = fee]
  /\ UNCHANGED <<regions, coupon, order, charge, shares>>

\* ORDER BY priority, width, id LIMIT 1.
Covering(cep) == {r \in regions : r.active /\ r.first <= cep /\ cep <= r.last}
Beats(r, q)   == \/ r.priority < q.priority
                 \/ r.priority = q.priority /\ r.last - r.first < q.last - q.first
Winners(cep)  == {r \in Covering(cep) : ~\E q \in Covering(cep) : Beats(q, r)}

\* The base fee: region, else the store's own, else (logged) nothing.
BaseFees(s, cep) ==
  IF Covering(cep) # {} THEN {r.fee : r \in Winners(cep)}
  ELSE {IF config[s] = Unset THEN 0 ELSE config[s]}

\* An active membership makes the delivery free.
DeliveryFee(base, plan, goods) ==
  IF plan = "premium" \/ (plan = "basic" /\ FreeAbove > 0 /\ goods >= FreeAbove)
  THEN 0 ELSE base

-----------------------------------------------------------------------------
(* Coupons. *)

\* Mutant of Creatable: a store may say that the platform pays.
CreatableByAnyone(who, f) == who \in {"admin", f.store}

\* Who may create which coupon; "" is a funded_by left out.
Creatable(who, f) ==
  /\ who \in {"admin", f.store}
  /\ who # "admin" => f.store # AnyStore /\ f.funder \in {"", "establishment"}
  /\ f.type = "PERCENTAGE" => f.value \in 1..100
  /\ f.type = "FIXED" => f.value > 0
  /\ f.min >= 0

CreateCoupon(who, f) ==
  /\ Creatable(who, f)
  /\ coupon = None                    \* the code is taken otherwise
  /\ coupon' = [type |-> f.type, value |-> f.value, min |-> f.min,
                 store |-> f.store, creator |-> who,
                 funder |-> IF f.funder # "" THEN f.funder
                            ELSE IF who = "admin" THEN "platform"
                            ELSE "establishment"]
  /\ UNCHANGED <<regions, config, order, charge, shares>>

\* DeactivateCoupon: the creator's store or an admin.
DeactivateCoupon(who) ==
  /\ coupon # None /\ who \in {"admin", coupon.store}
  /\ coupon' = None
  /\ UNCHANGED <<regions, config, order, charge, shares>>

-----------------------------------------------------------------------------
(* The order. *)

\* ValidateCouponInternal, as far as the price goes.
Applies(s, goods) == /\ coupon # None
                     /\ goods >= coupon.min
                     /\ coupon.store \in {AnyStore, s}

\* Mutant of Discount: a fixed coupon may eat the delivery fee.
DiscountUncapped(goods, delivery) ==
  CASE coupon.type = "PERCENTAGE" -> RoundPct(goods, coupon.value)
    [] coupon.type = "FIXED" -> coupon.value
    [] coupon.type = "FREE_DELIVERY" -> delivery

\* What the coupon takes off: never more than the goods, or the fee.
Discount(goods, delivery) ==
  CASE coupon.type = "PERCENTAGE" -> RoundPct(goods, coupon.value)
    [] coupon.type = "FIXED" -> Smaller(coupon.value, goods)
    [] coupon.type = "FREE_DELIVERY" -> delivery

\* CreateOrder: goods are the prices of the database times the quantities;
\* withCoupon says whether the client sent the code.  A code that does not
\* apply refuses the order; one that takes nothing off leaves no trace.
CreateOrder(s, goods, cep, plan, withCoupon) ==
  /\ order = None
  /\ withCoupon => Applies(s, goods)
  /\ \E base \in BaseFees(s, cep) :
       LET delivery == DeliveryFee(base, plan, goods)
           off      == IF withCoupon THEN Discount(goods, delivery) ELSE 0
       IN  order' = [type |-> "order", store |-> s, delivery |-> delivery,
                     total |-> AtLeastZero(goods + delivery - off),
                     discount |-> off,
                     funder |-> IF off > 0 THEN coupon.funder ELSE "",
                     creator |-> IF off > 0 THEN coupon.creator ELSE "",
                     freight |-> off > 0 /\ coupon.type = "FREE_DELIVERY"]
  /\ UNCHANGED <<regions, config, coupon, charge, shares>>

-----------------------------------------------------------------------------
(* The charge. *)

\* lookupOrderRecipient: a discount nobody is named for is the platform's.
FunderOf(o) == IF o.discount = 0 THEN ""
               ELSE IF o.funder \in {"platform", "establishment"} THEN o.funder
               ELSE "platform"

\* Mutant of AmountOK: an order that costs nothing is charged.
AmountWithinCent(amount) == amount - order.total \in -1..1

\* validateChargeAmount: a cent of tolerance, and nothing free is charged.
AmountOK(amount) == order.total > 0 /\ amount - order.total \in -1..1

\* Mutant of DeliveryOK: the fee of an old order is the client's word.
DeliveryOKTrusting(delivery) == delivery >= 0

\* resolveDeliveryAmount: the fee of the document, below the gross; without
\* one, the client's, up to half of the total.
DeliveryOK(delivery) ==
  /\ delivery >= 0
  /\ IF order.delivery # Unset
     THEN /\ delivery - order.delivery \in -1..1
          /\ order.delivery < order.total + order.discount
     ELSE delivery < order.total /\ delivery <= order.total \div 2

\* A coupon comes out of the part of the side that offers it, whole.
PlatformPart(p, pcts) ==
  LET part == RoundPct(p.amount + p.discount, pcts.platform)
  IN  IF p.funder = "establishment" THEN part ELSE AtLeastZero(part - p.discount)

StorePart(p, pcts) ==
  LET part == RoundPct(p.amount + p.discount, pcts.establishment)
  IN  IF p.funder = "establishment" THEN AtLeastZero(part - p.discount) ELSE part

\* Mutant of CalculateSplitRules: the store does not give way to the fee.
SplitWithoutOverage(p, pcts) ==
  LET eaten    == p.delivery >= p.amount
      courier  == Smaller(p.delivery, p.amount)
      store    == IF eaten THEN 0 ELSE StorePart(p, pcts)
      wanted   == IF eaten THEN 0 ELSE PlatformPart(p, pcts)
      platform == Smaller(wanted, AtLeastZero(p.amount - courier - store))
      rest     == AtLeastZero(p.amount - platform - store - courier)
  IN  [deliveryman |-> courier, establishment |-> store,
       platform |-> platform + rest, pcts |-> pcts]

\* Mutant of CalculateSplitRules: the percentages fall on what was paid.
SplitOfNet(p, pcts) ==
  LET courier == Smaller(p.delivery, p.amount)
      store   == Smaller(RoundPct(p.amount, pcts.establishment), p.amount - courier)
  IN  [deliveryman |-> courier, establishment |-> store,
       platform |-> p.amount - courier - store, pcts |-> pcts]

\* CalculateSplitRules: the delivery first, then the store; the platform
\* gives way to both and takes what is left over.
CalculateSplitRules(p, pcts) ==
  LET eaten    == p.delivery >= p.amount
      courier  == Smaller(p.delivery, p.amount)
      asked    == IF eaten THEN 0 ELSE StorePart(p, pcts)
      wanted   == IF eaten THEN 0 ELSE PlatformPart(p, pcts)
      platform == Smaller(wanted, AtLeastZero(p.amount - courier - asked))
      over     == AtLeastZero(platform + asked + courier - p.amount)
      store    == AtLeastZero(asked - over)
      rest     == AtLeastZero(p.amount - platform - store - courier)
  IN  [deliveryman |-> courier, establishment |-> store,
       platform |-> platform + rest, pcts |-> pcts]

\* Mutant of ApplicationFee: the commission alone, without the delivery.
CommissionOnly(p, pcts) == CalculateSplitRules(p, pcts).platform

\* applicationFeeCents: all but the store's share is retained at the origin.
ApplicationFee(p, pcts) ==
  AtLeastZero(p.amount - CalculateSplitRules(p, pcts).establishment)

\* GeneratePIX: what the client sends must agree with the document; the
\* store, the discount and who funds it come from the document.  The mode is
\* the store's: no connected account, split at origin, or repasse.
CreateCharge(amount, delivery, mode, pcts) ==
  /\ order # None /\ charge = None
  /\ order.store \in Stores
  /\ AmountOK(amount) /\ DeliveryOK(delivery)
  /\ LET p == [type |-> "charge", amount |-> order.total, mode |-> mode,
               delivery |-> IF order.delivery # Unset THEN order.delivery ELSE delivery,
               discount |-> order.discount, funder |-> FunderOf(order),
               store |-> order.store, fee |-> 0]
     IN  charge' = [p EXCEPT !.fee = IF mode = "split" THEN ApplicationFee(p, pcts)
                                     ELSE 0]
  /\ UNCHANGED <<regions, config, coupon, order, shares>>

\* settlePaymentApproved, with the percentages of that moment.
Settle(pcts) ==
  /\ charge # None /\ shares = None
  /\ shares' = CalculateSplitRules(charge, pcts)
  /\ UNCHANGED <<regions, config, coupon, order, charge>>

-----------------------------------------------------------------------------
PricingInit == /\ regions = {}
               /\ config \in [Stores -> StoreFees \cup {Unset}]
               /\ coupon = None
               /\ order \in LegacyOrders \cup {None}
               /\ charge = None
               /\ shares = None

Creators == Stores \cup {"admin"}

\* The catalogue matters until the order is a document of its own.
Catalogue ==
  /\ order = None
  /\ \/ \E r \in RegionForms : CreateDeliveryRegion(r)
     \/ \E old \in regions, r \in RegionForms : UpdateDeliveryRegion(old, r)
     \/ \E old \in regions : DeleteDeliveryRegion(old)
     \/ \E s \in Stores, fee \in StoreFees : InsertDelivery(s, fee)
     \/ \E who \in Creators, f \in CouponForms : CreateCoupon(who, f)
     \/ \E who \in Creators : DeactivateCoupon(who)

Ordering ==
  \E s \in Stores, goods \in MenuValues, cep \in Ceps,
     plan \in {"none", "basic", "premium"}, withCoupon \in BOOLEAN :
    CreateOrder(s, goods, cep, plan, withCoupon)

\* What a client may send: the document's values, a cent or more off, all
\* of the total as the fee.
Charging ==
  \E amount \in {order.total - 2, order.total - 1, order.total},
     delivery \in {0, order.total \div 2, order.total - 1, order.total}
                  \cup ({order.delivery} \ {Unset}),
     mode \in {"custody", "split", "repasse"}, pcts \in SplitShares :
    CreateCharge(amount, delivery, mode, pcts)

Settling == \E pcts \in SplitShares : Settle(pcts)

PricingNext == \/ Catalogue
               \/ Ordering
               \/ order # None /\ Charging
               \/ Settling

PricingSpec == PricingInit /\ [][PricingNext]_pricingVars

-----------------------------------------------------------------------------
PricingTypeOK ==
  /\ regions \subseteq RegionForms
  /\ config \in [Stores -> StoreFees \cup {Unset}]
  /\ charge # None => charge.amount \in Nat \ {0} /\ charge.delivery \in Nat
                      /\ charge.discount \in Nat /\ charge.fee \in Nat
  /\ shares # None => shares.pcts \in SplitShares

\* Whatever the percentages, the coupon and the fee, the shares are the
\* payment: not a cent more is credited than was paid, none is lost, and
\* nobody is credited a negative amount (split_calculator.go:38-41).
SharesMakeThePayment ==
  shares # None =>
    /\ shares.platform + shares.establishment + shares.deliveryman = charge.amount
    /\ shares.platform >= 0 /\ shares.establishment >= 0 /\ shares.deliveryman >= 0

\* The side that offers the coupon pays for it: the other one gets what it
\* would have got of the undiscounted order, as far as what was paid allows
\* (split_calculator.go:71-81).
FunderPays ==
  shares # None /\ charge.discount > 0 =>
    LET full == CalculateSplitRules([charge EXCEPT !.amount = @ + charge.discount,
                                                   !.discount = 0], shares.pcts)
        left == charge.amount - shares.deliveryman
    IN  IF charge.funder = "establishment"
        THEN shares.platform >= Smaller(full.platform, left)
        ELSE shares.establishment >= Smaller(full.establishment, left)

\* A coupon a store creates discounts that store's orders and no other, at
\* that store's expense all the way to the payment.
StorePromotionStaysHome ==
  order # None /\ order.creator \in Stores =>
    /\ order.store = order.creator
    /\ charge # None => charge.funder = "establishment"

\* What the customer pays covers the courier, unless the coupon is the one
\* that pays the delivery.
CourierIsCovered ==
  order.type = "order" => order.total >= order.delivery \/ order.freight

\* Without a coupon no payment goes whole to the courier: somebody who
\* charges an order, old or new, cannot move the store's money by calling it
\* delivery (order_total.go, resolveDeliveryAmount).
NoDiversion ==
  shares # None /\ charge.discount = 0 => shares.deliveryman < charge.amount

\* Of a payment split at its origin the platform holds enough to pay the
\* courier, even if the zone's shares moved before the settlement.
OriginFeeCoversCourier ==
  shares # None /\ charge.mode = "split" => charge.fee >= shares.deliveryman

\* However price, coupon, freight and split meet, the parts make up the payment
\* and each of them bears what it agreed to.
PricingInv == /\ PricingTypeOK /\ SharesMakeThePayment /\ FunderPays
              /\ StorePromotionStaysHome /\ CourierIsCovered /\ NoDiversion
              /\ OriginFeeCoversCourier
=============================================================================
