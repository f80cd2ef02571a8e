------------------------------ MODULE MCCheckout ------------------------------
(* Instances of what surrounds an order's money for TLC: the price and the     *)
(* split, the requests that move a wallet, coupons and points.  A behaviour    *)
(* is about one part; of coupons and points it explores the two kinds, and     *)
(* not all they share: it either has no transaction on points but the          *)
(* reward's, and one use applied by hand at most; or no failure, no coupon     *)
(* retired or applied by hand, no promotion and three notes of points at       *)
(* most.  On a wallet either every look-up is answered, or one reference's     *)
(* are not, nothing is topped up and no minute passes.                         *)
EXTENDS OrderPricing, WalletRequests, OrderPerks, TLC

CONSTANTS ann, bob, k1, k2, r1, r2, g1, g2

AnnAndBob   == {ann, bob}
TwoRequests == {r1, r2}
TwoClerks   == {k1, k2}
TwoRows     == {[id |-> 1, user |-> ann, points |-> 10], [id |-> 2, user |-> ann, points |-> 5]}
Ten         == {10}

TwoCallers  == {g1, g2}
NoLedgerRef == Ref("", "", 0)
TheTotals   == [o \in Orders |-> 1]
TheBodies   == {[name |-> "b1", amount |-> 1, destination |-> "x"],
                [name |-> "b2", amount |-> 2, destination |-> "y"]}
TheRefs     == {DeductRef(o) : o \in Orders} \cup {LegacyRef(o) : o \in Orders}
                 \cup {TopUpRef(p) : p \in TopUps} \cup {WithdrawRef(k) : k \in Keys}
                 \cup {DerivedRef(b.name, m) : b \in TheBodies, m \in 0..LastMinute}

Rule(a, b, fee, pr) == [first |-> a, last |-> b, fee |-> fee, priority |-> pr, active |-> TRUE]
Rules       == {Rule(1, 2, 3, 100), Rule(1, 1, 12, 100), Rule(2, 1, 3, 100)}
Form(t, v, s, f) == [type |-> t, value |-> v, min |-> 0, store |-> s, funder |-> f]
Forms       == {Form("PERCENTAGE", 50, "any", ""), Form("PERCENTAGE", 50, "s1", "platform"),
                Form("FIXED", 9, "s1", ""), Form("FREE_DELIVERY", 0, "any", "establishment"),
                Form("FREE_DELIVERY", 0, "s1", "")}
Absent      == -1
Percentages == {[platform |-> 5, establishment |-> 85], [platform |-> 10, establishment |-> 80]}
OldOrders   == {[type |-> "legacy", store |-> s, delivery |-> d, total |-> 10, discount |-> x,
                 funder |-> "", creator |-> "", freight |-> FALSE] :
                   s \in {"s1", "any"}, d \in {-1, 4, 10}, x \in {0, 3}}

Alike == Permutations(TwoRequests) \cup Permutations(TwoClerks) \cup Permutations(TwoCallers)

VARIABLE part

checkoutVars == <<pricingVars, requestVars, perkVars, part>>

PartInit ==
  /\ part \in {"price", "wallet", "misread", "coupons", "points"}
  /\ PricingInit /\ RequestInit /\ PerksInit
  /\ part # "price" => order = None /\ config = [s \in Stores |-> Unset]
  /\ part \notin {"wallet", "misread"} => Len(ledger[Customer]) = 1

PerkPart ==
  /\ PerksNext
  /\ part = "coupons" => /\ txn' = txn /\ Cardinality(accounts') >= Cardinality(accounts)
                         /\ Cardinality(byHand') <= 1
  /\ part = "points"  => /\ faults' = 0 /\ copy' = NoCopy /\ byHand' = {} /\ Len(history') <= 3
                         /\ \A r \in Requests : req'[r].code # Promo

WalletPart ==
  /\ RequestNext
  /\ part = "wallet"  => unread' = {}
  /\ part = "misread" => minute' = 0 /\ claimed' = {} /\ Cardinality(unread') <= 1

PartNext ==
  /\ UNCHANGED part
  /\ \/ part = "price" /\ PricingNext /\ UNCHANGED <<requestVars, perkVars>>
     \/ part \in {"wallet", "misread"} /\ WalletPart /\ UNCHANGED <<pricingVars, perkVars>>
     \/ part \in {"coupons", "points"} /\ PerkPart /\ UNCHANGED <<pricingVars, requestVars>>

PartSpec == PartInit /\ [][PartNext]_checkoutVars
=============================================================================
