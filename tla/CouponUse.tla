------------------------------ MODULE CouponUse ------------------------------
(***************************************************************************)
(* Coupons and referrals (orders_api): validation, the use of a coupon by an *)
(* order, its return, the welcome coupon of a friend, and the administrator   *)
(* who retires a coupon.                                                     *)
(*                                                                         *)
(* A request reads in several steps and writes in later ones; only what the   *)
(* code puts in one transaction, or one UPDATE, is one step here.             *)
(***************************************************************************)
EXTENDS Integers, FiniteSets

CONSTANTS
  Users,
  Friend,            \* the user whose referral code is passed around
  Requests,          \* requests to POST /orders or to /coupons/validate
  MaxUses, MaxUsesPerUser,   \* limits of the promotion; 0 is none
  NoCode, NoUser, NoCopy,
  MaxFaults          \* bound: crashes, failed calls

Promo      == <<"promo">>
Welcome(u) == <<"welcome", u>>
Amigo      == <<"referral code of the friend">>

ASSUME CouponAssumption ==
  /\ MaxUses \in Nat /\ MaxUsesPerUser \in Nat /\ MaxFaults \in Nat
  /\ NoCode \notin {Welcome(u) : u \in Users}

VARIABLES
  coupons,    \* code |-> row
  usages,     \* rows of coupon_usages: [coupon, user, order]
  byHand,     \* history: which of them POST /coupons/apply made
  overcleared,\* history: coupons of which a release deleted several rows
  referrals,  \* referee |-> status of its row
  req,        \* the requests, and the orders they made
  copy,       \* what DeleteCoupon read and has not saved yet
  faults

couponVars == <<coupons, usages, byHand, overcleared, referrals, req, copy, faults>>

NewCoupon(max, perUser, owner) ==
  [max |-> max, perUser |-> perUser, owner |-> owner, used |-> 0, active |-> TRUE]

Unborn == [pc |-> "unborn", user |-> NoUser, code |-> NoCode, order |-> TRUE, status |-> "none"]

CouponInit ==
  /\ coupons = [c \in {Promo} |-> NewCoupon(MaxUses, MaxUsesPerUser, NoUser)]
  /\ usages = {} /\ byHand = {} /\ overcleared = {}
  /\ referrals = [u \in {} |-> "pending"]
  /\ req = [r \in Requests |-> Unborn]
  /\ copy = NoCopy /\ faults = 0

Add(f, x, y) == [z \in DOMAIN f \cup {x} |-> IF z = x THEN y ELSE f[z]]
UsesOf(code) == {s \in usages : s.coupon = code}
UsesBy(code, u) == {s \in UsesOf(code) : s.user = u}
Goto(r, pc)  == req' = [req EXCEPT ![r].pc = pc]
Fault        == faults < MaxFaults /\ faults' = faults + 1

-----------------------------------------------------------------------------
(* referral.go: resolveReferralCode *)

\* An order, or only a look at the coupon: both resolve a referral code.
Request(r, u, code, isOrder) ==
  /\ req[r].pc = "unborn"
  /\ code = NoCode => isOrder
  /\ req' = [req EXCEPT ![r] =
       [pc |-> IF code = NoCode THEN "save" ELSE IF code = Amigo THEN "resolve" ELSE "validate",
        user |-> u, code |-> code, order |-> isOrder, status |-> "none"]]
  /\ UNCHANGED <<coupons, usages, byHand, overcleared, referrals, copy, faults>>

ResolveOwnCode(r) ==   \* mutant of ResolveReferralCode: one may refer oneself
  LET u == req[r].user  known == u \in DOMAIN referrals
  IN /\ req[r].pc = "resolve"
     /\ IF ~known THEN Goto(r, "count")
        ELSE IF coupons[Welcome(u)].used = 0 /\ referrals[u] = "pending"
        THEN req' = [req EXCEPT ![r].pc = "validate", ![r].code = Welcome(u)]
        ELSE Goto(r, "refused")
     /\ UNCHANGED <<coupons, usages, byHand, overcleared, referrals, copy, faults>>

\* Who was referred before takes the same coupon again, if it is unused.
ResolveReferralCode(r) ==
  LET u == req[r].user  known == u \in DOMAIN referrals
  IN /\ req[r].pc = "resolve"
     /\ \/ u = Friend /\ Goto(r, "refused")
        \/ u # Friend /\ ~known /\ Goto(r, "count")
        \/ /\ u # Friend /\ known
           /\ IF coupons[Welcome(u)].used = 0 /\ referrals[u] = "pending"
                THEN req' = [req EXCEPT ![r].pc = "validate", ![r].code = Welcome(u)]
                ELSE Goto(r, "refused")
     /\ UNCHANGED <<coupons, usages, byHand, overcleared, referrals, copy, faults>>

OrdersOf(u) == {o \in Requests : req[o].user = u /\ req[o].status \notin {"none", "CANCELLED"}}

CountPrevious(r) ==
  /\ req[r].pc = "count"
  /\ Goto(r, IF OrdersOf(req[r].user) = {} THEN "create" ELSE "refused")
  /\ UNCHANGED <<coupons, usages, byHand, overcleared, referrals, copy, faults>>

\* The unique index on the referee decides between two requests at a time.
CreateReferral(r) ==
  LET u == req[r].user
  IN /\ req[r].pc = "create"
     /\ req' = [req EXCEPT ![r].pc = "validate", ![r].code = Welcome(u)]
     /\ IF u \in DOMAIN referrals THEN UNCHANGED <<coupons, referrals>>
        ELSE /\ coupons' = Add(coupons, Welcome(u), NewCoupon(1, 1, u))
             /\ referrals' = Add(referrals, u, "pending")
     /\ UNCHANGED <<usages, byHand, overcleared, copy, faults>>

-----------------------------------------------------------------------------
(* coupon.go and order_coupon.go *)

\* ValidateCouponInternal: what a reading of the row and of the uses says.
Valid(code, u) ==
  /\ code \in DOMAIN coupons /\ coupons[code].active
  /\ coupons[code].max > 0 => coupons[code].used < coupons[code].max
  /\ coupons[code].owner \in {NoUser, u}
  /\ coupons[code].perUser > 0 => Cardinality(UsesBy(code, u)) < coupons[code].perUser

\* A promotion may turn out to take nothing off (free delivery when there is
\* none to pay): the order goes on without it.
ValidateCoupon(r) ==
  /\ req[r].pc = "validate"
  /\ \/ ~Valid(req[r].code, req[r].user) /\ Goto(r, "refused")
     \/ /\ Valid(req[r].code, req[r].user)
        /\ Goto(r, IF req[r].order THEN "consume" ELSE "done")
     \/ /\ Valid(req[r].code, req[r].user) /\ req[r].code = Promo /\ req[r].order
        /\ req' = [req EXCEPT ![r].pc = "save", ![r].code = NoCode]
  /\ UNCHANGED <<coupons, usages, byHand, overcleared, referrals, copy, faults>>

UseOf(code, u, r) == [coupon |-> code, user |-> u, order |-> r]
Use(code, u, r) ==
  /\ coupons' = [coupons EXCEPT ![code].used = @ + 1]
  /\ usages' = usages \cup {UseOf(code, u, r)}

ConsumeUncounted(r) ==   \* mutant of ConsumeCoupon: the uses are not counted again under the lock
  LET code == req[r].code  u == req[r].user  c == coupons[code]
  IN /\ req[r].pc = "consume"
     /\ IF c.active /\ (c.max > 0 => c.used < c.max) /\ UseOf(code, u, r) \notin usages
          THEN Use(code, u, r) /\ Goto(r, "save")
          ELSE Goto(r, "refused") /\ UNCHANGED <<coupons, usages>>
     /\ UNCHANGED <<byHand, overcleared, referrals, copy, faults>>

ConsumeAnyUse(r) ==   \* mutant of ConsumeCoupon: the update does not ask for a use that is left
  LET code == req[r].code  u == req[r].user  c == coupons[code]
  IN /\ req[r].pc = "consume"
     /\ IF c.active /\ UseOf(code, u, r) \notin usages
          THEN Use(code, u, r) /\ Goto(r, "save")
          ELSE Goto(r, "refused") /\ UNCHANGED <<coupons, usages>>
     /\ UNCHANGED <<byHand, overcleared, referrals, copy, faults>>

\* One transaction: with a limit for each user the row is locked and the uses
\* are counted again; the update of used_count carries the other conditions, and
\* a use the order has already is refused by uq_coupon_usage_per_order.
ConsumeCoupon(r) ==
  LET code == req[r].code  u == req[r].user  c == coupons[code]
  IN /\ req[r].pc = "consume"
     /\ IF /\ c.active /\ (c.max > 0 => c.used < c.max)
           /\ c.perUser > 0 => Cardinality(UsesBy(code, u)) < c.perUser
           /\ UseOf(code, u, r) \notin usages
          THEN Use(code, u, r) /\ Goto(r, "save")
          ELSE Goto(r, "refused") /\ UNCHANGED <<coupons, usages>>
     /\ UNCHANGED <<byHand, overcleared, referrals, copy, faults>>

SaveOrForget(r) ==   \* mutant of SaveOrder: nothing is given back when the store is closed
  /\ req[r].pc = "save"
  /\ \/ req' = [req EXCEPT ![r].pc = "saved", ![r].status = "open"]
     \/ Goto(r, "refused")
  /\ UNCHANGED <<coupons, usages, byHand, overcleared, referrals, copy, faults>>

\* The order is saved; or the store is closed, or the save fails.
SaveOrder(r) ==
  /\ req[r].pc = "save"
  /\ \/ req' = [req EXCEPT ![r].pc = "saved", ![r].status = "open"]
     \/ Goto(r, IF req[r].code = NoCode THEN "refused" ELSE "release")
  /\ UNCHANGED <<coupons, usages, byHand, overcleared, referrals, copy, faults>>

UsesFor(code, r) == {s \in usages : s.coupon = code /\ s.order = r}
Cleared(code, r) ==
  /\ usages' = usages \ UsesFor(code, r) /\ byHand' = byHand \ UsesFor(code, r)
  /\ overcleared' = overcleared \cup {c \in {code} : Cardinality(UsesFor(code, r)) > 1}

ReleaseUncounted(code, r) ==   \* mutant of ReleaseCoupon: the use is deleted and not counted down
  Cleared(code, r) /\ UNCHANGED coupons

\* One transaction: whoever's the uses under the order's id are, they are deleted;
\* and, if there were any, one is counted down.
ReleaseCoupon(code, r) ==
  /\ Cleared(code, r)
  /\ coupons' = IF UsesFor(code, r) # {} /\ coupons[code].used > 0
                  THEN [coupons EXCEPT ![code].used = @ - 1] ELSE coupons

\* The order was not made: the use goes back.  A failure is only logged.
GiveBack(r) ==
  /\ req[r].pc = "release" /\ Goto(r, "refused")
  /\ \/ ReleaseCoupon(req[r].code, r) /\ UNCHANGED faults
     \/ Fault /\ UNCHANGED <<coupons, usages, byHand, overcleared>>
  /\ UNCHANGED <<referrals, copy>>

\* POST /coupons/apply: all the conditions and the use, in one transaction, for
\* whatever order id is sent: somebody else's, or of no order (yet).
ApplyCoupon(u, code, r) ==
  /\ Valid(code, u) /\ UseOf(code, u, r) \notin usages
  /\ Use(code, u, r) /\ byHand' = byHand \cup {UseOf(code, u, r)}
  /\ UNCHANGED <<overcleared, referrals, req, copy, faults>>

\* DeleteCoupon reads the row, and saves all of it.
ReadToDelete(code) ==
  /\ copy = NoCopy /\ coupons[code].active
  /\ copy' = [code |-> code, used |-> coupons[code].used]
  /\ UNCHANGED <<coupons, usages, byHand, overcleared, referrals, req, faults>>

SaveDeleted ==
  /\ copy # NoCopy /\ copy' = NoCopy
  /\ coupons' = [coupons EXCEPT ![copy.code].used = copy.used, ![copy.code].active = FALSE]
  /\ UNCHANGED <<usages, byHand, overcleared, referrals, req, faults>>

-----------------------------------------------------------------------------
(* referral.go: what a new status of the order does *)

SetStatus(r, status) ==
  /\ req[r].pc = "saved" /\ req[r].status = "open"
  /\ req' = [req EXCEPT ![r].status = status, ![r].pc = "notify"]
  /\ UNCHANGED <<coupons, usages, byHand, overcleared, referrals, copy, faults>>

ReadAnyStatus(r) ==   \* mutant of ReadReferral: an order that was cancelled is rewarded too
  LET u == req[r].user
  IN /\ req[r].pc = "notify"
     /\ Goto(r, IF u \in DOMAIN referrals /\ req[r].code = Welcome(u) /\ referrals[u] = "pending"
                  THEN "reward" ELSE "done")
     /\ UNCHANGED <<coupons, usages, byHand, overcleared, referrals, copy, faults>>

\* Is the coupon of the order that of a referral still to be rewarded?
ReadReferral(r) ==
  LET u == req[r].user
  IN /\ req[r].pc = "notify"
     /\ Goto(r, IF u \in DOMAIN referrals /\ req[r].code = Welcome(u) /\ referrals[u] = "pending"
                  THEN IF req[r].status = "FINISHED" THEN "reward" ELSE "return"
                  ELSE "done")
     /\ UNCHANGED <<coupons, usages, byHand, overcleared, referrals, copy, faults>>

ReturnWelcome(r) ==
  /\ req[r].pc = "return" /\ Goto(r, "done")
  /\ \/ ReleaseCoupon(req[r].code, r) /\ UNCHANGED faults
     \/ Fault /\ UNCHANGED <<coupons, usages, byHand, overcleared>>
  /\ UNCHANGED <<referrals, copy>>

\* The part of the reward's transaction that is about the referral.  Only one
\* may turn it from pending to rewarded.
MarkRewarded(r) ==
  /\ req[r].pc = "reward" /\ referrals[req[r].user] = "pending"
  /\ referrals' = [referrals EXCEPT ![req[r].user] = "rewarded"]
  /\ Goto(r, "done")
  /\ UNCHANGED <<coupons, usages, byHand, overcleared, copy, faults>>

\* Somebody else rewarded it first, or the transaction failed.
NoReward(r) ==
  /\ req[r].pc = "reward" /\ Goto(r, "done")
  /\ \/ referrals[req[r].user] # "pending" /\ UNCHANGED faults
     \/ Fault
  /\ UNCHANGED <<coupons, usages, byHand, overcleared, referrals, copy>>

\* The program stops: a request that has not ended does not.
CouponCrash ==
  /\ Fault /\ copy' = NoCopy
  /\ req' = [r \in Requests |->
       IF req[r].pc \in {"unborn", "saved", "done", "refused"} THEN req[r]
       ELSE [req[r] EXCEPT !.pc = "done"]]
  /\ UNCHANGED <<coupons, usages, byHand, overcleared, referrals>>

CouponNext ==
  \/ \E r \in Requests :
       \/ ResolveReferralCode(r) \/ CountPrevious(r) \/ CreateReferral(r)
       \/ ValidateCoupon(r) \/ ConsumeCoupon(r) \/ SaveOrder(r) \/ GiveBack(r)
       \/ ReadReferral(r) \/ ReturnWelcome(r) \/ NoReward(r)
       \/ \E status \in {"FINISHED", "CANCELLED"} : SetStatus(r, status)
       \/ \E u \in Users : \E code \in {NoCode, Amigo} \cup DOMAIN coupons :
            \/ \E isOrder \in BOOLEAN : Request(r, u, code, isOrder)
            \/ ApplyCoupon(u, code, r)
  \/ \E code \in DOMAIN coupons : ReadToDelete(code)
  \/ SaveDeleted
=============================================================================
