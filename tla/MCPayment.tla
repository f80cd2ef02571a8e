------------------------------ MODULE MCPayment ------------------------------
(* Instances of PaymentSettlement for TLC: who pays how, and how much. *)
EXTENDS PaymentSettlement, TLC

CONSTANTS p1, p2, o1, o2, s1

OnePix      == p1 :> "pix"
TwoPix      == p1 :> "pix" @@ p2 :> "pix"
OneCard     == p1 :> "noid"
OneRepasse  == p1 :> "repasse"
TwoRepasses == p1 :> "repasse" @@ p2 :> "repasse"
PixRepasse  == p1 :> "pix" @@ p2 :> "repasse"
PixCard     == p1 :> "pix" @@ p2 :> "noid"
OwnOrders   == p1 :> o1 @@ p2 :> o2
OneOrder    == p1 :> o1
OneStore    == [p \in Payments |-> s1]
Two         == p1 :> {2}
Moving      == p1 :> {1, 2}
OneOrTwo    == p1 :> {1, 2} @@ p2 :> {1}   \* the percentages of p1 move
TwoOrLess   == p1 :> {2} @@ p2 :> {0, 1, 2}  \* those of p2 do
DebtOfThree == [o \in Orders |-> 3]

Symmetry == Permutations(Handlers)
=============================================================================
