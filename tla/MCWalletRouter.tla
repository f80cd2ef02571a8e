---------------------------- MODULE MCWalletRouter ----------------------------
(* Instances for TLC of the two things a payment stands on, which share no     *)
(* variable: the wallet it moves (WalletTx) and the gateways it is charged at  *)
(* (GatewayRouter).  A behaviour belongs to one part, as in MCDispatch.        *)
(* AbacatePay takes PIX only and comes before Mercado Pago in the chain; of    *)
(* three callers two ask for anything and the third for PIX.                   *)
EXTENDS WalletTx, GatewayRouter, TLC

CONSTANTS abacatepay, mercadopago, c1, c2, c3

TwoGateways == {abacatepay, mercadopago}
TwoInChain  == <<abacatepay, mercadopago>>
ThreeCallers == {c1, c2, c3}

Pix    == [able |-> TwoGateways, preferred |-> NoGateway]
Card   == [able |-> {mercadopago}, preferred |-> NoGateway]
Origin == [able |-> TwoGateways, preferred |-> mercadopago]

PixOnly   == {Pix}
PixCard   == {Pix, Card}
AllKinds  == {Pix, Card, Origin}

VARIABLE part

partVars == <<part, vars, routerVars>>

FirstRequest == CHOOSE r \in Requests : TRUE

PartInit ==
  /\ part \in {"wallet", "router"}
  /\ Init /\ RouterInit
  /\ part = "wallet" => \A c \in Callers : job[c].request = Pix
  /\ part = "router" => \A t \in Calls : req[t] = FirstRequest /\ job[c3].request = Pix
PartNext ==
  /\ UNCHANGED part
  /\ \/ part = "wallet" /\ Next /\ UNCHANGED routerVars
     \/ part = "router" /\ RouterNext /\ job'[c3].request = Pix /\ UNCHANGED vars

\* A wallet and a router that have not begun have nothing to be fair about.
PartSpec == PartInit /\ [][PartNext]_partVars /\ Fairness /\ RouterFairness
=============================================================================
