--------------------------- MODULE CourierAccounts ---------------------------
(***************************************************************************)
(* The accounts of couriers (auth_api deliveryman_handler.go): registered by    *)
(* themselves or by the administrator, edited column by column, pointed at the  *)
(* wallet they are paid to by a handler that saves the whole row.             *)
(***************************************************************************)
EXTENDS Integers, FiniteSets

CONSTANTS
  Couriers,          \* ids
  Addresses, Wallets, NoWallet,
  MaxOpenRows        \* bound: handlers past their first read

VARIABLES
  couriers,    \* delivery_men: id |-> row
  opened,      \* handlers past their first read: [pc, id, row] and what they will write
  chosen       \* id |-> the wallet last set

courierVars == <<couriers, opened, chosen>>

CouriersInit == couriers = [c \in {} |-> {}] /\ opened = {} /\ chosen = [c \in Couriers |-> NoWallet]

Put(f, x, y) == [z \in DOMAIN f \cup {x} |-> IF z = x THEN y ELSE f[z]]
Open(pc, c, with) ==
  /\ Cardinality(opened) < MaxOpenRows
  /\ opened' = opened \cup {[pc |-> pc, id |-> c, with |-> with,
                             row |-> IF c \in DOMAIN couriers THEN couriers[c] ELSE NoWallet]}
  /\ UNCHANGED <<couriers, chosen>>
Close(o) == o \in opened /\ opened' = opened \ {o}

\* CreateDeliveryMan: the address is counted first; no index keeps it apart.
AskToCreate(email, byAdmin) ==
  /\ \A c \in DOMAIN couriers : couriers[c].email # email
  /\ Open("create", NoWallet, [email |-> email, byAdmin |-> byAdmin])

TakesWhatIsSent(o, status) ==   \* mutant of CreateDeliveryMan: who registers picks the status
  /\ Close(o) /\ o.pc = "create" /\ Couriers # DOMAIN couriers
  /\ LET c == CHOOSE c \in Couriers : c \notin DOMAIN couriers
     IN couriers' = Put(couriers, c, [email |-> o.with.email, status |-> status, wallet |-> NoWallet,
                                      own |-> ~o.with.byAdmin])
  /\ UNCHANGED chosen

\* Status, zone and limit count only when an administrator sends them.
CreateDeliveryMan(o, status) ==
  /\ Close(o) /\ o.pc = "create" /\ Couriers # DOMAIN couriers
  /\ o.with.byAdmin \/ status = "offline"
  /\ LET c == CHOOSE c \in Couriers : c \notin DOMAIN couriers
     IN couriers' = Put(couriers, c, [email |-> o.with.email, status |-> status, wallet |-> NoWallet,
                                      own |-> ~o.with.byAdmin])
  /\ UNCHANGED chosen

ReadToUpdate(c, status) ==
  c \in DOMAIN couriers /\ Open("update", c, status)

UpdateSavesRow(o) ==   \* mutant of UpdateDeliveryMan: the whole row, as the wallet does
  /\ Close(o) /\ o.pc = "update"
  /\ couriers' = Put(couriers, o.id, [o.row EXCEPT !.status = o.with, !.own = FALSE])
  /\ UNCHANGED chosen

\* Only the columns that were sent; nothing, if the row is gone.
UpdateDeliveryMan(o) ==
  /\ Close(o) /\ o.pc = "update"
  /\ couriers' = IF o.id \in DOMAIN couriers
                   THEN [couriers EXCEPT ![o.id].status = o.with, ![o.id].own = FALSE] ELSE couriers
  /\ UNCHANGED chosen

ReadForWallet(c, w) == c \in DOMAIN couriers /\ Open("wallet", c, w)

\* Save: every column as it was read, a row that is gone comes back.
UpdateDeliveryManWallet(o) ==
  /\ Close(o) /\ o.pc = "wallet"
  /\ couriers' = Put(couriers, o.id, [o.row EXCEPT !.wallet = o.with])
  /\ chosen'   = [chosen EXCEPT ![o.id] = o.with]

ReadForDelete(c) == c \in DOMAIN couriers /\ Open("delete", c, NoWallet)
DeleteDeliveryMan(o) ==
  /\ Close(o) /\ o.pc = "delete"
  /\ couriers' = [c \in DOMAIN couriers \ {o.id} |-> couriers[c]]
  /\ chosen' = [chosen EXCEPT ![o.id] = NoWallet]

GiveUpCourier(o) == Close(o) /\ UNCHANGED <<couriers, chosen>>

CouriersNext ==
  \/ \E e \in Addresses, byAdmin \in BOOLEAN : AskToCreate(e, byAdmin)
  \/ \E c \in Couriers : \/ ReadForDelete(c) \/ \E w \in Wallets : ReadForWallet(c, w)
                         \/ \E status \in {"available", "offline"} : ReadToUpdate(c, status)
  \/ \E o \in opened : \/ UpdateDeliveryMan(o) \/ UpdateDeliveryManWallet(o) \/ DeleteDeliveryMan(o)
                       \/ GiveUpCourier(o)
                       \/ \E status \in {"available", "offline"} : CreateDeliveryMan(o, status)

CouriersSpec == CouriersInit /\ [][CouriersNext]_courierVars

-----------------------------------------------------------------------------
\* A courier is paid where they, or the administrator, said last, whoever edits
\* the account at the same time ("a carteira de recebimento do entregador",
\* deliveryman_handler.go:263).
PaidWhereChosen == \A c \in DOMAIN couriers : couriers[c].wallet = chosen[c]

\* Who registered themselves is not in the dispatch queue before an administrator
\* edits the account ("entrava ja available na fila de despacho",
\* deliveryman_handler.go:84-85).
NewcomersWait == \A c \in DOMAIN couriers : couriers[c].own => couriers[c].status = "offline"

\* Couriers are paid where they chose to be, and start unapproved.
CouriersKept == PaidWhereChosen /\ NewcomersWait
=============================================================================
