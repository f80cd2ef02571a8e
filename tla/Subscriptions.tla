---------------------------- MODULE Subscriptions ----------------------------
(***************************************************************************)
(* The subscription of a client (auth_api): created pending, activated by the  *)
(* administrator who saw the payment, renewed, cancelled.  Every handler reads  *)
(* the row and saves all of it later.  The registration of clients is here too. *)
(***************************************************************************)
EXTENDS Integers, FiniteSets

CONSTANTS
  Clients,           \* ids of clients
  Phones,
  Month,             \* instants of a period
  NoSub, NoPhone,
  MaxNow, MaxRenewals, MaxHeld   \* bounds: the clock, renewals, handlers that hold a row

ASSUME SubscriptionsAssumption == Month \in Nat \ {0}

VARIABLES
  clients,     \* id |-> phone
  entering,    \* registrations past their look-up: [phone]
  sub,         \* subscriptions: client |-> row, or NoSub
  held,        \* rows handlers read: [pc, client, row]
  now,
  paid,        \* client |-> periods the administrator granted
  served       \* client |-> instants the client was a member

clubVars == <<clients, entering, sub, held, now, paid, served>>

SubscriptionsInit ==
  /\ clients = [c \in Clients |-> NoPhone] /\ entering = {}
  /\ sub = [c \in Clients |-> NoSub] /\ held = {} /\ now = 0
  /\ paid = [c \in Clients |-> 0] /\ served = [c \in Clients |-> 0]

Registered == {c \in Clients : clients[c] # NoPhone}
StatusOf(c) == IF sub[c] = NoSub THEN "none" ELSE sub[c].status
IsActive(c) ==
  /\ StatusOf(c) = "active" /\ sub[c].start <= now /\ now < sub[c].end

-----------------------------------------------------------------------------
(* client_handler.go *)

RegisterClient(p) ==
  /\ \A c \in Registered : clients[c] # p
  /\ Cardinality(entering) < MaxHeld /\ \E n \in 1..MaxHeld : 
       /\ [phone |-> p, n |-> n] \notin entering
       /\ entering' = entering \cup {[phone |-> p, n |-> n]}
  /\ UNCHANGED <<clients, sub, held, now, paid, served>>

InsertAnyway(e) ==   \* mutant of InsertClient: the look-up is all that keeps phones apart
  /\ e \in entering /\ entering' = entering \ {e} /\ Clients # Registered
  /\ clients' = [clients EXCEPT ![CHOOSE c \in Clients \ Registered : TRUE] = e.phone]
  /\ UNCHANGED <<sub, held, now, paid, served>>

\* idx_clients_phone refuses the second of two.
InsertClient(e) ==
  /\ e \in entering /\ entering' = entering \ {e}
  /\ IF (\A c \in Registered : clients[c] # e.phone) /\ Clients # Registered
       THEN clients' = [clients EXCEPT ![CHOOSE c \in Clients \ Registered : TRUE] = e.phone]
       ELSE UNCHANGED clients
  /\ UNCHANGED <<sub, held, now, paid, served>>

-----------------------------------------------------------------------------
(* subscription_handler.go *)

Hold(pc, c) == /\ Cardinality(held) < MaxHeld
               /\ held' = held \cup {[pc |-> pc, client |-> c, row |-> sub[c]]}

BornActive(c) ==   \* mutant of NewSubscription: free delivery before anything is paid
  [status |-> "active", start |-> now, end |-> now + Month]
NewSubscription(c) == [status |-> "pending", start |-> now, end |-> now + Month]

\* Only an active or pending one stands in the way ...
CreateSubscription(c) ==
  /\ c \in Registered
  /\ StatusOf(c) \notin {"active", "pending"}
  /\ Hold("create", c)
  /\ UNCHANGED <<clients, entering, sub, now, paid, served>>

\* ... but the index allows one row for each client, of any status.
InsertSubscription(h) ==
  /\ h \in held /\ h.pc = "create" /\ held' = held \ {h}
  /\ sub' = IF sub[h.client] = NoSub THEN [sub EXCEPT ![h.client] = NewSubscription(h.client)] ELSE sub
  /\ UNCHANGED <<clients, entering, now, paid, served>>

ReadToCancel(c) ==
  /\ StatusOf(c) = "active" /\ Hold("cancel", c)
  /\ UNCHANGED <<clients, entering, sub, now, paid, served>>

\* RenewSubscription and AdminUpdateSubscription: only an administrator.
ReadAsAdmin(c, pc) ==
  /\ sub[c] # NoSub /\ Hold(pc, c) /\ UNCHANGED <<clients, entering, sub, now, paid, served>>

SaveCancelled(h) ==
  /\ h \in held /\ h.pc = "cancel" /\ held' = held \ {h}
  /\ sub' = [sub EXCEPT ![h.client] = [h.row EXCEPT !.status = "cancelled"]]
  /\ UNCHANGED <<clients, entering, now, paid, served>>

Renewed(row) ==
  IF row.status = "active" THEN [row EXCEPT !.end = @ + Month]
  ELSE [status |-> "active", start |-> now, end |-> now + Month]

SaveRenewed(h) ==
  /\ h \in held /\ h.pc = "renew" /\ paid[h.client] < MaxRenewals /\ held' = held \ {h}
  /\ sub'  = [sub EXCEPT ![h.client] = Renewed(h.row)]
  /\ paid' = [paid EXCEPT ![h.client] = @ + 1]
  /\ UNCHANGED <<clients, entering, now, served>>

\* A status the administrator writes, any other field beside it; the dates that
\* are sent along are not looked at.
SaveUpdated(h, status) ==
  /\ h \in held /\ h.pc = "update" /\ held' = held \ {h}
  /\ paid[h.client] < MaxRenewals
  /\ sub'  = [sub EXCEPT ![h.client] = [h.row EXCEPT !.status = status]]
  /\ paid' = [paid EXCEPT ![h.client] = IF status = "active" /\ h.row.status # "active" THEN @ + 1 ELSE @]
  /\ UNCHANGED <<clients, entering, now, served>>

GiveUpRow(h) == /\ h \in held /\ held' = held \ {h}
                /\ UNCHANGED <<clients, entering, sub, now, paid, served>>

Tick ==
  /\ now < MaxNow /\ now' = now + 1
  /\ served' = [c \in Clients |-> IF IsActive(c) THEN served[c] + 1 ELSE served[c]]
  /\ UNCHANGED <<clients, entering, sub, held, paid>>

ClubNext ==
  \/ \E p \in Phones : RegisterClient(p)
  \/ \E e \in entering : InsertClient(e)
  \/ \E c \in Clients : \/ CreateSubscription(c) \/ ReadToCancel(c)
                        \/ ReadAsAdmin(c, "renew") \/ ReadAsAdmin(c, "update")
  \/ \E h \in held : \/ InsertSubscription(h) \/ SaveCancelled(h) \/ SaveRenewed(h) \/ GiveUpRow(h)
                     \/ \E status \in {"active", "pending", "cancelled", "expired"} : SaveUpdated(h, status)
  \/ Tick

ClubSpec == SubscriptionsInit /\ [][ClubNext]_clubVars

-----------------------------------------------------------------------------
\* No two clients have one phone, though two registrations may look at once.
OneClientPerPhone ==
  \A c, d \in Registered : clients[c] = clients[d] => c = d

\* Nobody is a member for longer than the periods the administrator granted,
\* whatever is cancelled, renewed and saved over what somebody else saved
\* ("uma assinatura ativa aqui dava frete gratis de graca",
\* subscription_handler.go:74-75).
ServedIsPaid == \A c \in Clients : served[c] <= Month * paid[c]

\* A phone is one client's, and who is served has paid.
ClubKept == OneClientPerPhone /\ ServedIsPaid

-----------------------------------------------------------------------------
\* What the answer to a cancellation says: access until the end of the period
\* (subscription_handler.go:117).  The status ends it at once.
CancelledKeepsAccess ==
  [][\A h \in held : SaveCancelled(h) /\ IsActive(h.client) => IsActive(h.client)']_clubVars

\* Who cancelled may subscribe again; the index refuses the second row.
MaySubscribeAgain ==
  [][\A h \in held : InsertSubscription(h) => sub'[h.client].status = "pending"]_clubVars
=============================================================================
