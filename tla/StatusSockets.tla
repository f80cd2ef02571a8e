---------------------------- MODULE StatusSockets ----------------------------
(***************************************************************************)
(* The WebSocket /ws/:id and the news written to it (cmd/fuudelivery:       *)
(* websocket.go, status_events.go).  A client trades its token for a ticket *)
(* and connects with it; connections are kept per owner, a few each, under  *)
(* one mutex.  An event of a queue is written to all connections its owner  *)
(* has when it is taken up, and the queue brings it again if a write fails. *)
(*                                                                         *)
(* Stores, clients and couriers number their accounts independently.        *)
(***************************************************************************)
EXTENDS Naturals, FiniteSets, SequencesExt

CONSTANTS
  Accounts,        \* claims of tokens: [type, id, est], the type as AccountTypeFromClaims
                   \* gives it; est 0: not of a store
  NumTickets,      \* bound: tickets, numbered as they are issued
  NumConns,        \* bound: attempts to connect, numbered as they come
  Events,          \* what the queues and orders_api have to tell
  MaxWSConnsPerKey,\* maxWSConnsPerKey (5)
  MaxTries         \* attempts of the queue at one event

ASSUME SocketAssumption ==
  /\ MaxWSConnsPerKey \in Nat \ {0} /\ MaxTries \in Nat \ {0} /\ NumTickets \in Nat /\ NumConns \in Nat
  /\ Accounts \subseteq [type : {"user", "client", "delivery_man"}, id : Nat, est : Nat]

Tickets == 1..NumTickets
Conns   == 1..NumConns

NoAccount == [type |-> "none", id |-> 0, est |-> 0]
NoConn    == 0
NoTicket  == 0

VARIABLES
  ticketOf,   \* wsTickets: ticket |-> the claims it stands for
  spent,      \* tickets past their 60 seconds
  conn,       \* a connection: see Connections
  wsClients,  \* owner |-> its connections, oldest first
  news,       \* an event: where its delivery is
  heard       \* connection |-> events its peer received

socketVars == <<ticketOf, spent, conn, wsClients, news, heard>>

\* victim: the connection this handler put out of wsClients and has yet to close.
Connections == [pc : {"new", "resolved", "closing", "open", "gone"}, claims : Accounts \cup {NoAccount}, url : Nat,
                by : Tickets \cup {NoTicket}, victim : Conns \cup {NoConn}, closed : BOOLEAN, broken : BOOLEAN]

-----------------------------------------------------------------------------
(* Who is who. *)

\* wsKeyForClaims: the user of a store gets the store's news; id is the URL's.
KeyForClaims(claims, id) ==
  IF claims.type = "user" /\ claims.est # 0 THEN <<"establishment", claims.est>> ELSE <<claims.type, id>>

UserIDMatches(claims, id) == claims.id = id

RecipientByNumber(e) ==   \* mutant of Recipient: couriers and clients as if numbered together
  IF e.store # 0 THEN <<"establishment", e.store>>
  ELSE <<"client", CHOOSE n \in {e.client, e.user, e.courier} : n # 0 \/ {e.client, e.user, e.courier} = {0}>>

\* resolveStatusRecipientAccount: client_id, else user_id, else the courier, and
\* him only for news of a delivery.  News of a store names it.
Recipient(e) ==
  IF e.store # 0 THEN <<"establishment", e.store>>
  ELSE IF e.client # 0 THEN <<"client", e.client>>
  ELSE IF e.user # 0 THEN <<"client", e.user>>
  ELSE IF e.queue = "delivery_updates" /\ e.courier # 0 THEN <<"delivery_man", e.courier>>
  ELSE <<"nobody", 0>>

Ids  == {a.id : a \in Accounts}
Keys == {KeyForClaims(a, i) : a \in Accounts, i \in Ids} \cup {Recipient(e) : e \in Events}

SocketTypeOK ==
  /\ DOMAIN ticketOf \subseteq Tickets /\ spent \subseteq Tickets
  /\ conn \in [Conns -> Connections]
  /\ \A k \in Keys :
       /\ ToSet(wsClients[k]) \subseteq Conns /\ IsInjective(wsClients[k])
       /\ Len(wsClients[k]) <= MaxWSConnsPerKey
  /\ \A e \in Events : news[e].pc \in {"new", "write", "sent", "gone"} /\ news[e].tries \in 0..MaxTries
  /\ heard \in [Conns -> SUBSET Events]

SocketsInit ==
  /\ ticketOf = [t \in {} |-> NoAccount] /\ spent = {}
  /\ conn = [c \in Conns |-> [pc |-> "new", claims |-> NoAccount, url |-> 0, by |-> NoTicket, victim |-> NoConn,
                              closed |-> FALSE, broken |-> FALSE]]
  /\ wsClients = [k \in Keys |-> <<>>]
  /\ news = [e \in Events |-> [pc |-> "new", todo |-> <<>>, present |-> {}, err |-> FALSE, tries |-> 0]]
  /\ heard = [c \in Conns |-> {}]

-----------------------------------------------------------------------------
(* Connecting. *)

IssuedTo(t) == t \in DOMAIN ticketOf \/ t \in spent \/ \E c \in Conns : conn[c].by = t

IssueWSTicket(t, claims) ==
  /\ ~IssuedTo(t) /\ \A earlier \in 1..(t - 1) : IssuedTo(earlier)
  /\ ticketOf' = [x \in DOMAIN ticketOf \cup {t} |-> IF x = t THEN claims ELSE ticketOf[x]]
  /\ UNCHANGED <<spent, conn, wsClients, news, heard>>

\* Sixty seconds pass.
SpendTicket(t) ==
  /\ t \in DOMAIN ticketOf /\ t \notin spent /\ spent' = spent \cup {t}
  /\ UNCHANGED <<ticketOf, conn, wsClients, news, heard>>

Without(t) == [x \in DOMAIN ticketOf \ {t} |-> ticketOf[x]]

\* Every minute.
CleanupTickets ==
  /\ \E t \in spent : t \in DOMAIN ticketOf
  /\ ticketOf' = [x \in DOMAIN ticketOf \ spent |-> ticketOf[x]]
  /\ UNCHANGED <<spent, conn, wsClients, news, heard>>

ResolveKeeps(c, t) ==   \* mutant of ResolveWSTicket: the ticket stays until it is cleaned up
  /\ conn[c].pc = "new" /\ (\A d \in 1..(c - 1) : conn[d].pc # "new") /\ IssuedTo(t)
  /\ conn' = [conn EXCEPT ![c].pc = IF t \in DOMAIN ticketOf /\ t \notin spent THEN "resolved" ELSE "gone",
                          ![c].by = t, ![c].claims = IF t \in DOMAIN ticketOf THEN ticketOf[t] ELSE NoAccount]
  /\ UNCHANGED <<ticketOf, spent, wsClients, news, heard>>

\* Looked up and deleted under wsTicketsMu; a late or used one turns the
\* peer away.  (One that was never issued does too, and is not tried.)
ResolveWSTicket(c, t) ==
  /\ conn[c].pc = "new" /\ (\A d \in 1..(c - 1) : conn[d].pc # "new") /\ IssuedTo(t)
  /\ conn' = [conn EXCEPT ![c].pc = IF t \in DOMAIN ticketOf /\ t \notin spent THEN "resolved" ELSE "gone",
                          ![c].by = t, ![c].claims = IF t \in DOMAIN ticketOf THEN ticketOf[t] ELSE NoAccount]
  /\ ticketOf' = Without(t)
  /\ UNCHANGED <<spent, wsClients, news, heard>>

KeyOf(c) == KeyForClaims(conn[c].claims, conn[c].url)

TooManyLate(conns) == Len(conns) > MaxWSConnsPerKey + 1   \* mutant of TooMany
TooMany(conns)     == Len(conns) > MaxWSConnsPerKey

\* registerWSConn: above the limit the oldest one makes room and is closed outside
\* the lock.
RegisterWSConn(c, id) ==
  LET key   == KeyForClaims(conn[c].claims, id)
      conns == Append(wsClients[key], c)
      full  == TooMany(conns)
  IN /\ conn[c].pc = "resolved"
     /\ IF UserIDMatches(conn[c].claims, id)
          THEN /\ wsClients' = [wsClients EXCEPT ![key] = IF full THEN Tail(conns) ELSE conns]
               /\ conn' = [conn EXCEPT ![c].pc = IF full THEN "closing" ELSE "open", ![c].url = id,
                                       ![c].victim = IF full THEN Head(conns) ELSE NoConn]
          ELSE conn' = [conn EXCEPT ![c].pc = "gone"] /\ UNCHANGED wsClients
     /\ UNCHANGED <<ticketOf, spent, news, heard>>

CloseVictim(c) ==
  /\ conn[c].pc = "closing"
  /\ conn' = [conn EXCEPT ![c].pc = "open", ![c].victim = NoConn, ![conn[c].victim].closed = TRUE]
  /\ UNCHANGED <<ticketOf, spent, wsClients, news, heard>>

\* The peer goes away; the server learns of it when it reads, or perhaps writes.
BreakConn(c) ==
  /\ conn[c].pc \in {"open", "closing"} /\ ~conn[c].broken
  /\ conn' = [conn EXCEPT ![c].broken = TRUE]
  /\ UNCHANGED <<ticketOf, spent, wsClients, news, heard>>

UnregisterKey(c) == wsClients' = [wsClients EXCEPT ![KeyOf(c)] = <<>>]   \* mutant of UnregisterWSConn

\* All that are c, of which there is one at most.
WithoutConn(conns, c) ==
  IF c \in ToSet(conns) THEN RemoveAt(conns, CHOOSE i \in DOMAIN conns : conns[i] = c) ELSE conns
UnregisterWSConn(c) == wsClients' = [wsClients EXCEPT ![KeyOf(c)] = WithoutConn(@, c)]

\* The read loop ends.
LeaveSocket(c) ==
  /\ conn[c].pc = "open" /\ (conn[c].closed \/ conn[c].broken)
  /\ UnregisterWSConn(c)
  /\ conn' = [conn EXCEPT ![c].pc = "gone"]
  /\ UNCHANGED <<ticketOf, spent, news, heard>>

-----------------------------------------------------------------------------
(* News. *)

Victims  == {conn[c].victim : c \in Conns}
Alive(c) == conn[c].pc \in {"open", "closing"} /\ ~conn[c].closed /\ ~conn[c].broken

\* sendToWS copies the connections under the lock.  An event for nobody, or for
\* somebody who is offline, is done.
TakeNews(e) ==
  LET k == Recipient(e)
      conns == wsClients[k]
  IN /\ news[e].pc = "new"
     /\ news' = [news EXCEPT ![e] =
          [pc |-> IF conns = <<>> THEN "sent" ELSE "write", todo |-> conns, err |-> FALSE, tries |-> @.tries + 1,
           present |-> {c \in Conns : Alive(c) /\ c \notin Victims /\ KeyOf(c) = k}]]
     /\ UNCHANGED <<ticketOf, spent, conn, wsClients, heard>>

StopAtError(e, fails) ==   \* mutant of LeftToWrite: the first failed write is the last
  IF fails THEN <<>> ELSE Tail(news[e].todo)

LeftToWrite(e, fails) == Tail(news[e].todo)

\* A write to a closed connection fails; one to a peer that is gone may.
WriteNews(e, fails) ==
  LET c == Head(news[e].todo)
      rest == LeftToWrite(e, fails)
  IN /\ news[e].pc = "write"
     /\ conn[c].closed => fails
     /\ fails => conn[c].closed \/ conn[c].broken
     /\ heard' = IF fails \/ conn[c].broken THEN heard ELSE [heard EXCEPT ![c] = @ \cup {e}]
     /\ news' = [news EXCEPT ![e].todo = rest, ![e].err = @ \/ fails,
                             ![e].pc = IF rest = <<>> THEN "sent" ELSE "write"]
     /\ UNCHANGED <<ticketOf, spent, conn, wsClients>>

\* The handler returned an error: the queue brings the event again, or buries it.
\* News of a store come from a request and are not brought again.
BringAgain(e) ==
  /\ e.store = 0 /\ news[e].pc = "sent" /\ news[e].err
  /\ news' = [news EXCEPT ![e].pc = IF news[e].tries < MaxTries THEN "new" ELSE "gone"]
  /\ UNCHANGED <<ticketOf, spent, conn, wsClients, heard>>

SocketsNext ==
  \/ \E t \in Tickets : SpendTicket(t) \/ \E a \in Accounts : IssueWSTicket(t, a)
  \/ CleanupTickets
  \/ \E c \in Conns :
       \/ \E t \in Tickets : ResolveWSTicket(c, t)
       \/ \E id \in Ids : RegisterWSConn(c, id)
       \/ CloseVictim(c) \/ BreakConn(c) \/ LeaveSocket(c)
  \/ \E e \in Events :
       \/ TakeNews(e) \/ BringAgain(e)
       \/ \E fails \in BOOLEAN : WriteNews(e, fails)

SocketsSpec == SocketsInit /\ [][SocketsNext]_socketVars

-----------------------------------------------------------------------------
\* A ticket opens one connection at most, however often it is presented ("consome
\* um ticket (uso unico)", websocket.go:107).
OneConnectionPerTicket ==
  \A c, d \in Conns :
    c # d /\ conn[c].by = conn[d].by /\ conn[c].claims # NoAccount => conn[d].claims = NoAccount

\* Once an event was sent, each connection of its owner that was open when it was
\* taken up and still is has received it: a tab that leaves takes no other with
\* it, and a write that fails keeps no other from being tried ("escreve em todas
\* as conexoes do dono", websocket.go:277).
NewsReachesEveryTab ==
  \A e \in Events : news[e].pc = "sent" => \A c \in news[e].present : Alive(c) => e \in heard[c]

\* An event is received by those it is about and by nobody who only has their
\* number ("o cliente 7 e o entregador 7 sao pessoas diferentes",
\* status_events.go:66).
IsAbout(e, a) ==
  \/ a.type = "client" /\ e.store = 0 /\ a.id = (IF e.client # 0 THEN e.client ELSE e.user)
  \/ a.type = "delivery_man" /\ e.store = 0 /\ a.id = e.courier
  \/ a.type = "user" /\ e.store # 0 /\ a.est = e.store

OnlyOwnNews == \A c \in Conns : \A e \in heard[c] : IsAbout(e, conn[c].claims)

\* News of an order reaches each tab of whom it is for, and nobody else.
NewsKept == /\ SocketTypeOK /\ OneConnectionPerTicket
            /\ NewsReachesEveryTab /\ OnlyOwnNews

-----------------------------------------------------------------------------
\* Refuted (see the README): a connection receives an event once.
=============================================================================
