---------------------------- MODULE LiveTracking -----------------------------
(***************************************************************************)
(* The position of a courier, posted by him and watched by the parties of   *)
(* the order (cmd/fuudelivery/websocket.go).  The server keeps the last     *)
(* position of each order and a list of viewers, each under a mutex of its  *)
(* own, and writes to the viewers outside both.                             *)
(*                                                                         *)
(* People are told apart by their table and their number in it; tables are  *)
(* numbered independently.                                                  *)
(***************************************************************************)
EXTENDS Naturals, FiniteSets

CONSTANTS
  Deliveries,        \* orders being delivered: [id, client, store], see Parties
  People,            \* claims of tokens: [type, id, est, role], type "none" before there was account_type
  NumViewers, NumPosts, \* bounds: connections, and requests of couriers, numbered as they come
  MaxCourierChanges, \* bound
  PruneAbove, PruneTo\* how many positions are kept: 500 and 400

ASSUME TrackingAssumption == MaxCourierChanges \in Nat /\ PruneAbove \in Nat /\ PruneTo \in Nat
                                /\ NumViewers \in Nat /\ NumPosts \in Nat
                                /\ \A c \in People : c.type \in {"none", "user", "client", "delivery_man"}

Viewers == 1..NumViewers
Posts   == 1..NumPosts

Unset == [n |-> 0, old |-> FALSE]   \* no position

VARIABLES
  courierOf,     \* delivery_man_id of an order, 0: nobody's
  position,         \* deliveryLocations: order |-> its last position, numbered
  posted,        \* positions of an order so far
  viewer,        \* a connection: [pc, who, of, seen]
  listeners,     \* deliveryLocsListeners: order |-> connections
  post,          \* a request: [pc, of, n, todo]
  changes, drove \* how often an order changed hands, and to whom it was given

trackVars == <<courierOf, position, posted, viewer, listeners, post, changes, drove>>

TrackTypeOK ==
  /\ \A d \in Deliveries : position[d].n \in 0..posted[d] /\ listeners[d] \subseteq Viewers
  /\ \A v \in Viewers : viewer[v].pc \in {"out", "register", "snapshot", "watch", "gone"}
  /\ \A p \in Posts : post[p].pc \in {"idle", "store", "copy", "write", "done"}
  /\ \A d \in Deliveries : \A v \in listeners[d] : viewer[v].of = d

NoOrder == [id |-> 0]
Nobody  == [type |-> "none"]

TrackInit ==
  /\ courierOf = [d \in Deliveries |-> 0]
  /\ position = [d \in Deliveries |-> Unset] /\ posted = [d \in Deliveries |-> 0]
  /\ viewer = [v \in Viewers |-> [pc |-> "out", who |-> Nobody, of |-> NoOrder, seen |-> {}]]
  /\ listeners = [d \in Deliveries |-> {}]
  /\ post = [p \in Posts |-> [pc |-> "idle", of |-> NoOrder, n |-> 0, todo |-> {}]]
  /\ changes = 0 /\ drove = [d \in Deliveries |-> {}]

-----------------------------------------------------------------------------
(* Who may watch. *)

\* AccountTypeFromClaims: tokens from before account_type are told by their role.
AccountTypeFromClaims(c) ==
  IF c.type # "none" THEN c.type
  ELSE IF c.role = "client" THEN "client"
  ELSE IF c.role \in {"", "deliveryman", "delivery_man"} THEN "delivery_man" ELSE "user"

\* Mutant of ClaimsParticipate: the number alone, as it once was.
ParticipatesByNumber(c, d) ==
  (c.id # 0 /\ c.id \in {courierOf[d], d.client, d.store}) \/ (c.est # 0 /\ c.est = d.store)

\* claimsParticipateInSolicitation
ClaimsParticipate(c, d) ==
  \/ AccountTypeFromClaims(c) = "delivery_man" /\ c.id # 0 /\ c.id = courierOf[d]
  \/ AccountTypeFromClaims(c) = "client" /\ c.id # 0 /\ c.id = d.client
  \/ AccountTypeFromClaims(c) \notin {"delivery_man", "client"} /\ c.est # 0 /\ c.est = d.store

\* wsCanAccessOrder: an administrator, or a party of the order or of its delivery.
CanAccessOrder(c, d) == c.role = "admin" \/ ClaimsParticipate(c, d)

CourierIds == {who.id : who \in {w \in People : AccountTypeFromClaims(w) = "delivery_man"}}

\* The order is given to a courier, or taken back.
ChangeCourier(d, courier) ==
  /\ changes < MaxCourierChanges /\ changes' = changes + 1
  /\ courierOf' = [courierOf EXCEPT ![d] = courier]
  /\ drove' = [drove EXCEPT ![d] = @ \cup {courier}]
  /\ UNCHANGED <<position, posted, viewer, listeners, post>>

-----------------------------------------------------------------------------
(* Viewers. *)

\* The steps of a viewer in their order: it is listed, then shown what there is.
ShownThenListed(pc) == IF pc = "out" THEN "snapshot" ELSE IF pc = "snapshot" THEN "register" ELSE "watch"   \* mutant
AfterStep(pc)       == IF pc = "out" THEN "register" ELSE IF pc = "register" THEN "snapshot" ELSE "watch"

EnterTracking(v, who, d) ==
  /\ viewer[v].pc = "out" /\ \A w \in 1..(v - 1) : viewer[w].pc # "out"
  /\ viewer' = [viewer EXCEPT ![v] =
       [@ EXCEPT !.pc = IF CanAccessOrder(who, d) THEN AfterStep("out") ELSE "gone", !.who = who, !.of = d]]
  /\ UNCHANGED <<courierOf, position, posted, listeners, post, changes, drove>>

RegisterViewer(v) ==
  /\ viewer[v].pc = "register"
  /\ listeners' = [listeners EXCEPT ![viewer[v].of] = @ \cup {v}]
  /\ viewer' = [viewer EXCEPT ![v].pc = AfterStep("register")]
  /\ UNCHANGED <<courierOf, position, posted, post, changes, drove>>

Sees(vs, n) ==
  viewer' = [v \in Viewers |-> IF v \in vs THEN [viewer[v] EXCEPT !.seen = @ \cup {n}] ELSE viewer[v]]

\* The write is inside the read lock: no position is stored meanwhile.
SnapshotForViewer(v) ==
  /\ viewer[v].pc = "snapshot"
  /\ LET shown == {n \in {position[viewer[v].of].n} : n # 0}
     IN viewer' = [viewer EXCEPT ![v] = [@ EXCEPT !.pc = AfterStep("snapshot"), !.seen = viewer[v].seen \cup shown]]
  /\ UNCHANGED <<courierOf, position, posted, listeners, post, changes, drove>>

\* The peer is gone: the read loop ends and the connection is taken off the list.
LeaveTracking(v) ==
  /\ viewer[v].pc = "watch"
  /\ viewer' = [viewer EXCEPT ![v].pc = "gone"]
  /\ listeners' = [listeners EXCEPT ![viewer[v].of] = @ \ {v}]
  /\ UNCHANGED <<courierOf, position, posted, post, changes, drove>>

-----------------------------------------------------------------------------
(* POST /delivery/location. *)

\* Only the courier the order has now.
PostLocation(p, d) ==
  /\ post[p].pc = "idle" /\ \A q \in 1..(p - 1) : post[q].pc # "idle"
  /\ courierOf[d] # 0
  /\ post' = [post EXCEPT ![p] = [@ EXCEPT !.pc = "store", !.of = d]]
  /\ UNCHANGED <<courierOf, position, posted, viewer, listeners, changes, drove>>

Kept(pl)       == {d \in Deliveries : pl[d].n # 0}
Dropped(pl, R) == [d \in Deliveries |-> IF d \in R THEN Unset ELSE pl[d]]
TwoHoursOld(pl) == {d \in Kept(pl) : pl[d].old}

\* Above the limit positions of two hours are dropped, in no order, until few
\* enough are left.
Pruned(pl) ==
  IF Cardinality(Kept(pl)) <= PruneAbove THEN {pl}
  ELSE {Dropped(pl, R) : R \in {S \in SUBSET TwoHoursOld(pl) :
          S = TwoHoursOld(pl) \/ Cardinality(Kept(pl) \ S) <= PruneTo}}

StoreLocation(p) ==
  LET d == post[p].of
      n == posted[d] + 1
  IN /\ post[p].pc = "store"
     /\ position' \in Pruned([position EXCEPT ![d] = [n |-> n, old |-> FALSE]])
     /\ posted' = [posted EXCEPT ![d] = n]
     /\ post' = [post EXCEPT ![p] = [@ EXCEPT !.pc = "copy", !.n = n]]
     /\ UNCHANGED <<courierOf, viewer, listeners, changes, drove>>

\* The list is copied under its mutex.
CopyListeners(p) ==
  /\ post[p].pc = "copy"
  /\ post' = [post EXCEPT ![p] = [@ EXCEPT !.pc = "write", !.todo = listeners[post[p].of]]]
  /\ UNCHANGED <<courierOf, position, posted, viewer, listeners, changes, drove>>

\* A write to a peer that is gone fails and nobody minds.
WriteLocation(p) ==
  /\ post[p].pc = "write"
  /\ \/ \E v \in post[p].todo :
          /\ post' = [post EXCEPT ![p].todo = @ \ {v}]
          /\ IF viewer[v].pc = "gone" THEN UNCHANGED viewer ELSE Sees({v}, post[p].n)
     \/ /\ post[p].todo = {} /\ post' = [post EXCEPT ![p].pc = "done"]
        /\ UNCHANGED viewer
  /\ UNCHANGED <<courierOf, position, posted, listeners, changes, drove>>

GrowOld(d) ==
  /\ position[d].n # 0 /\ ~position[d].old
  /\ position' = [position EXCEPT ![d].old = TRUE]
  /\ UNCHANGED <<courierOf, posted, viewer, listeners, post, changes, drove>>

TrackNext ==
  \/ \E d \in Deliveries :
       \/ GrowOld(d)
       \/ \E p \in Posts : PostLocation(p, d)
       \/ \E c \in {0} \cup CourierIds : ChangeCourier(d, c)
       \/ \E v \in Viewers, who \in People : EnterTracking(v, who, d)
  \/ \E v \in Viewers : RegisterViewer(v) \/ SnapshotForViewer(v) \/ LeaveTracking(v)
  \/ \E p \in Posts : StoreLocation(p) \/ CopyListeners(p) \/ WriteLocation(p)

TrackSpec == TrackInit /\ [][TrackNext]_trackVars

-----------------------------------------------------------------------------
\* No viewer slips between the two mutexes: once no position of an order is on its
\* way, everybody who watches it has seen the last one.
NoViewerMissesPosition ==
  \A d \in Deliveries :
    (\A p \in Posts : post[p].of = d => post[p].pc \notin {"copy", "write"}) =>
      \A v \in Viewers :
        viewer[v].pc = "watch" /\ viewer[v].of = d /\ position[d].n # 0 => position[d].n \in viewer[v].seen

\* Who sees a position is the order's client, works for its store, was given the
\* order, or is an administrator: not somebody with the same number ("o cliente de
\* id 5 via ... a posicao do entregador de todo pedido da loja 5 ou do entregador
\* 5", websocket.go:310-312).
IsParty(who, d) ==
  \/ who.role = "admin"
  \/ AccountTypeFromClaims(who) = "client" /\ who.id = d.client
  \/ AccountTypeFromClaims(who) = "user" /\ who.est = d.store
  \/ AccountTypeFromClaims(who) = "delivery_man" /\ who.id \in drove[d]

OnlyPartiesSee == \A v \in Viewers : viewer[v].seen # {} => IsParty(viewer[v].who, viewer[v].of)

\* Who may watch an order sees where it is, and only who may.
TrackingKept == TrackTypeOK /\ NoViewerMissesPosition /\ OnlyPartiesSee

-----------------------------------------------------------------------------
(* Refuted: see the README.                                                  *)

\* Of two positions the later is seen last (with two requests under way at once);
\* a courier the order was taken from sees nothing more; no more than 500
\* positions are kept ("mantem no maximo 500 entradas", websocket.go:630).
PositionsAreBounded == Cardinality(Kept(position)) <= PruneAbove
=============================================================================
