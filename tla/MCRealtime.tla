------------------------------ MODULE MCRealtime ------------------------------
(* Instances for TLC of the parts of the monolith that face its clients: news  *)
(* of an order, the position of its courier, its chat, and the limits of       *)
(* requests.  A behaviour belongs to one part, as in MCDispatch.               *)
EXTENDS StatusSockets, LiveTracking, OrderChat, RequestLimits, TLC

CONSTANTS q1, q2, i1, i2, a1

TwoRequests  == {q1, q2}
TwoInstances == {i1, i2}
OneAddress   == {a1}

\* A client and a courier with the same number; what is told to either.
TwoAccounts  == {[type |-> "client", id |-> 1, est |-> 0], [type |-> "delivery_man", id |-> 1, est |-> 0]}
NoNews       == [queue |-> "order_updates", client |-> 0, user |-> 0, courier |-> 0, store |-> 0]
TwoEvents    == {[NoNews EXCEPT !.client = 1], [NoNews EXCEPT !.queue = "delivery_updates", !.courier = 1]}

\* The client and the store of the one order have the numbers of the other's.
TwoDeliveries == {[id |-> 1, client |-> 1, store |-> 2], [id |-> 2, client |-> 2, store |-> 1]}
ThreePeople   == {[type |-> "client", id |-> 1, est |-> 0, role |-> "client"],
                  [type |-> "none", id |-> 2, est |-> 0, role |-> "delivery_man"],
                  [type |-> "user", id |-> 1, est |-> 2, role |-> "user"]}

VARIABLE part

clientVars == <<part, socketVars, trackVars, chatVars, limitVars>>

ClientsInit == /\ part \in {"sockets", "tracking", "chat", "limits"}
               /\ SocketsInit /\ TrackInit /\ ChatInit /\ LimitsInit
ClientsNext ==
  /\ UNCHANGED part
  /\ \/ part = "sockets" /\ SocketsNext /\ UNCHANGED <<trackVars, chatVars, limitVars>>
     \/ part = "tracking" /\ TrackNext /\ UNCHANGED <<socketVars, chatVars, limitVars>>
     \/ part = "chat" /\ ChatNext /\ UNCHANGED <<socketVars, trackVars, limitVars>>
     \/ part = "limits" /\ LimitsNext /\ UNCHANGED <<socketVars, trackVars, chatVars>>
ClientsSpec == ClientsInit /\ [][ClientsNext]_clientVars
=============================================================================
