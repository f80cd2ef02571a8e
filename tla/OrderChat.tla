------------------------------ MODULE OrderChat ------------------------------
(***************************************************************************)
(* The chat of one order (chat_api/app/handlers/chat.go).  The parties who   *)
(* are connected are kept in a room; the map of rooms has a mutex, roomsMu, *)
(* each room has one, and so has each connection for what is written to it. *)
(* A room is made by the first who comes and dropped by the last who goes.  *)
(*                                                                         *)
(* A step is what happens under one mutex, or one call; writing to a        *)
(* connection takes two steps, so that two writers could meet.              *)
(***************************************************************************)
EXTENDS Naturals, FiniteSets

CONSTANTS
  NumChatters,    \* bound: connections, numbered as they come, each with a goroutine that reads it
  NumChatPosts,   \* bound: requests to POST /chat/message
  MaxRooms, MaxMessages   \* bounds

ASSUME ChatAssumption == NumChatters \in Nat /\ NumChatPosts \in Nat /\ MaxRooms \in Nat /\ MaxMessages \in Nat

Chatters   == 1..NumChatters
ChatPosts  == (NumChatters + 1)..(NumChatters + NumChatPosts)
Goroutines == Chatters \cup ChatPosts
NoRoom   == 0
NoHolder == 0
Typing   == 0       \* what a broadcast says when it is not a message

VARIABLES
  rooms,       \* rooms[orderID], or NoRoom
  clients,     \* room |-> the connections in it
  made,        \* rooms made so far
  roomsMu, roomMu,  \* who holds the map's mutex, and each room's
  connMu,      \* who holds the mutex of a connection
  writing,     \* connection |-> goroutines inside a write to it
  peer,        \* connection |-> "up", "gone" or "closed"
  stepOf,      \* a goroutine's place
  mine,        \* the room a connection entered
  look,        \* the room a goroutine found in the map
  todo, target,\* connections it has yet to write to, and the one it writes to
  says,        \* the message it broadcasts
  saved,       \* messages saved, numbered
  heardOf      \* connection |-> messages its peer received

chatVars == <<rooms, clients, made, roomsMu, roomMu, connMu, writing, peer, stepOf, mine, look, todo, target,
              says, saved, heardOf>>

Rooms == 1..MaxRooms
ChatSteps == {"out", "enter", "read", "find", "lock", "turn", "write", "ack", "acked", "remove", "drop", "drop.map",
              "gone", "stuck"}

ChatTypeOK ==
  /\ rooms \in Rooms \cup {NoRoom} /\ clients \in [Rooms -> SUBSET Chatters] /\ made \in 0..MaxRooms
  /\ roomsMu \in Goroutines \cup {NoHolder} /\ roomMu \in [Rooms -> Goroutines \cup {NoHolder}]
  /\ connMu \in [Chatters -> Goroutines \cup {NoHolder}]
  /\ stepOf \in [Goroutines -> ChatSteps] /\ says \in [Goroutines -> 0..MaxMessages]
  /\ heardOf \in [Chatters -> SUBSET (1..MaxMessages)] /\ saved \in 0..MaxMessages

ChatInit ==
  /\ rooms = NoRoom /\ clients = [r \in Rooms |-> {}] /\ made = 0
  /\ roomsMu = NoHolder /\ roomMu = [r \in Rooms |-> NoHolder] /\ connMu = [c \in Chatters |-> NoHolder]
  /\ writing = [c \in Chatters |-> {}] /\ peer = [c \in Chatters |-> "up"]
  /\ stepOf = [g \in Goroutines |-> "out"] /\ mine = [c \in Chatters |-> NoRoom]
  /\ look = [g \in Goroutines |-> NoRoom] /\ todo = [g \in Goroutines |-> {}]
  /\ target = [g \in Goroutines |-> NoHolder] /\ says = [g \in Goroutines |-> Typing]
  /\ saved = 0 /\ heardOf = [c \in Chatters |-> {}]

Moves(g, from, to) == stepOf[g] = from /\ stepOf' = [stepOf EXCEPT ![g] = to]
MapFree     == roomsMu = NoHolder
RoomFree(r) == roomMu[r] = NoHolder

-----------------------------------------------------------------------------
(* Coming: getOrCreateRoom under roomsMu, then the connection is put into the *)
(* room under the room's own mutex.                                           *)

GetOrCreateRoom(c) ==
  /\ \A d \in 1..(c - 1) : stepOf[d] # "out"
  /\ MapFree /\ Moves(c, "out", "enter")
  /\ IF rooms # NoRoom THEN mine' = [mine EXCEPT ![c] = rooms] /\ UNCHANGED <<rooms, made>>
     ELSE /\ made < MaxRooms /\ made' = made + 1
          /\ rooms' = made + 1 /\ mine' = [mine EXCEPT ![c] = made + 1]
  /\ UNCHANGED <<clients, roomsMu, roomMu, connMu, writing, peer, look, todo, target, says, saved, heardOf>>

EnterRoom(c) ==
  /\ Moves(c, "enter", "read") /\ RoomFree(mine[c])
  /\ clients' = [clients EXCEPT ![mine[c]] = @ \cup {c}]
  /\ UNCHANGED <<rooms, made, roomsMu, roomMu, connMu, writing, peer, mine, look, todo, target, says, saved, heardOf>>

PeerGoes(c) ==
  /\ stepOf[c] \notin {"out", "gone"} /\ peer[c] = "up" /\ peer' = [peer EXCEPT ![c] = "gone"]
  /\ UNCHANGED <<rooms, clients, made, roomsMu, roomMu, connMu, writing, stepOf, mine, look, todo, target, says, saved, heardOf>>

-----------------------------------------------------------------------------
(* Speaking: a message is saved and then broadcast; typing is broadcast.      *)

Begin(g) == IF g \in Chatters THEN "read" ELSE "out"
Ready(g) == g \in Chatters => peer[g] = "up"

SpeakAnyway(g) ==   \* mutant of Speak: a message is broadcast whether it was saved or not
  /\ Ready(g) /\ saved < MaxMessages /\ Moves(g, Begin(g), "find")
  /\ saved' \in {saved, saved + 1} /\ says' = [says EXCEPT ![g] = saved + 1]
  /\ UNCHANGED <<rooms, clients, made, roomsMu, roomMu, connMu, writing, peer, mine, look, todo, target, heardOf>>

\* A message that cannot be saved is not broadcast.
Speak(g) ==
  /\ Ready(g) /\ saved < MaxMessages /\ Moves(g, Begin(g), "find")
  /\ saved' = saved + 1 /\ says' = [says EXCEPT ![g] = saved + 1]
  /\ UNCHANGED <<rooms, clients, made, roomsMu, roomMu, connMu, writing, peer, mine, look, todo, target, heardOf>>

Type(c) ==
  /\ Ready(c) /\ Moves(c, "read", "find") /\ says' = [says EXCEPT ![c] = Typing]
  /\ UNCHANGED <<rooms, clients, made, roomsMu, roomMu, connMu, writing, peer, mine, look, todo, target, saved, heardOf>>

\* What follows a broadcast: a message is acknowledged to the one who sent it.
AfterBroadcast(g) ==
  IF g \in ChatPosts THEN "gone" ELSE IF says[g] = Typing THEN "read" ELSE "ack"

\* broadcastToRoom looks the room up under roomsMu ...
FindRoom(g) ==
  /\ MapFree /\ Moves(g, "find", IF rooms = NoRoom THEN AfterBroadcast(g) ELSE "lock")
  /\ look' = [look EXCEPT ![g] = rooms]
  /\ UNCHANGED <<rooms, clients, made, roomsMu, roomMu, connMu, writing, peer, mine, todo, target, says, saved, heardOf>>

\* ... and holds the room's mutex until it has written to everybody else in it.
LockRoom(g) ==
  /\ Moves(g, "lock", "turn") /\ RoomFree(look[g])
  /\ roomMu' = [roomMu EXCEPT ![look[g]] = g]
  /\ todo' = [todo EXCEPT ![g] = clients[look[g]] \ {g}]
  /\ UNCHANGED <<rooms, clients, made, roomsMu, connMu, writing, peer, mine, look, target, says, saved, heardOf>>

WriteTo(g, c) ==
  /\ c \in todo[g] /\ connMu[c] = NoHolder /\ Moves(g, "turn", "write")
  /\ connMu' = [connMu EXCEPT ![c] = g] /\ writing' = [writing EXCEPT ![c] = @ \cup {g}]
  /\ todo' = [todo EXCEPT ![g] = @ \ {c}] /\ target' = [target EXCEPT ![g] = c]
  /\ UNCHANGED <<rooms, clients, made, roomsMu, roomMu, peer, mine, look, says, saved, heardOf>>

Written(g, c) ==
  /\ connMu' = [connMu EXCEPT ![c] = IF @ = g THEN NoHolder ELSE @]
  /\ writing' = [writing EXCEPT ![c] = @ \ {g}]
  /\ heardOf' = IF peer[c] = "up" /\ says[g] # Typing THEN [heardOf EXCEPT ![c] = @ \cup {says[g]}] ELSE heardOf

DropByRemoving(g, c) ==   \* mutant of DropClient: it calls removeClientFromRoom, which takes the mutex g holds
  /\ Moves(g, "write", "stuck") /\ peer' = [peer EXCEPT ![c] = "closed"] /\ UNCHANGED clients

\* A connection that cannot be written to is closed and taken out of the room.
DropClient(g, c) ==
  /\ Moves(g, "write", "turn") /\ peer' = [peer EXCEPT ![c] = "closed"]
  /\ clients' = [clients EXCEPT ![look[g]] = @ \ {c}]

EndWrite(g) ==
  LET c == target[g]
  IN /\ \/ Moves(g, "write", "turn") /\ peer[c] # "closed" /\ UNCHANGED <<clients, peer>>
        \/ DropClient(g, c) /\ peer[c] # "up"
     /\ Written(g, c)
     /\ UNCHANGED <<rooms, made, roomsMu, roomMu, mine, look, todo, target, says, saved>>

UnlockRoom(g) ==
  /\ todo[g] = {} /\ Moves(g, "turn", AfterBroadcast(g))
  /\ roomMu' = [roomMu EXCEPT ![look[g]] = NoHolder]
  /\ UNCHANGED <<rooms, clients, made, roomsMu, connMu, writing, peer, mine, look, todo, target, says, saved, heardOf>>

AckUnlocked(c) ==   \* mutant of AckSpeaker: the connection is written to directly
  /\ Moves(c, "ack", "acked") /\ writing' = [writing EXCEPT ![c] = @ \cup {c}]
  /\ UNCHANGED <<rooms, clients, made, roomsMu, roomMu, connMu, peer, mine, look, todo, target, says, saved, heardOf>>

AckSpeaker(c) ==
  /\ connMu[c] = NoHolder /\ Moves(c, "ack", "acked")
  /\ connMu' = [connMu EXCEPT ![c] = c] /\ writing' = [writing EXCEPT ![c] = @ \cup {c}]
  /\ UNCHANGED <<rooms, clients, made, roomsMu, roomMu, peer, mine, look, todo, target, says, saved, heardOf>>

EndAck(c) ==
  /\ Moves(c, "acked", "read") /\ Written(c, c)
  /\ UNCHANGED <<rooms, clients, made, roomsMu, roomMu, peer, mine, look, todo, target, says, saved>>

-----------------------------------------------------------------------------
(* Going: removeClientFromRoom.                                               *)

LookUpToLeave(c) ==
  /\ peer[c] # "up" /\ MapFree
  /\ Moves(c, "read", IF rooms = NoRoom THEN "gone" ELSE "remove")
  /\ look' = [look EXCEPT ![c] = rooms]
  /\ UNCHANGED <<rooms, clients, made, roomsMu, roomMu, connMu, writing, peer, mine, todo, target, says, saved, heardOf>>

RemoveClient(c) ==
  LET left == clients[look[c]] \ {c}
  IN /\ Moves(c, "remove", IF left = {} THEN "drop" ELSE "gone") /\ RoomFree(look[c])
     /\ clients' = [clients EXCEPT ![look[c]] = left]
     /\ UNCHANGED <<rooms, made, roomsMu, roomMu, connMu, writing, peer, mine, look, todo, target, says, saved, heardOf>>

\* It was empty: roomsMu is taken, and under it the room's mutex ...
LockMapToDrop(c) ==
  /\ MapFree /\ Moves(c, "drop", "drop.map") /\ roomsMu' = c
  /\ UNCHANGED <<rooms, clients, made, roomMu, connMu, writing, peer, mine, look, todo, target, says, saved, heardOf>>

\* ... and if it still is, the order's entry goes.
DropRoom(c) ==
  /\ Moves(c, "drop.map", "gone") /\ RoomFree(look[c]) /\ roomsMu' = NoHolder
  /\ rooms' = IF clients[look[c]] = {} THEN NoRoom ELSE rooms
  /\ UNCHANGED <<clients, made, roomMu, connMu, writing, peer, mine, look, todo, target, says, saved, heardOf>>

\* What a goroutine does by itself once it has begun.
Goes(g) ==
  \/ FindRoom(g) \/ LockRoom(g) \/ EndWrite(g) \/ UnlockRoom(g)
  \/ \E c \in Chatters : WriteTo(g, c)
  \/ /\ g \in Chatters
     /\ EnterRoom(g) \/ AckSpeaker(g) \/ EndAck(g) \/ RemoveClient(g) \/ LockMapToDrop(g) \/ DropRoom(g)

ChatNext ==
  \/ \E g \in Goroutines : Speak(g) \/ Goes(g)
  \/ \E c \in Chatters : GetOrCreateRoom(c) \/ PeerGoes(c) \/ Type(c) \/ LookUpToLeave(c)

ChatSpec == ChatInit /\ [][ChatNext]_chatVars

-----------------------------------------------------------------------------
\* Nobody writes to a connection while another goroutine does: the broadcast of
\* one party and the acknowledgement of another meet on it ("sem serializacao da
\* 'concurrent write to websocket connection'", chat.go:25-28).
OneWriterPerConnection == \A c \in Chatters : Cardinality(writing[c]) <= 1

\* What a goroutine waits for where it stands: the map, a room, or a connection to
\* write to.  Somebody who reads waits for his peer, and a stuck one for nothing.
MayGo(g) ==
  \/ stepOf[g] \in {"find", "drop"} /\ MapFree
  \/ stepOf[g] \in {"lock", "remove", "drop.map"} /\ RoomFree(look[g])
  \/ stepOf[g] = "enter" /\ RoomFree(mine[g])
  \/ stepOf[g] = "turn" /\ (todo[g] = {} \/ \E c \in todo[g] : connMu[c] = NoHolder)
  \/ stepOf[g] = "ack" /\ connMu[g] = NoHolder
  \/ stepOf[g] \in {"write", "acked"}

Busy(g) == stepOf[g] \notin {"out", "read", "gone"}

\* The mutexes are never all held by those who wait for one: of those who have begun
\* to enter, speak or leave somebody has what he waits for.
SomebodyMayGo == (\E g \in Goroutines : Busy(g)) => \E g \in Goroutines : MayGo(g)

\* What a party hears can be read again later: it was saved.
HeardWasSaved == \A c \in Chatters : \A n \in heardOf[c] : n <= saved

\* A chat keeps its lines apart, remembers what was heard and never waits for itself.
ChatKept == ChatTypeOK /\ OneWriterPerConnection /\ HeardWasSaved /\ SomebodyMayGo

\* Who is connected and reading is in the room the map has for the order, where a
\* broadcast finds him ("to close the TOCTOU window: another goroutine may have
\* added a client between our unlock and this lock", chat.go:88-89).
NobodyIsOrphaned == \A c \in Chatters : stepOf[c] = "read" /\ peer[c] = "up" => rooms # NoRoom /\ c \in clients[rooms]
=============================================================================
