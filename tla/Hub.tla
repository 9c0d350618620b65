-------------------------------- MODULE Hub --------------------------------
(***************************************************************************)
(* The connection hub of internal/ws/hub.go: one goroutine per connection  *)
(* (ServeWS, then readPump and what it dispatches), the map of connected   *)
(* clients, which is the presence registry, and the map of rooms.  The hub *)
(* composes the challenge manager (Challenges) with the rooms, of which it *)
(* keeps the life cycle and the bounded action channel (RoomLife, which    *)
(* GameRoom implements).                                                   *)
(*                                                                         *)
(* A section under h.mu is one step; the order of the sections of one      *)
(* goroutine is kept in its stage.  Left out is what is sent to clients    *)
(* (see Delivery): every send to a client drops the message rather than    *)
(* wait, so that no goroutine's progress depends on it.                    *)
(*                                                                         *)
(* A definition headed "Mutant" is a plausible mistake in the definition it*)
(* names, for a property to catch; it is no part of the specification.     *)
(***************************************************************************)
EXTENDS Naturals, Sequences, FiniteSets

CONSTANTS Users,
          ConnIDs,       \* bound: connections ever made
          ChallengeIDs,  \* bound: challenges ever made
          RoomIDs,       \* bound: rooms ever made
          NoUser, NoConn, NoRoom,
          ActionsCap     \* make(chan Action, 16)

ASSUME NothingAssumption == /\ NoUser \notin Users /\ NoConn \notin ConnIDs
                            /\ NoRoom \notin RoomIDs
ASSUME CapAssumption == ActionsCap \in Nat \ {0}

VARIABLES conn,        \* the connections, finished ones included
          clients,     \* h.clients
          rooms,       \* h.rooms
          challenges, toNotify

hubVars == <<conn, clients, rooms>>
vars == <<hubVars, challenges, toNotify>>

Challenged == INSTANCE Challenges
Room(r) == INSTANCE RoomLife WITH life <- rooms[r]

NoConnection == [user |-> NoUser, stage |-> "none", open |-> FALSE, sendOpen |-> FALSE,
                 room |-> NoRoom, accepted |-> NoRoom, target |-> NoUser]
NoSuchRoom == [players |-> {}, status |-> "none", ready |-> {}, actions |-> <<>>]

Stages == {"none", "starting", "reading", "challenging", "creating", "attaching",
           "unregistering", "closing", "leaving", "done"}
(* The submit messages are forwarded like resync and, like it, never change*)
(* the status of a room.                                                   *)
ActionTypes == {"set_ready", "leave_room", "resync"}
Action == [from : Users, type : ActionTypes]

Known(r) == rooms[r].players # {}
RoomsOf(u) == {r \in RoomIDs : u \in rooms[r].players}

(* Mutant of Offered: the channel has no bound.                            *)
OfferedUnbounded(r, a) == [rooms EXCEPT ![r].actions = Append(@, a)]

Offered(r, a) == [rooms EXCEPT ![r] = Room(r)!Offered(a)]

-----------------------------------------------------------------------------
(* A connection's goroutine.                                               *)

CloseReplaced(u) ==
  IF clients[u] = NoConn THEN conn ELSE [conn EXCEPT ![clients[u]].open = FALSE]

(* The loop over h.rooms stops at the first room of the user in the order  *)
(* of the map, which is arbitrary; it does not look at the room's status.  *)
RoomsToResync(u) == RoomsOf(u)

(* ServeWS under the lock.                                                 *)
Connect(k, u) ==
  /\ conn[k] = NoConnection
  /\ \E r \in RoomsToResync(u) \cup {NoRoom} :
       /\ r = NoRoom <=> RoomsToResync(u) = {}
       /\ conn' = [CloseReplaced(u) EXCEPT ![k] =
                     [NoConnection EXCEPT !.user = u, !.stage = "starting", !.open = TRUE,
                                          !.sendOpen = TRUE, !.room = r]]
  /\ clients' = [clients EXCEPT ![u] = k]
  /\ UNCHANGED <<rooms, challenges, toNotify>>

(* The rest of ServeWS.  This send on r.Actions waits for a place, and a   *)
(* room that is over never makes one.                                      *)
StartReading(k) ==
  /\ conn[k].stage = "starting"
  /\ \/ /\ conn[k].room = NoRoom
        /\ UNCHANGED rooms
     \/ /\ conn[k].room # NoRoom
        /\ Len(rooms[conn[k].room].actions) < ActionsCap
        /\ rooms' = Offered(conn[k].room, [from |-> conn[k].user, type |-> "resync"])
  /\ conn' = [conn EXCEPT ![k].stage = "reading"]
  /\ UNCHANGED <<clients, challenges, toNotify>>

(* The tab is closed, the network fails, or the read deadline passes.      *)
SocketFails(k) ==
  /\ conn[k].open
  /\ conn' = [conn EXCEPT ![k].open = FALSE]
  /\ UNCHANGED <<clients, rooms, challenges, toNotify>>

(* ReadMessage returns an error; the deferred function closes the socket.  *)
ReadFails(k) ==
  /\ conn[k].stage = "reading"
  /\ ~conn[k].open
  /\ conn' = [conn EXCEPT ![k].stage = "unregistering"]
  /\ UNCHANGED <<clients, rooms, challenges, toNotify>>

(* Mutant of Unregister: the entry is deleted whoever's it is.             *)
UnregisterUser(k) == clients' = [clients EXCEPT ![conn[k].user] = NoConn]

Unregister(k) ==
  clients' = IF clients[conn[k].user] = k THEN [clients EXCEPT ![conn[k].user] = NoConn]
             ELSE clients

(* removeClient: delete the entry under the lock, then close the channel.  *)
RemoveClient(k) ==
  \/ /\ conn[k].stage = "unregistering"
     /\ Unregister(k)
     /\ conn' = [conn EXCEPT ![k].stage = "closing"]
     /\ UNCHANGED <<rooms, challenges, toNotify>>
  \/ /\ conn[k].stage = "closing"
     /\ conn' = [conn EXCEPT ![k].stage = "leaving", ![k].sendOpen = FALSE]
     /\ UNCHANGED <<clients, rooms, challenges, toNotify>>

(* The end of readPump's deferred function.                                *)
SendLeave(k) ==
  /\ conn[k].stage = "leaving"
  /\ rooms' = IF conn[k].room = NoRoom THEN rooms
              ELSE Offered(conn[k].room, [from |-> conn[k].user, type |-> "leave_room"])
  /\ conn' = [conn EXCEPT ![k].stage = "done"]
  /\ UNCHANGED <<clients, challenges, toNotify>>

-----------------------------------------------------------------------------
(* dispatch, for a message that was read; nothing is assumed of its fields.*)

(* A connection that was closed, or replaced, still dispatches what had    *)
(* come in before its next ReadMessage fails.                              *)
Reads(k) == conn[k].stage = "reading"

(* send_challenge: only to somebody who is online when looked up, which    *)
(* says nothing of the moment the challenge is made.                       *)
LookUpTarget(k, target) ==
  /\ Reads(k)
  /\ clients[target] # NoConn
  /\ conn' = [conn EXCEPT ![k].stage = "challenging", ![k].target = target]
  /\ UNCHANGED <<clients, rooms, challenges, toNotify>>

DispatchEnds(k) == conn' = [conn EXCEPT ![k].stage = "reading", ![k].target = NoUser]

SendChallenge(k, id, target) ==
  /\ conn[k].stage = "challenging"
  /\ conn[k].target = target
  /\ Challenged!Create(id, conn[k].user, target)
  /\ DispatchEnds(k)
  /\ UNCHANGED <<clients, rooms>>

(* Create's error for a challenge to oneself; bound: so ends one for which *)
(* no id is left.                                                          *)
ChallengeRefused(k) ==
  /\ conn[k].stage = "challenging"
  /\ conn[k].target = conn[k].user \/ \A id \in ChallengeIDs : challenges[id] # Challenged!NoChallenge
  /\ DispatchEnds(k)
  /\ UNCHANGED <<clients, rooms, challenges, toNotify>>

(* respond_challenge: the manager first, then createRoom in its two locked *)
(* sections.                                                               *)
AcceptChallenge(k, id) ==
  /\ Reads(k)
  /\ Challenged!Accept(id, conn[k].user)
  /\ conn' = [conn EXCEPT ![k].stage = "creating", ![k].accepted = challenges'[id].room]
  /\ UNCHANGED <<clients, rooms>>

DeclineChallenge(k, id) ==
  /\ Reads(k)
  /\ Challenged!Decline(id, conn[k].user)
  /\ UNCHANGED hubVars

PlayersOf(r) ==
  UNION {{challenges[id].challenger, challenges[id].challenged} :
           id \in {i \in ChallengeIDs : challenges[i].room = r}}

CreateRoom(k) ==
  /\ conn[k].stage = "creating"
  /\ rooms' = [rooms EXCEPT ![conn[k].accepted] =
                 [NoSuchRoom EXCEPT !.players = PlayersOf(conn[k].accepted), !.status = "waiting"]]
  /\ conn' = [conn EXCEPT ![k].stage = "attaching"]
  /\ UNCHANGED <<clients, challenges, toNotify>>

Attach(k, seated) ==
  /\ conn[k].stage = "attaching"
  /\ conn' = [j \in ConnIDs |->
                [conn[j] EXCEPT !.room = IF j \in seated THEN conn[k].accepted ELSE @,
                                !.stage = IF j = k THEN "reading" ELSE @,
                                !.accepted = IF j = k THEN NoRoom ELSE @]]
  /\ UNCHANGED <<clients, rooms, challenges, toNotify>>

(* Mutant of AttachPlayers: a connection whose ServeWS still goes on has   *)
(* looked for its rooms, and is taken to need nothing.                     *)
AttachReaders(k) ==
  Attach(k, {j \in {clients[u] : u \in rooms[conn[k].accepted].players} \ {NoConn} :
               conn[j].stage # "starting"})

(* Both players' present connections get the room, if they have one.       *)
AttachPlayers(k) == Attach(k, {clients[u] : u \in rooms[conn[k].accepted].players})

(* Mutant of MayAct: it is enough that the room exists.                    *)
AnyoneMayAct(u, r) == Known(r)

(* The test of forwardToRoom and forwardToRoomWithObject.                  *)
MayAct(u, r) == Known(r) /\ u \in rooms[r].players

Forward(k, r, t) ==
  /\ Reads(k)
  /\ MayAct(conn[k].user, r)
  /\ rooms' = Offered(r, [from |-> conn[k].user, type |-> t])
  /\ UNCHANGED <<conn, clients, challenges, toNotify>>

-----------------------------------------------------------------------------
(* The rooms, and the challenge manager's own goroutine.                   *)

RoomTakes(r) ==
  /\ Room(r)!MayTake
  /\ rooms' = [rooms EXCEPT ![r] = Room(r)!Taken]
  /\ UNCHANGED <<conn, clients, challenges, toNotify>>

MatchIsPlayed(r) ==
  /\ Room(r)!MayEnd
  /\ rooms' = [rooms EXCEPT ![r] = Room(r)!Played]
  /\ UNCHANGED <<conn, clients, challenges, toNotify>>

ChallengesAge ==
  /\ \/ Challenged!Sweep
     \/ \E id \in ChallengeIDs : Challenged!MinutePasses(id) \/ Challenged!NotifyExpired(id)
  /\ UNCHANGED hubVars

Init == /\ conn = [k \in ConnIDs |-> NoConnection]
        /\ clients = [u \in Users |-> NoConn]
        /\ rooms = [r \in RoomIDs |-> NoSuchRoom]
        /\ Challenged!Init

(* What the goroutine of connection k does without anybody's help.         *)
Proceed(k) == \/ StartReading(k) \/ ReadFails(k) \/ RemoveClient(k) \/ SendLeave(k)
              \/ CreateRoom(k) \/ AttachPlayers(k)

Next ==
  \/ \E k \in ConnIDs :
       \/ \E u \in Users : Connect(k, u) \/ LookUpTarget(k, u)
       \/ Proceed(k)
       \/ SocketFails(k) \/ ChallengeRefused(k)
       \/ \E id \in ChallengeIDs :
            \/ \E target \in Users : SendChallenge(k, id, target)
            \/ AcceptChallenge(k, id) \/ DeclineChallenge(k, id)
       \/ \E r \in RoomIDs, t \in ActionTypes : Forward(k, r, t)
  \/ \E r \in RoomIDs : RoomTakes(r) \/ MatchIsPlayed(r)
  \/ ChallengesAge

Spec == Init /\ [][Next]_vars

-----------------------------------------------------------------------------
(* Properties.                                                             *)

(* The values of the hub's variables, and at most the channel's capacity   *)
(* of actions in a room.                                                   *)
TypeOK ==
  /\ conn \in [ConnIDs -> [user : Users \cup {NoUser}, stage : Stages,
                           open : BOOLEAN, sendOpen : BOOLEAN,
                           room : RoomIDs \cup {NoRoom}, accepted : RoomIDs \cup {NoRoom},
                           target : Users \cup {NoUser}]]
  /\ clients \in [Users -> ConnIDs \cup {NoConn}]
  /\ \A r \in RoomIDs :
       /\ rooms[r].players \subseteq Users
       /\ rooms[r].status \in {"none", "waiting", "in_progress", "completed", "abandoned"}
       /\ rooms[r].ready \subseteq rooms[r].players
       /\ rooms[r].actions \in Seq(Action) /\ Len(rooms[r].actions) <= ActionsCap

(* The registry is the presence.  The registered connection of a user is  *)
(* theirs and its send channel is open, so that a send under the read lock *)
(* is never on a closed channel (removeClient deletes first and closes     *)
(* after); and a user has at most one open connection, the registered one: *)
(* replacing a connection closes the old one, whose goroutine, which ends  *)
(* later, does not unregister the new one.                                 *)
RegistryIsPresence ==
  /\ \A u \in Users :
       clients[u] # NoConn => conn[clients[u]].user = u /\ conn[clients[u]].sendOpen
  /\ \A k \in ConnIDs : conn[k].open => clients[conn[k].user] = k

(* Every room comes from one accepted challenge and is between its two     *)
(* players, only they put actions on its channel, and only they have it as *)
(* their connection's room.                                                *)
RoomsAreAgreed ==
  /\ \A r \in RoomIDs : Known(r) =>
       /\ \E id \in ChallengeIDs :
            /\ challenges[id].status = "accepted"
            /\ challenges[id].room = r
            /\ rooms[r].players = {challenges[id].challenger, challenges[id].challenged}
       /\ Cardinality(rooms[r].players) = 2
       /\ \A i \in DOMAIN rooms[r].actions : rooms[r].actions[i].from \in rooms[r].players
  /\ \A k \in ConnIDs : conn[k].room # NoRoom => conn[k].user \in rooms[conn[k].room].players

(* Being attached by the goroutine that made the room.                     *)
Awaited(u) == \E k \in ConnIDs : conn[k].stage = "attaching" /\ u \in rooms[conn[k].accepted].players

(* No player is left outside.  createRoom puts the room in the map before  *)
(* it looks for its players' connections, and ServeWS registers a          *)
(* connection and looks for its rooms in one section: whoever is replaced, *)
(* leaves or comes back in between, the present connection of a player has *)
(* a room of theirs as soon as the room has been attached.                 *)
PlayersAreSeated ==
  \A u \in Users :
    clients[u] # NoConn /\ RoomsOf(u) # {}
      => conn[clients[u]].room \in RoomsOf(u) \/ Awaited(u)

(* A player who reconnects is re-synced into the room (progress.md) and is *)
(* not made to leave it by the connection that was replaced.               *)
ReconnectKeepsTheMatch ==
  [][\A k \in ConnIDs :
       /\ conn[k].stage = "leaving" /\ conn'[k].stage = "done"
       /\ clients[conn[k].user] # NoConn
       => UNCHANGED rooms]_vars
=============================================================================
