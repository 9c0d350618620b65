------------------------------ MODULE HubProofs ------------------------------
(***************************************************************************)
(* The hub's registry of connections and its rooms, for any number of      *)
(* users, connections, challenges and rooms.                               *)
(*                                                                         *)
(* The inductive invariant has two halves that are proved one after the    *)
(* other: what holds of connections and the map of clients (Presence), and *)
(* what holds of challenges and rooms because of it (Agreement).           *)
(***************************************************************************)
EXTENDS Hub, FiniteSetTheorems, SequenceTheorems, TLAPS

Connection == [user : Users \cup {NoUser}, stage : Stages, open : BOOLEAN, sendOpen : BOOLEAN,
               room : RoomIDs \cup {NoRoom}, accepted : RoomIDs \cup {NoRoom},
               target : Users \cup {NoUser}]
Challenge == [challenger : Users \cup {NoUser}, challenged : Users \cup {NoUser},
              status : {"none", "pending", "accepted", "declined", "expired"},
              room : RoomIDs \cup {NoRoom}, old : BOOLEAN]
LifeOfRoom == [players : SUBSET Users,
               status : {"none", "waiting", "in_progress", "completed", "abandoned"},
               ready : SUBSET Users, actions : Seq(Action)]

(* The values of the maps; nothing yet of how they go together.            *)
ConnTypes == /\ conn \in [ConnIDs -> Connection]
             /\ clients \in [Users -> ConnIDs \cup {NoConn}]
RoomTypes == /\ challenges \in [ChallengeIDs -> Challenge]
             /\ rooms \in [RoomIDs -> LifeOfRoom]

TearDown == {"unregistering", "closing", "leaving", "done"}
Unregistered == {"closing", "leaving", "done"}

(* A goroutine takes its connection apart in one order: it is closed when  *)
(* that starts, and nobody's once the entry has been looked at.            *)
TakenApartInOrder ==
  \A k \in ConnIDs :
    /\ conn[k].open \/ conn[k].stage # "none" => conn[k].user \in Users
    /\ conn[k].stage \in TearDown => ~conn[k].open
    /\ conn[k].stage \in Unregistered => \A u \in Users : clients[u] # k

Presence == ConnTypes /\ TakenApartInOrder /\ RegistryIsPresence

-----------------------------------------------------------------------------
(* Presence.                                                               *)

LEMMA NobodyThere ==
  /\ NoConnection \in Connection /\ NoConnection.user = NoUser /\ ~NoConnection.open
  /\ NoConnection.stage = "none" /\ NoConnection.room = NoRoom /\ NoConnection.accepted = NoRoom
  /\ ~NoConnection.sendOpen
  /\ NoUser \notin Users /\ NoConn \notin ConnIDs /\ NoRoom \notin RoomIDs
BY NothingAssumption DEF NoConnection, Connection, Stages

(* A goroutine goes on to a stage that is not the end of its connection.   *)
LEMMA GoesOn ==
  ASSUME Presence, NEW k \in ConnIDs, conn[k].stage # "none", NEW s \in Stages,
         conn' = [conn EXCEPT ![k].stage = s], UNCHANGED clients,
         s \in TearDown => ~conn[k].open,
         s \in Unregistered => conn[k].stage \in Unregistered
  PROVE  Presence'
<1>1. ConnTypes'
  BY DEF Presence, ConnTypes, Connection
<1>2. \A j \in ConnIDs : /\ conn'[j].user = conn[j].user /\ conn'[j].open = conn[j].open
                         /\ conn'[j].sendOpen = conn[j].sendOpen
                         /\ conn'[j].stage = IF j = k THEN s ELSE conn[j].stage
  BY DEF Presence, ConnTypes, Connection
<1>3. TakenApartInOrder'
  BY <1>2 DEF Presence, TakenApartInOrder
<1>4. RegistryIsPresence'
  BY <1>2 DEF Presence, RegistryIsPresence, ConnTypes
<1> QED BY <1>1, <1>3, <1>4 DEF Presence

LEMMA ConnectKeepsPresence ==
  ASSUME Presence, NEW k \in ConnIDs, NEW u \in Users, Connect(k, u)
  PROVE  Presence'
<1> DEFINE new(r) == [NoConnection EXCEPT !.user = u, !.stage = "starting", !.open = TRUE,
                                          !.sendOpen = TRUE, !.room = r]
<1>1. PICK r \in RoomIDs \cup {NoRoom} : conn' = [CloseReplaced(u) EXCEPT ![k] = new(r)]
  BY DEF Connect, RoomsToResync, RoomsOf
<1>2. /\ new(r) \in Connection /\ new(r).user = u /\ new(r).open /\ new(r).sendOpen
      /\ new(r).stage = "starting"
  BY DEF NoConnection, Connection, Stages
<1> HIDE DEF new
<1>3. /\ CloseReplaced(u) \in [ConnIDs -> Connection]
      /\ \A j \in ConnIDs :
           /\ CloseReplaced(u)[j].user = conn[j].user /\ CloseReplaced(u)[j].sendOpen = conn[j].sendOpen
           /\ CloseReplaced(u)[j].stage = conn[j].stage
           /\ CloseReplaced(u)[j].open => conn[j].open /\ clients[u] # j
  <2>1. conn \in [ConnIDs -> Connection] /\ clients[u] \in ConnIDs \cup {NoConn}
    BY DEF Presence, ConnTypes
  <2>2. CASE clients[u] = NoConn
    BY <2>1, <2>2, NobodyThere DEF CloseReplaced
  <2>3. CASE clients[u] # NoConn
    <3>1. clients[u] \in ConnIDs /\ CloseReplaced(u) = [conn EXCEPT ![clients[u]].open = FALSE]
      BY <2>1, <2>3 DEF CloseReplaced
    <3>2. [conn[clients[u]] EXCEPT !.open = FALSE] \in Connection
      <4>1. \A c \in Connection : [c EXCEPT !.open = FALSE] \in Connection
        BY DEF Connection
      <4> QED BY <2>1, <3>1, <4>1
    <3>3. ASSUME NEW j \in ConnIDs
          PROVE  CloseReplaced(u)[j] = IF j = clients[u] THEN [conn[j] EXCEPT !.open = FALSE] ELSE conn[j]
      BY <2>1, <3>1
    <3>4. CloseReplaced(u) \in [ConnIDs -> Connection]
      BY <2>1, <3>1, <3>2, <3>3
    <3>5. ASSUME NEW j \in ConnIDs
          PROVE  /\ CloseReplaced(u)[j].user = conn[j].user
                 /\ CloseReplaced(u)[j].sendOpen = conn[j].sendOpen
                 /\ CloseReplaced(u)[j].stage = conn[j].stage
                 /\ CloseReplaced(u)[j].open => conn[j].open /\ clients[u] # j
      BY <2>1, <3>3 DEF Connection
    <3> QED BY <3>4, <3>5
  <2> QED BY <2>2, <2>3
<1>4. clients' = [clients EXCEPT ![u] = k] /\ conn[k] = NoConnection
  BY DEF Connect
<1>5. ConnTypes'
  BY <1>1, <1>2, <1>3, <1>4 DEF Presence, ConnTypes
<1>6. /\ conn'[k] = new(r)
      /\ \A j \in ConnIDs \ {k} :
           /\ conn'[j].user = conn[j].user /\ conn'[j].sendOpen = conn[j].sendOpen
           /\ conn'[j].stage = conn[j].stage
           /\ conn'[j].open => conn[j].open /\ clients[u] # j
  BY <1>1, <1>3
<1>7. clients'[u] = k /\ \A v \in Users \ {u} : clients'[v] = clients[v] /\ clients[v] # k
  <2>1. \A v \in Users : clients[v] # k
    BY <1>4, NobodyThere DEF Presence, RegistryIsPresence
  <2> QED BY <1>4, <2>1 DEF Presence, ConnTypes
<1>8. TakenApartInOrder'
  BY <1>2, <1>6, <1>7 DEF Presence, TakenApartInOrder, TearDown, Unregistered
<1>9. RegistryIsPresence'
  <2>1. \A v \in Users : clients'[v] # NoConn => conn'[clients'[v]].user = v /\ conn'[clients'[v]].sendOpen
    BY <1>2, <1>6, <1>7 DEF Presence, ConnTypes, RegistryIsPresence
  <2>2. \A j \in ConnIDs : conn'[j].open => clients'[conn'[j].user] = j
    BY <1>2, <1>6, <1>7 DEF Presence, RegistryIsPresence, TakenApartInOrder
  <2> QED BY <2>1, <2>2 DEF RegistryIsPresence
<1> QED BY <1>5, <1>8, <1>9 DEF Presence

LEMMA FailureKeepsPresence ==
  ASSUME Presence, NEW k \in ConnIDs, SocketFails(k)
  PROVE  Presence'
<1>1. ConnTypes'
  BY DEF Presence, ConnTypes, Connection, SocketFails
<1>2. \A j \in ConnIDs : /\ conn'[j].user = conn[j].user /\ conn'[j].stage = conn[j].stage
                         /\ conn'[j].sendOpen = conn[j].sendOpen
                         /\ conn'[j].open => conn[j].open /\ j # k
  BY DEF Presence, ConnTypes, Connection, SocketFails
<1>3. TakenApartInOrder' /\ RegistryIsPresence'
  BY <1>2 DEF Presence, TakenApartInOrder, RegistryIsPresence, ConnTypes, SocketFails
<1> QED BY <1>1, <1>3 DEF Presence

LEMMA RemovalKeepsPresence ==
  ASSUME Presence, NEW k \in ConnIDs, RemoveClient(k)
  PROVE  Presence'
<1>1. CASE conn[k].stage = "unregistering" /\ Unregister(k) /\ conn' = [conn EXCEPT ![k].stage = "closing"]
  <2>1. \A u \in Users : clients'[u] = IF clients[u] = k THEN NoConn ELSE clients[u]
    BY <1>1 DEF Unregister, Presence, ConnTypes, RegistryIsPresence, TakenApartInOrder
  <2>2. ConnTypes'
    <3>1. conn \in [ConnIDs -> Connection] /\ clients \in [Users -> ConnIDs \cup {NoConn}]
      BY DEF Presence, ConnTypes
    <3>2. [conn[k] EXCEPT !.stage = "closing"] \in Connection
      BY <3>1 DEF Connection, Stages
    <3>3. conn' = [conn EXCEPT ![k] = [conn[k] EXCEPT !.stage = "closing"]]
      BY <1>1, <3>1
    <3>4. clients' \in [Users -> ConnIDs \cup {NoConn}]
      BY <1>1, <3>1 DEF Unregister
    <3> QED BY <3>1, <3>2, <3>3, <3>4 DEF ConnTypes
  <2>3. \A j \in ConnIDs : /\ conn'[j].user = conn[j].user /\ conn'[j].open = conn[j].open
                           /\ conn'[j].sendOpen = conn[j].sendOpen
                           /\ conn'[j].stage = IF j = k THEN "closing" ELSE conn[j].stage
    BY <1>1 DEF Presence, ConnTypes, Connection
  <2>4. ~conn[k].open
    BY <1>1 DEF Presence, TakenApartInOrder, TearDown
  <2>5. TakenApartInOrder'
    BY <1>1, <2>1, <2>3, <2>4, NobodyThere DEF Presence, TakenApartInOrder, TearDown, Unregistered
  <2>6. RegistryIsPresence'
    BY <2>1, <2>3, <2>4 DEF Presence, ConnTypes, TakenApartInOrder, RegistryIsPresence
  <2> QED BY <2>2, <2>5, <2>6 DEF Presence
<1>2. CASE /\ conn[k].stage = "closing" /\ UNCHANGED clients
           /\ conn' = [conn EXCEPT ![k].stage = "leaving", ![k].sendOpen = FALSE]
  <2>1. ConnTypes'
    <3>1. [conn[k] EXCEPT !.stage = "leaving", !.sendOpen = FALSE] \in Connection
      BY DEF Presence, ConnTypes, Connection, Stages
    <3>2. conn' = [conn EXCEPT ![k] = [conn[k] EXCEPT !.stage = "leaving", !.sendOpen = FALSE]]
      BY <1>2 DEF Presence, ConnTypes
    <3> QED BY <1>2, <3>1, <3>2 DEF Presence, ConnTypes
  <2>2. \A j \in ConnIDs : /\ conn'[j].user = conn[j].user /\ conn'[j].open = conn[j].open
                           /\ j # k => conn'[j].sendOpen = conn[j].sendOpen
                           /\ conn'[j].stage = IF j = k THEN "leaving" ELSE conn[j].stage
    BY <1>2 DEF Presence, ConnTypes, Connection
  <2>3. \A u \in Users : clients[u] # k
    BY <1>2 DEF Presence, TakenApartInOrder, Unregistered
  <2>4. ~conn[k].open /\ conn[k].user \in Users
    BY <1>2 DEF Presence, TakenApartInOrder, TearDown
  <2>5. ASSUME NEW j \in ConnIDs
        PROVE  /\ conn'[j].open \/ conn'[j].stage # "none" => conn'[j].user \in Users
               /\ conn'[j].stage \in TearDown => ~conn'[j].open
               /\ conn'[j].stage \in Unregistered => \A u \in Users : clients'[u] # j
    <3>1. CASE j = k
      <4>1. conn'[k].user \in Users /\ ~conn'[k].open
        BY <2>2, <2>4
      <4>2. \A u \in Users : clients'[u] # k
        BY <1>2, <2>3
      <4> QED BY <3>1, <4>1, <4>2
    <3>2. CASE j # k
      <4>1. /\ conn'[j].user = conn[j].user /\ conn'[j].open = conn[j].open
            /\ conn'[j].stage = conn[j].stage
        BY <2>2, <3>2
      <4>2. clients' = clients
        BY <1>2
      <4> QED BY <4>1, <4>2 DEF Presence, TakenApartInOrder
    <3> QED BY <3>1, <3>2
  <2>6. RegistryIsPresence'
    BY <1>2, <2>2, <2>3 DEF Presence, ConnTypes, RegistryIsPresence
  <2> QED BY <2>1, <2>5, <2>6 DEF Presence, TakenApartInOrder
<1> QED BY <1>1, <1>2 DEF RemoveClient

(* Nothing of a connection that matters here but the stage of one that is  *)
(* up and running.                                                         *)
LEMMA SeatsKeepPresence ==
  ASSUME Presence, NEW k \in ConnIDs, NEW s \in Stages \ TearDown,
         conn' \in [ConnIDs -> Connection], UNCHANGED clients, conn[k].stage # "none",
         \A j \in ConnIDs : /\ conn'[j].user = conn[j].user /\ conn'[j].open = conn[j].open
                            /\ conn'[j].sendOpen = conn[j].sendOpen
                            /\ conn'[j].stage = IF j = k THEN s ELSE conn[j].stage
  PROVE  Presence'
<1>1. TakenApartInOrder'
  BY DEF Presence, TakenApartInOrder, TearDown, Unregistered
<1>2. RegistryIsPresence'
  BY DEF Presence, RegistryIsPresence, ConnTypes
<1> QED BY <1>1, <1>2 DEF Presence, ConnTypes

LEMMA AttachKeepsPresence ==
  ASSUME Presence, NEW k \in ConnIDs, AttachPlayers(k)
  PROVE  Presence'
<1> DEFINE r == conn[k].accepted
           seated == {clients[u] : u \in rooms[r].players}
<1>1. /\ conn[k].stage = "attaching" /\ UNCHANGED clients
      /\ conn' = [j \in ConnIDs |->
                    [conn[j] EXCEPT !.room = IF j \in seated THEN r ELSE @,
                                    !.stage = IF j = k THEN "reading" ELSE @,
                                    !.accepted = IF j = k THEN NoRoom ELSE @]]
  BY DEF AttachPlayers, Attach
<1>2. conn \in [ConnIDs -> Connection] /\ r \in RoomIDs \cup {NoRoom}
  BY DEF Presence, ConnTypes, Connection
<1> HIDE DEF r, seated
<1>3. \A j \in ConnIDs :
        /\ conn'[j] \in Connection
        /\ conn'[j].user = conn[j].user /\ conn'[j].open = conn[j].open
        /\ conn'[j].sendOpen = conn[j].sendOpen
        /\ conn'[j].stage = IF j = k THEN "reading" ELSE conn[j].stage
  <2> SUFFICES ASSUME NEW j \in ConnIDs
               PROVE  /\ conn'[j] \in Connection
                      /\ conn'[j].user = conn[j].user /\ conn'[j].open = conn[j].open
                      /\ conn'[j].sendOpen = conn[j].sendOpen
                      /\ conn'[j].stage = IF j = k THEN "reading" ELSE conn[j].stage
    OBVIOUS
  <2>1. conn'[j] = [conn[j] EXCEPT !.room = IF j \in seated THEN r ELSE @,
                                   !.stage = IF j = k THEN "reading" ELSE @,
                                   !.accepted = IF j = k THEN NoRoom ELSE @]
    BY <1>1
  <2>2. conn[j] \in Connection
    BY <1>2
  <2> QED BY <1>2, <2>1, <2>2 DEF Connection, Stages
<1>4. conn' \in [ConnIDs -> Connection]
  BY <1>1, <1>3
<1>5. "reading" \in Stages \ TearDown /\ conn[k].stage # "none"
  BY <1>1 DEF Stages, TearDown
<1> HIDE DEF Connection, Stages, TearDown
<1>6. \A j \in ConnIDs : /\ conn'[j].user = conn[j].user /\ conn'[j].open = conn[j].open
                         /\ conn'[j].sendOpen = conn[j].sendOpen
                         /\ conn'[j].stage = IF j = k THEN "reading" ELSE conn[j].stage
  BY <1>3
<1>7. UNCHANGED clients
  BY <1>1
<1> QED BY <1>4, <1>5, <1>6, <1>7, SeatsKeepPresence

LEMMA AcceptKeepsPresence ==
  ASSUME Presence, RoomTypes, NEW k \in ConnIDs, NEW id \in ChallengeIDs, AcceptChallenge(k, id)
  PROVE  Presence'
<1>1. PICK r \in RoomIDs :
        /\ challenges' = [challenges EXCEPT ![id].status = "accepted", ![id].room = r]
        /\ conn' = [conn EXCEPT ![k].stage = "creating", ![k].accepted = challenges'[id].room]
  BY DEF AcceptChallenge, Challenged!Accept
<1>2. challenges'[id].room = r
  BY <1>1 DEF RoomTypes, Challenge
<1>3. conn' \in [ConnIDs -> Connection]
  <2>1. [conn[k] EXCEPT !.stage = "creating", !.accepted = r] \in Connection
    BY DEF Presence, ConnTypes, Connection, Stages
  <2>2. conn' = [conn EXCEPT ![k] = [conn[k] EXCEPT !.stage = "creating", !.accepted = r]]
    BY <1>1, <1>2 DEF Presence, ConnTypes
  <2> QED BY <2>1, <2>2 DEF Presence, ConnTypes
<1>4. \A j \in ConnIDs : /\ conn'[j].user = conn[j].user /\ conn'[j].open = conn[j].open
                         /\ conn'[j].sendOpen = conn[j].sendOpen
                         /\ conn'[j].stage = IF j = k THEN "creating" ELSE conn[j].stage
  BY <1>1, <1>2 DEF Presence, ConnTypes, Connection
<1> QED BY <1>3, <1>4, SeatsKeepPresence DEF AcceptChallenge, Reads, Stages, TearDown

(* The steps of send_challenge: they move nobody's connection.             *)
Considers(k) ==
  \/ ChallengeRefused(k)
  \/ \E u \in Users : LookUpTarget(k, u) \/ \E id \in ChallengeIDs : SendChallenge(k, id, u)

LEMMA ConsideringMovesNobody ==
  ASSUME Presence, NEW k \in ConnIDs, Considers(k)
  PROVE  /\ UNCHANGED <<clients, rooms>>
         /\ conn' \in [ConnIDs -> Connection]
         /\ conn[k].stage \in {"reading", "challenging"}
         /\ conn'[k].stage \in {"reading", "challenging"}
         /\ \A j \in ConnIDs \ {k} : conn'[j] = conn[j]
         /\ \A j \in ConnIDs : /\ conn'[j].user = conn[j].user /\ conn'[j].open = conn[j].open
                                /\ conn'[j].sendOpen = conn[j].sendOpen
                                /\ conn'[j].room = conn[j].room /\ conn'[j].accepted = conn[j].accepted
<1>1. PICK s \in {"reading", "challenging"}, v \in Users \cup {NoUser} :
        conn' = [conn EXCEPT ![k].stage = s, ![k].target = v]
  BY DEF Considers, ChallengeRefused, LookUpTarget, SendChallenge, DispatchEnds
<1>2. UNCHANGED <<clients, rooms>> /\ conn[k].stage \in {"reading", "challenging"}
  BY DEF Considers, ChallengeRefused, LookUpTarget, SendChallenge, Reads
<1>3. conn \in [ConnIDs -> Connection]
  BY DEF Presence, ConnTypes
<1>4. \A j \in ConnIDs \ {k} : conn'[j] = conn[j]
  BY <1>1, <1>3
<1>5. /\ conn'[k] \in Connection /\ conn'[k].stage = s
      /\ conn'[k].user = conn[k].user /\ conn'[k].open = conn[k].open
      /\ conn'[k].sendOpen = conn[k].sendOpen
      /\ conn'[k].room = conn[k].room /\ conn'[k].accepted = conn[k].accepted
  BY <1>1, <1>3 DEF Connection, Stages
<1>6. conn' \in [ConnIDs -> Connection]
  BY <1>1, <1>3, <1>4, <1>5
<1> QED BY <1>2, <1>4, <1>5, <1>6

LEMMA ConsideringKeepsPresence ==
  ASSUME Presence, NEW k \in ConnIDs, Considers(k)
  PROVE  Presence'
<1>1. /\ UNCHANGED clients /\ conn' \in [ConnIDs -> Connection]
      /\ conn[k].stage \in {"reading", "challenging"} /\ conn'[k].stage \in {"reading", "challenging"}
      /\ \A j \in ConnIDs : /\ conn'[j].user = conn[j].user /\ conn'[j].open = conn[j].open
                             /\ conn'[j].sendOpen = conn[j].sendOpen
                             /\ conn'[j].stage = IF j = k THEN conn'[k].stage ELSE conn[j].stage
  BY ConsideringMovesNobody
<1>2. conn'[k].stage \in Stages \ TearDown /\ conn[k].stage # "none"
  BY <1>1 DEF Stages, TearDown
<1> QED BY <1>1, <1>2, SeatsKeepPresence

-----------------------------------------------------------------------------
(* Agreement.                                                              *)

(* A challenge that is not settled has no room, and no two have the same.  *)
ChallengesStand ==
  /\ \A id \in ChallengeIDs :
       /\ challenges[id].status # "none" =>
            /\ challenges[id].challenger \in Users /\ challenges[id].challenged \in Users
            /\ challenges[id].challenger # challenges[id].challenged
       /\ challenges[id].room # NoRoom => challenges[id].status = "accepted"
  /\ \A i, j \in ChallengeIDs :
       challenges[i].room = challenges[j].room /\ challenges[i].room # NoRoom => i = j

RoomsInBounds ==
  \A r \in RoomIDs : rooms[r].ready \subseteq rooms[r].players /\ Len(rooms[r].actions) <= ActionsCap

(* Nothing is put on the channel of a room that is not there yet.          *)
EmptyUntilMade == \A r \in RoomIDs : ~Known(r) => rooms[r].actions = <<>>

Agreement == /\ RoomTypes /\ ChallengesStand /\ RoomsInBounds /\ EmptyUntilMade
             /\ RoomsAreAgreed

(* The players who take a challenge are two.                               *)
LEMMA Pair ==
  ASSUME NEW a, NEW b, a # b
  PROVE  Cardinality({a, b}) = 2
<1>1. IsFiniteSet({a}) /\ Cardinality({a}) = 1
  BY FS_Singleton
<1>2. Cardinality({a} \cup {b}) = 1 + 1
  BY <1>1, FS_AddElement
<1>3. {a} \cup {b} = {a, b}
  OBVIOUS
<1> QED BY <1>2, <1>3

LEMMA PlayersAreTheChallenges ==
  ASSUME ChallengesStand, NEW id \in ChallengeIDs, challenges[id].room # NoRoom
  PROVE  PlayersOf(challenges[id].room) = {challenges[id].challenger, challenges[id].challenged}
<1>1. {i \in ChallengeIDs : challenges[i].room = challenges[id].room} = {id}
  BY DEF ChallengesStand
<1> QED BY <1>1 DEF PlayersOf

(* What keeps the agreement: whoever played in a room still does, and what *)
(* was accepted still is.                                                  *)
LEMMA AgreementGoesOn ==
  ASSUME Agreement, RoomTypes', ChallengesStand', RoomsInBounds', EmptyUntilMade',
         \A r \in RoomIDs :
           /\ rooms'[r].players = rooms[r].players
           /\ Known(r) =>
                \A i \in DOMAIN rooms'[r].actions : rooms'[r].actions[i].from \in rooms[r].players,
         \A id \in ChallengeIDs : challenges[id].status = "accepted" =>
           /\ challenges'[id].status = "accepted" /\ challenges'[id].room = challenges[id].room
           /\ challenges'[id].challenger = challenges[id].challenger
           /\ challenges'[id].challenged = challenges[id].challenged,
         \A k \in ConnIDs : conn'[k].room # NoRoom =>
           conn'[k].room \in RoomIDs /\ conn'[k].user \in rooms[conn'[k].room].players
  PROVE  Agreement'
<1>1. ASSUME NEW r \in RoomIDs, Known(r)'
      PROVE  /\ \E id \in ChallengeIDs :
                  /\ challenges'[id].status = "accepted"
                  /\ challenges'[id].room = r
                  /\ rooms'[r].players = {challenges'[id].challenger, challenges'[id].challenged}
             /\ Cardinality(rooms'[r].players) = 2
             /\ \A i \in DOMAIN rooms'[r].actions : rooms'[r].actions[i].from \in rooms'[r].players
  <2>1. Known(r) /\ rooms'[r].players = rooms[r].players
    BY <1>1 DEF Known
  <2>2. PICK id \in ChallengeIDs :
          /\ challenges[id].status = "accepted"
          /\ challenges[id].room = r
          /\ rooms[r].players = {challenges[id].challenger, challenges[id].challenged}
    BY <2>1 DEF Agreement, RoomsAreAgreed
  <2>3. Cardinality(rooms[r].players) = 2
    BY <2>1 DEF Agreement, RoomsAreAgreed
  <2> QED BY <2>1, <2>2, <2>3
<1>2. \A k \in ConnIDs : conn'[k].room # NoRoom => conn'[k].user \in rooms'[conn'[k].room].players
  OBVIOUS
<1>3. RoomsAreAgreed'
  BY <1>1, <1>2 DEF RoomsAreAgreed
<1> QED BY <1>3 DEF Agreement

(* The same, for a step that changes one room.                             *)
LEMMA RoomGoesOn ==
  ASSUME Presence, Agreement, NEW r \in RoomIDs, NEW h \in LifeOfRoom,
         rooms' = [rooms EXCEPT ![r] = h], UNCHANGED challenges,
         h.players = rooms[r].players, h.ready \subseteq h.players, Len(h.actions) <= ActionsCap,
         Known(r) \/ h.actions = <<>>, \A i \in DOMAIN h.actions : h.actions[i].from \in rooms[r].players,
         \A k \in ConnIDs : conn'[k].room = conn[k].room /\ conn'[k].user = conn[k].user
  PROVE  Agreement'
<1>1. RoomTypes'
  BY DEF Agreement, RoomTypes
<1>2. \A q \in RoomIDs : rooms'[q] = IF q = r THEN h ELSE rooms[q]
  BY DEF Agreement, RoomTypes
<1>3. RoomsInBounds' /\ EmptyUntilMade'
  BY <1>2 DEF Agreement, RoomsInBounds, EmptyUntilMade, Known
<1>4. ChallengesStand'
  BY DEF Agreement, ChallengesStand
<1>5. \A q \in RoomIDs :
        /\ rooms'[q].players = rooms[q].players
        /\ Known(q) =>
             \A i \in DOMAIN rooms'[q].actions : rooms'[q].actions[i].from \in rooms[q].players
  BY <1>2 DEF Agreement, RoomsAreAgreed
<1>6. \A k \in ConnIDs : conn'[k].room # NoRoom =>
        conn'[k].room \in RoomIDs /\ conn'[k].user \in rooms[conn'[k].room].players
  BY DEF Agreement, RoomsAreAgreed, Presence, ConnTypes, Connection
<1> QED BY <1>1, <1>3, <1>4, <1>5, <1>6, AgreementGoesOn

-----------------------------------------------------------------------------
(* What the rooms do, and what is put on their channels.                   *)

(* A participant's action finds room on the channel or is dropped.         *)
LEMMA OfferKeepsAgreement ==
  ASSUME Presence, Agreement, NEW r \in RoomIDs, NEW a \in Action, a.from \in rooms[r].players,
         rooms' = Offered(r, a), UNCHANGED challenges,
         \A k \in ConnIDs : conn'[k].room = conn[k].room /\ conn'[k].user = conn[k].user
  PROVE  Agreement'
<1> DEFINE h == Room(r)!Offered(a)
<1>1. rooms[r] \in LifeOfRoom /\ rooms' = [rooms EXCEPT ![r] = h]
  BY DEF Agreement, RoomTypes, Offered
<1>2. rooms[r].ready \subseteq rooms[r].players /\ Len(rooms[r].actions) <= ActionsCap
  BY DEF Agreement, RoomsInBounds
<1>3. Known(r) /\ \A i \in DOMAIN rooms[r].actions : rooms[r].actions[i].from \in rooms[r].players
  BY DEF Agreement, RoomsAreAgreed, Known
<1>4. CASE Len(rooms[r].actions) < ActionsCap
  <2>1. h = [players |-> rooms[r].players, status |-> rooms[r].status, ready |-> rooms[r].ready,
             actions |-> Append(rooms[r].actions, a)]
    BY <1>4 DEF Room!Offered, Room!Becomes
  <2>2. /\ rooms[r].actions \in Seq(Action)
        /\ Append(rooms[r].actions, a) \in Seq(Action)
        /\ Len(Append(rooms[r].actions, a)) = Len(rooms[r].actions) + 1
        /\ \A i \in 1 .. Len(rooms[r].actions) : Append(rooms[r].actions, a)[i] = rooms[r].actions[i]
        /\ Append(rooms[r].actions, a)[Len(rooms[r].actions) + 1] = a
    BY <1>1, AppendProperties DEF LifeOfRoom
  <2>3. \A i \in DOMAIN Append(rooms[r].actions, a) :
          Append(rooms[r].actions, a)[i].from \in rooms[r].players
    BY <1>3, <2>2
  <2>4. h \in LifeOfRoom /\ h.players = rooms[r].players /\ h.ready = rooms[r].ready
        /\ h.actions = Append(rooms[r].actions, a)
    BY <1>1, <2>1, <2>2 DEF LifeOfRoom
  <2>5. Len(h.actions) <= ActionsCap
    BY <1>4, <2>2, <2>4, CapAssumption
  <2> HIDE DEF h
  <2> QED BY <1>1, <1>2, <1>3, <2>3, <2>4, <2>5, RoomGoesOn
<1>5. CASE ~(Len(rooms[r].actions) < ActionsCap)
  <2>1. h = rooms[r]
    BY <1>5 DEF Room!Offered
  <2> HIDE DEF h
  <2> QED BY <1>1, <1>2, <1>3, <2>1, RoomGoesOn
<1> QED BY <1>4, <1>5

LEMMA TakingKeepsAgreement ==
  ASSUME Presence, Agreement, NEW r \in RoomIDs, RoomTakes(r)
  PROVE  Agreement'
<1> DEFINE h == Room(r)!Taken
           a == Head(rooms[r].actions)
           rd == IF a.type = "set_ready" THEN rooms[r].ready \cup {a.from} ELSE rooms[r].ready
           st == h.status
<1>1. /\ rooms[r] \in LifeOfRoom /\ rooms' = [rooms EXCEPT ![r] = h]
      /\ rooms[r].actions # <<>> /\ rooms[r].status \in {"waiting", "in_progress"}
      /\ UNCHANGED <<conn, challenges>>
  BY DEF Agreement, RoomTypes, RoomTakes, Room!MayTake, Room!Alive
<1>2. rooms[r].ready \subseteq rooms[r].players /\ Len(rooms[r].actions) <= ActionsCap
  BY DEF Agreement, RoomsInBounds
<1>3. /\ rooms[r].actions \in Seq(Action)
      /\ Tail(rooms[r].actions) \in Seq(Action)
      /\ Len(Tail(rooms[r].actions)) = Len(rooms[r].actions) - 1
      /\ Len(rooms[r].actions) \in Nat \ {0}
      /\ \A i \in 1 .. Len(rooms[r].actions) - 1 : Tail(rooms[r].actions)[i] = rooms[r].actions[i + 1]
      /\ a = rooms[r].actions[1] /\ a \in Action
  BY <1>1, HeadTailProperties, EmptySeq DEF LifeOfRoom
<1>4. Known(r) /\ \A i \in DOMAIN rooms[r].actions : rooms[r].actions[i].from \in rooms[r].players
  BY <1>1 DEF Agreement, EmptyUntilMade, RoomsAreAgreed
<1>5. a.from \in rooms[r].players /\ rooms[r].players \in SUBSET Users
  BY <1>1, <1>3, <1>4 DEF LifeOfRoom
<1>6. PICK s \in {"waiting", "in_progress", "completed", "abandoned"} :
        h = [players |-> rooms[r].players, status |-> s, ready |-> rd, actions |-> Tail(rooms[r].actions)]
  BY <1>1 DEF Room!Taken, Room!Becomes
<1>7. rd \in SUBSET rooms[r].players
  BY <1>2, <1>5
<1>8. /\ h \in LifeOfRoom /\ h.players = rooms[r].players /\ h.ready = rd
      /\ h.actions = Tail(rooms[r].actions)
  BY <1>3, <1>5, <1>6, <1>7 DEF LifeOfRoom
<1>9. Len(h.actions) <= ActionsCap
  BY <1>2, <1>3, <1>8, CapAssumption
<1>10. \A i \in DOMAIN h.actions : h.actions[i].from \in rooms[r].players
  <2>1. DOMAIN h.actions = 1 .. Len(rooms[r].actions) - 1
        /\ DOMAIN rooms[r].actions = 1 .. Len(rooms[r].actions)
    BY <1>3, <1>8
  <2> QED BY <1>3, <1>4, <1>8, <2>1
<1> HIDE DEF h, rd
<1> QED BY <1>1, <1>4, <1>7, <1>8, <1>9, <1>10, RoomGoesOn

LEMMA PlayingKeepsAgreement ==
  ASSUME Presence, Agreement, NEW r \in RoomIDs, MatchIsPlayed(r)
  PROVE  Agreement'
<1> DEFINE h == Room(r)!Played
<1>1. /\ rooms[r] \in LifeOfRoom /\ rooms' = [rooms EXCEPT ![r] = h] /\ rooms[r].status = "in_progress"
      /\ UNCHANGED <<conn, challenges>>
  BY DEF Agreement, RoomTypes, MatchIsPlayed, Room!MayEnd
<1>2. /\ h \in LifeOfRoom /\ h.players = rooms[r].players /\ h.ready = rooms[r].ready
      /\ h.actions = rooms[r].actions
  BY <1>1 DEF Room!Played, Room!Becomes, LifeOfRoom
<1>3. rooms[r].ready \subseteq rooms[r].players /\ Len(rooms[r].actions) <= ActionsCap
  BY DEF Agreement, RoomsInBounds
<1>4. /\ Known(r) \/ rooms[r].actions = <<>>
      /\ \A i \in DOMAIN rooms[r].actions : rooms[r].actions[i].from \in rooms[r].players
  BY DEF Agreement, EmptyUntilMade, RoomsAreAgreed
<1> HIDE DEF h
<1> QED BY <1>1, <1>2, <1>3, <1>4, RoomGoesOn

-----------------------------------------------------------------------------
(* What happens to challenges.                                             *)

(* A step of the challenge manager: rooms and seats stay as they are.      *)
LEMMA ManagerGoesOn ==
  ASSUME Presence, Agreement, ChallengesStand', challenges' \in [ChallengeIDs -> Challenge],
         UNCHANGED rooms,
         \A k \in ConnIDs : conn'[k].room = conn[k].room /\ conn'[k].user = conn[k].user,
         \A id \in ChallengeIDs : challenges[id].status = "accepted" =>
           /\ challenges'[id].status = "accepted" /\ challenges'[id].room = challenges[id].room
           /\ challenges'[id].challenger = challenges[id].challenger
           /\ challenges'[id].challenged = challenges[id].challenged
  PROVE  Agreement'
<1>1. RoomTypes' /\ RoomsInBounds' /\ EmptyUntilMade'
  BY DEF Agreement, RoomTypes, RoomsInBounds, EmptyUntilMade, Known
<1>2. \A r \in RoomIDs :
        /\ rooms'[r].players = rooms[r].players
        /\ Known(r) =>
             \A i \in DOMAIN rooms'[r].actions : rooms'[r].actions[i].from \in rooms[r].players
  BY DEF Agreement, RoomsAreAgreed
<1>3. \A k \in ConnIDs : conn'[k].room # NoRoom =>
        conn'[k].room \in RoomIDs /\ conn'[k].user \in rooms[conn'[k].room].players
  BY DEF Agreement, RoomsAreAgreed, Presence, ConnTypes, Connection
<1> QED BY <1>1, <1>2, <1>3, AgreementGoesOn

LEMMA CreateKeepsAgreement ==
  ASSUME Presence, Agreement, NEW id \in ChallengeIDs, NEW p \in Users, NEW q \in Users,
         Challenged!Create(id, p, q), UNCHANGED rooms,
         \A k \in ConnIDs : conn'[k].room = conn[k].room /\ conn'[k].user = conn[k].user
  PROVE  Agreement'
<1> DEFINE c == [Challenged!NoChallenge EXCEPT !.challenger = p, !.challenged = q, !.status = "pending"]
<1>1. p # q /\ challenges[id] = Challenged!NoChallenge /\ challenges' = [challenges EXCEPT ![id] = c]
  BY DEF Challenged!Create
<1>2. challenges[id].status = "none" /\ challenges[id].room = NoRoom
  BY <1>1 DEF Challenged!NoChallenge
<1>3. /\ c \in Challenge /\ c.status = "pending" /\ c.room = NoRoom
      /\ c.challenger = p /\ c.challenged = q
  BY DEF Challenged!NoChallenge, Challenge
<1> HIDE DEF c
<1>4. /\ challenges' \in [ChallengeIDs -> Challenge]
      /\ \A i \in ChallengeIDs : challenges'[i] = IF i = id THEN c ELSE challenges[i]
  BY <1>1, <1>3 DEF Agreement, RoomTypes
<1>5. ChallengesStand'
  BY <1>1, <1>2, <1>3, <1>4 DEF Agreement, ChallengesStand
<1> QED BY <1>2, <1>4, <1>5, ManagerGoesOn

LEMMA AcceptKeepsAgreement ==
  ASSUME Presence, Agreement, NEW k \in ConnIDs, NEW id \in ChallengeIDs, AcceptChallenge(k, id)
  PROVE  Agreement'
<1>1. PICK r \in RoomIDs \ Challenged!UsedRooms :
        /\ challenges' = [challenges EXCEPT ![id].status = "accepted", ![id].room = r]
        /\ conn' = [conn EXCEPT ![k].stage = "creating", ![k].accepted = challenges'[id].room]
        /\ challenges[id].status = "pending" /\ UNCHANGED rooms
  BY DEF AcceptChallenge, Challenged!Accept, Challenged!Answerable, Challenged!Pending
<1>2. \A i \in ChallengeIDs : challenges[i].room # r
  BY <1>1 DEF Challenged!UsedRooms
<1>3. /\ challenges' \in [ChallengeIDs -> Challenge]
      /\ \A i \in ChallengeIDs :
           /\ challenges'[i].status = IF i = id THEN "accepted" ELSE challenges[i].status
           /\ challenges'[i].room = IF i = id THEN r ELSE challenges[i].room
           /\ challenges'[i].challenger = challenges[i].challenger
           /\ challenges'[i].challenged = challenges[i].challenged
  <2> DEFINE c == [challenges[id] EXCEPT !.status = "accepted", !.room = r]
  <2>1. challenges \in [ChallengeIDs -> Challenge]
    BY DEF Agreement, RoomTypes
  <2>2. /\ c \in Challenge /\ c.status = "accepted" /\ c.room = r
        /\ c.challenger = challenges[id].challenger /\ c.challenged = challenges[id].challenged
    BY <2>1 DEF Challenge
  <2>3. challenges' = [challenges EXCEPT ![id] = c]
    BY <1>1, <2>1
  <2> HIDE DEF c
  <2> QED BY <2>1, <2>2, <2>3
<1>4. ChallengesStand'
  BY <1>1, <1>2, <1>3 DEF Agreement, ChallengesStand
<1>5. \A j \in ConnIDs : conn'[j].room = conn[j].room /\ conn'[j].user = conn[j].user
  BY <1>1 DEF Presence, ConnTypes, Connection
<1> QED BY <1>1, <1>3, <1>4, <1>5, ManagerGoesOn

LEMMA DeclineKeepsAgreement ==
  ASSUME Presence, Agreement, NEW id \in ChallengeIDs, NEW u, Challenged!Decline(id, u), UNCHANGED hubVars
  PROVE  Agreement'
<1>1. /\ challenges' = [challenges EXCEPT ![id].status = "declined"]
      /\ challenges[id].status = "pending"
  BY DEF Challenged!Decline, Challenged!Answerable, Challenged!Pending
<1>2. /\ challenges' \in [ChallengeIDs -> Challenge]
      /\ \A i \in ChallengeIDs :
           /\ challenges'[i].status = IF i = id THEN "declined" ELSE challenges[i].status
           /\ challenges'[i].room = challenges[i].room
           /\ challenges'[i].challenger = challenges[i].challenger
           /\ challenges'[i].challenged = challenges[i].challenged
  BY <1>1 DEF Agreement, RoomTypes, Challenge
<1>3. ChallengesStand'
  BY <1>1, <1>2 DEF Agreement, ChallengesStand
<1> QED BY <1>1, <1>2, <1>3, ManagerGoesOn DEF hubVars

LEMMA AgeKeepsAgreement ==
  ASSUME Presence, Agreement, ChallengesAge
  PROVE  Agreement'
<1>1. CASE Challenged!Sweep
  <2>1. /\ challenges' \in [ChallengeIDs -> Challenge]
        /\ \A i \in ChallengeIDs :
             /\ challenges'[i].status = challenges[i].status
                \/ (challenges[i].status = "pending" /\ challenges'[i].status = "expired")
             /\ challenges'[i].room = challenges[i].room
             /\ challenges'[i].challenger = challenges[i].challenger
             /\ challenges'[i].challenged = challenges[i].challenged
    BY <1>1 DEF Agreement, RoomTypes, Challenge, Challenged!Sweep, Challenged!Sweepable,
       Challenged!Overdue, Challenged!Pending
  <2>2. ChallengesStand'
    BY <2>1 DEF Agreement, ChallengesStand
  <2> QED BY <2>1, <2>2, ManagerGoesOn DEF ChallengesAge, hubVars
<1>2. ASSUME NEW id \in ChallengeIDs, Challenged!MinutePasses(id) \/ Challenged!NotifyExpired(id)
      PROVE  Agreement'
  <2>1. /\ challenges' \in [ChallengeIDs -> Challenge]
        /\ \A i \in ChallengeIDs :
             /\ challenges'[i].status = challenges[i].status
             /\ challenges'[i].room = challenges[i].room
             /\ challenges'[i].challenger = challenges[i].challenger
             /\ challenges'[i].challenged = challenges[i].challenged
    <3>1. CASE Challenged!MinutePasses(id)
      BY <3>1 DEF Agreement, RoomTypes, Challenge, Challenged!MinutePasses
    <3>2. CASE Challenged!NotifyExpired(id)
      BY <3>2 DEF Agreement, RoomTypes, Challenged!NotifyExpired
    <3> QED BY <1>2, <3>1, <3>2
  <2>2. ChallengesStand'
    BY <2>1 DEF Agreement, ChallengesStand
  <2> QED BY <2>1, <2>2, ManagerGoesOn DEF ChallengesAge, hubVars
<1> QED BY <1>1, <1>2 DEF ChallengesAge

-----------------------------------------------------------------------------
(* Who sits where.                                                         *)

LEMMA SeatsKeepAgreement ==
  ASSUME Agreement, UNCHANGED <<rooms, challenges>>,
         \A k \in ConnIDs : conn'[k].room # NoRoom =>
           conn'[k].room \in RoomIDs /\ conn'[k].user \in rooms[conn'[k].room].players
  PROVE  Agreement'
<1>1. RoomTypes' /\ ChallengesStand' /\ RoomsInBounds' /\ EmptyUntilMade'
  BY DEF Agreement, RoomTypes, ChallengesStand, RoomsInBounds, EmptyUntilMade, Known
<1>2. \A r \in RoomIDs :
        /\ rooms'[r].players = rooms[r].players
        /\ Known(r) =>
             \A i \in DOMAIN rooms'[r].actions : rooms'[r].actions[i].from \in rooms[r].players
  BY DEF Agreement, RoomsAreAgreed
<1> QED BY <1>1, <1>2, AgreementGoesOn

(* Nobody changes seats.                                                   *)
LEMMA SittingStill ==
  ASSUME Presence, Agreement, UNCHANGED <<rooms, challenges>>,
         \A k \in ConnIDs : conn'[k].room = conn[k].room /\ conn'[k].user = conn[k].user
  PROVE  Agreement'
<1>1. \A k \in ConnIDs : conn'[k].room # NoRoom =>
        conn'[k].room \in RoomIDs /\ conn'[k].user \in rooms[conn'[k].room].players
  BY DEF Agreement, RoomsAreAgreed, Presence, ConnTypes, Connection
<1> QED BY <1>1, SeatsKeepAgreement

LEMMA ConnectKeepsAgreement ==
  ASSUME Presence, Agreement, NEW k \in ConnIDs, NEW u \in Users, Connect(k, u)
  PROVE  Agreement'
<1> DEFINE new(r) == [NoConnection EXCEPT !.user = u, !.stage = "starting", !.open = TRUE,
                                          !.sendOpen = TRUE, !.room = r]
<1>1. PICK r \in RoomsOf(u) \cup {NoRoom} : conn' = [CloseReplaced(u) EXCEPT ![k] = new(r)]
  BY DEF Connect, RoomsToResync
<1>2. new(r).user = u /\ new(r).room = r
  BY DEF NoConnection
<1> HIDE DEF new
<1>3. /\ DOMAIN CloseReplaced(u) = ConnIDs
      /\ \A j \in ConnIDs : CloseReplaced(u)[j].room = conn[j].room /\ CloseReplaced(u)[j].user = conn[j].user
  BY NobodyThere DEF CloseReplaced, Presence, ConnTypes, Connection
<1>4. /\ conn'[k].room = r /\ conn'[k].user = u
      /\ \A j \in ConnIDs \ {k} : conn'[j].room = conn[j].room /\ conn'[j].user = conn[j].user
  BY <1>1, <1>2, <1>3
<1>5. r # NoRoom => r \in RoomIDs /\ u \in rooms[r].players
  BY DEF RoomsOf
<1>6. \A j \in ConnIDs : conn'[j].room # NoRoom =>
        conn'[j].room \in RoomIDs /\ conn'[j].user \in rooms[conn'[j].room].players
  BY <1>4, <1>5 DEF Agreement, RoomsAreAgreed, Presence, ConnTypes, Connection
<1> QED BY <1>6, SeatsKeepAgreement DEF Connect

LEMMA AttachKeepsAgreement ==
  ASSUME Presence, Agreement, NEW k \in ConnIDs, AttachPlayers(k)
  PROVE  Agreement'
<1> DEFINE r == conn[k].accepted
           seated == {clients[u] : u \in rooms[r].players}
<1>1. conn' = [j \in ConnIDs |->
                 [conn[j] EXCEPT !.room = IF j \in seated THEN r ELSE @,
                                 !.stage = IF j = k THEN "reading" ELSE @,
                                 !.accepted = IF j = k THEN NoRoom ELSE @]]
  BY DEF AttachPlayers, Attach
<1>2. conn \in [ConnIDs -> Connection] /\ r \in RoomIDs \cup {NoRoom}
  BY DEF Presence, ConnTypes, Connection
<1>3. ASSUME NEW j \in ConnIDs, j \in seated, r # NoRoom
      PROVE  conn[j].user \in rooms[r].players
  <2>1. PICK u \in rooms[r].players : clients[u] = j
    BY <1>3
  <2>2. u \in Users
    BY <1>2, <1>3, <2>1 DEF Agreement, RoomTypes, LifeOfRoom
  <2>3. conn[j].user = u
    BY <2>1, <2>2, NobodyThere DEF Presence, RegistryIsPresence
  <2> QED BY <2>3
<1> HIDE DEF r, seated
<1>4. \A j \in ConnIDs : /\ conn'[j].room = IF j \in seated THEN r ELSE conn[j].room
                         /\ conn'[j].user = conn[j].user
  BY <1>1, <1>2 DEF Connection
<1>5. \A j \in ConnIDs : conn'[j].room # NoRoom =>
        conn'[j].room \in RoomIDs /\ conn'[j].user \in rooms[conn'[j].room].players
  BY <1>2, <1>3, <1>4 DEF Agreement, RoomsAreAgreed, Presence, ConnTypes, Connection
<1> QED BY <1>5, SeatsKeepAgreement DEF AttachPlayers, Attach

LEMMA NewRoomTyped ==
  ASSUME NEW P \in SUBSET Users
  PROVE  [NoSuchRoom EXCEPT !.players = P, !.status = "waiting"] \in LifeOfRoom
<1>1. NoSuchRoom \in LifeOfRoom
  BY DEF NoSuchRoom, LifeOfRoom
<1> HIDE DEF NoSuchRoom
<1> QED BY <1>1 DEF LifeOfRoom

(* createRoom: the room is of the challenge that was accepted for it, and  *)
(* making it again would change nothing about who plays in it.             *)
LEMMA CreateRoomKeepsAgreement ==
  ASSUME Presence, Agreement, NEW k \in ConnIDs, CreateRoom(k)
  PROVE  Agreement'
<1> DEFINE a == conn[k].accepted
           h == [NoSuchRoom EXCEPT !.players = PlayersOf(a), !.status = "waiting"]
<1>1. /\ rooms' = [rooms EXCEPT ![a] = h] /\ UNCHANGED challenges
      /\ conn' = [conn EXCEPT ![k].stage = "attaching"]
  BY DEF CreateRoom
<1>2. a \in RoomIDs \cup {NoRoom}
  BY DEF Presence, ConnTypes, Connection
<1>3. \A j \in ConnIDs : conn'[j].room = conn[j].room /\ conn'[j].user = conn[j].user
  BY <1>1 DEF Presence, ConnTypes, Connection
<1>4. CASE a = NoRoom
  <2>1. rooms' = rooms
    BY <1>1, <1>4, NobodyThere DEF Agreement, RoomTypes
  <2> QED BY <1>1, <1>3, <2>1, SittingStill
<1>5. CASE a \in RoomIDs
  <2>1. h.players = PlayersOf(a) /\ h.ready = {} /\ h.actions = <<>>
    BY DEF NoSuchRoom
  <2>2. ASSUME PlayersOf(a) # {}
        PROVE  \E id \in ChallengeIDs :
                 /\ challenges[id].status = "accepted" /\ challenges[id].room = a
                 /\ PlayersOf(a) = {challenges[id].challenger, challenges[id].challenged}
                 /\ Cardinality(PlayersOf(a)) = 2 /\ PlayersOf(a) \subseteq Users
    <3>1. PICK id \in ChallengeIDs : challenges[id].room = a
      BY <2>2 DEF PlayersOf
    <3>2. challenges[id].room # NoRoom /\ ChallengesStand
      BY <1>5, <3>1, NobodyThere DEF Agreement
    <3>3. /\ challenges[id].status = "accepted"
          /\ challenges[id].challenger # challenges[id].challenged
          /\ challenges[id].challenger \in Users /\ challenges[id].challenged \in Users
      BY <3>2 DEF ChallengesStand
    <3>4. PlayersOf(a) = {challenges[id].challenger, challenges[id].challenged}
      BY <3>1, <3>2, PlayersAreTheChallenges
    <3>5. Cardinality({challenges[id].challenger, challenges[id].challenged}) = 2
      BY <3>3, Pair
    <3> HIDE DEF a
    <3> QED BY <3>1, <3>3, <3>4, <3>5
  <2>3. ASSUME Known(a)
        PROVE  rooms[a].players = PlayersOf(a)
    <3>1. PICK id \in ChallengeIDs :
            /\ challenges[id].room = a
            /\ rooms[a].players = {challenges[id].challenger, challenges[id].challenged}
      BY <1>5, <2>3 DEF Agreement, RoomsAreAgreed
    <3>2. challenges[id].room # NoRoom /\ ChallengesStand
      BY <1>5, <3>1, NobodyThere DEF Agreement
    <3> QED BY <3>1, <3>2, PlayersAreTheChallenges
  <2>4. h \in LifeOfRoom
    <3>1. PlayersOf(a) \in SUBSET Users
      BY <2>2
    <3> QED BY <3>1, NewRoomTyped
  <2> HIDE DEF h, a
  <2>5. rooms \in [RoomIDs -> LifeOfRoom] /\ \A r \in RoomIDs : rooms'[r] = IF r = a THEN h ELSE rooms[r]
    BY <1>1 DEF Agreement, RoomTypes
  <2>6. RoomTypes' /\ ChallengesStand'
    BY <1>1, <1>5, <2>4, <2>5 DEF Agreement, RoomTypes, ChallengesStand
  <2>7. RoomsInBounds' /\ EmptyUntilMade'
    BY <2>1, <2>5, CapAssumption DEF Agreement, RoomsInBounds, EmptyUntilMade, Known
  <2>8. ASSUME NEW r \in RoomIDs, Known(r)'
        PROVE  /\ \E id \in ChallengeIDs :
                    /\ challenges[id].status = "accepted"
                    /\ challenges[id].room = r
                    /\ rooms'[r].players = {challenges[id].challenger, challenges[id].challenged}
               /\ Cardinality(rooms'[r].players) = 2
               /\ \A i \in DOMAIN rooms'[r].actions : rooms'[r].actions[i].from \in rooms'[r].players
    <3>1. CASE r = a
      BY <2>1, <2>2, <2>5, <2>8, <3>1 DEF Known
    <3>2. CASE r # a
      BY <2>5, <2>8, <3>2 DEF Known, Agreement, RoomsAreAgreed
    <3> QED BY <3>1, <3>2
  <2>9. ASSUME NEW j \in ConnIDs, conn[j].room # NoRoom
        PROVE  conn[j].user \in rooms'[conn[j].room].players
    <3>1. conn[j].user \in rooms[conn[j].room].players /\ conn[j].room \in RoomIDs
      BY <2>9 DEF Agreement, RoomsAreAgreed, Presence, ConnTypes, Connection
    <3>2. CASE conn[j].room = a
      BY <1>5, <2>1, <2>3, <2>5, <3>1, <3>2 DEF Known
    <3>3. CASE conn[j].room # a
      BY <2>5, <3>1, <3>3
    <3> QED BY <3>2, <3>3
  <2>10. RoomsAreAgreed'
    BY <1>1, <1>3, <2>8, <2>9 DEF RoomsAreAgreed
  <2> QED BY <2>6, <2>7, <2>10 DEF Agreement
<1> QED BY <1>2, <1>4, <1>5

-----------------------------------------------------------------------------
(* The invariant.                                                          *)

HubInv == Presence /\ Agreement

LEMMA InitHubInv ==
  ASSUME Init
  PROVE  HubInv
<1>1. /\ challenges = [id \in ChallengeIDs |-> Challenged!NoChallenge]
      /\ conn = [k \in ConnIDs |-> NoConnection] /\ clients = [u \in Users |-> NoConn]
      /\ rooms = [r \in RoomIDs |-> NoSuchRoom]
  BY DEF Init, Challenged!Init
<1>2. /\ NoSuchRoom \in LifeOfRoom /\ NoSuchRoom.players = {} /\ NoSuchRoom.ready = {}
      /\ NoSuchRoom.actions = <<>>
  BY DEF NoSuchRoom, LifeOfRoom
<1>3. /\ Challenged!NoChallenge \in Challenge /\ Challenged!NoChallenge.status = "none"
      /\ Challenged!NoChallenge.room = NoRoom
  BY DEF Challenged!NoChallenge, Challenge
<1> HIDE DEF NoSuchRoom, NoConnection, Challenged!NoChallenge
<1>4. Presence
  BY <1>1, NobodyThere DEF Presence, ConnTypes, TakenApartInOrder, RegistryIsPresence, TearDown, Unregistered
<1>5. RoomTypes /\ ChallengesStand
  BY <1>1, <1>2, <1>3 DEF RoomTypes, ChallengesStand
<1>6. RoomsInBounds /\ EmptyUntilMade
  BY <1>1, <1>2, CapAssumption DEF RoomsInBounds, EmptyUntilMade
<1>7. RoomsAreAgreed
  BY <1>1, <1>2, NobodyThere DEF RoomsAreAgreed, Known
<1> QED BY <1>4, <1>5, <1>6, <1>7 DEF HubInv, Agreement

LEMMA ProceedKeepsHubInv ==
  ASSUME HubInv, NEW k \in ConnIDs, Proceed(k)
  PROVE  HubInv'
<1>1. Presence /\ Agreement
  BY DEF HubInv
<1>2. CASE StartReading(k)
  <2> DEFINE r == conn[k].room
             a == [from |-> conn[k].user, type |-> "resync"]
  <2>1. /\ conn[k].stage = "starting" /\ conn' = [conn EXCEPT ![k].stage = "reading"]
        /\ UNCHANGED <<clients, challenges>>
    BY <1>2 DEF StartReading
  <2>2. Presence'
    BY <1>1, <2>1, GoesOn DEF Stages, TearDown, Unregistered
  <2>3. \A j \in ConnIDs : conn'[j].room = conn[j].room /\ conn'[j].user = conn[j].user
    BY <1>1, <2>1 DEF Presence, ConnTypes, Connection
  <2>4. CASE r = NoRoom /\ UNCHANGED rooms
    BY <1>1, <2>1, <2>2, <2>3, <2>4, SittingStill DEF HubInv
  <2>5. CASE r # NoRoom /\ rooms' = Offered(r, a)
    <3>1. r \in RoomIDs /\ conn[k].user \in rooms[r].players /\ a \in Action
      BY <1>1, <2>1, <2>5 DEF Presence, ConnTypes, Connection, TakenApartInOrder,
         Agreement, RoomsAreAgreed, Action, ActionTypes
    <3>2. a.from \in rooms[r].players
      BY <3>1
    <3> QED BY <1>1, <2>1, <2>2, <2>3, <2>5, <3>1, <3>2, OfferKeepsAgreement DEF HubInv
  <2> QED BY <1>2, <2>4, <2>5 DEF StartReading
<1>3. CASE ReadFails(k)
  <2>1. /\ conn[k].stage = "reading" /\ ~conn[k].open
        /\ conn' = [conn EXCEPT ![k].stage = "unregistering"]
        /\ UNCHANGED <<clients, rooms, challenges>>
    BY <1>3 DEF ReadFails
  <2>2. Presence'
    BY <1>1, <2>1, GoesOn DEF Stages, TearDown, Unregistered
  <2>3. \A j \in ConnIDs : conn'[j].room = conn[j].room /\ conn'[j].user = conn[j].user
    BY <1>1, <2>1 DEF Presence, ConnTypes, Connection
  <2> QED BY <1>1, <2>1, <2>2, <2>3, SittingStill DEF HubInv
<1>4. CASE RemoveClient(k)
  <2>1. Presence'
    BY <1>1, <1>4, RemovalKeepsPresence
  <2>2. \A j \in ConnIDs : conn'[j].room = conn[j].room /\ conn'[j].user = conn[j].user
    BY <1>1, <1>4 DEF RemoveClient, Presence, ConnTypes, Connection
  <2>3. UNCHANGED <<rooms, challenges>>
    BY <1>4 DEF RemoveClient
  <2> QED BY <1>1, <2>1, <2>2, <2>3, SittingStill DEF HubInv
<1>5. CASE SendLeave(k)
  <2> DEFINE r == conn[k].room
             a == [from |-> conn[k].user, type |-> "leave_room"]
  <2>1. /\ conn[k].stage = "leaving" /\ conn' = [conn EXCEPT ![k].stage = "done"]
        /\ UNCHANGED <<clients, challenges>>
        /\ rooms' = IF r = NoRoom THEN rooms ELSE Offered(r, a)
    BY <1>5 DEF SendLeave
  <2>2. ~conn[k].open
    BY <1>1, <2>1 DEF Presence, TakenApartInOrder, TearDown
  <2>3. Presence'
    BY <1>1, <2>1, <2>2, GoesOn DEF Stages, TearDown, Unregistered
  <2>4. \A j \in ConnIDs : conn'[j].room = conn[j].room /\ conn'[j].user = conn[j].user
    BY <1>1, <2>1 DEF Presence, ConnTypes, Connection
  <2>5. CASE r = NoRoom
    BY <1>1, <2>1, <2>3, <2>4, <2>5, SittingStill DEF HubInv
  <2>6. CASE r # NoRoom
    <3>1. r \in RoomIDs /\ conn[k].user \in rooms[r].players /\ a \in Action
      BY <1>1, <2>1, <2>6 DEF Presence, ConnTypes, Connection, TakenApartInOrder,
         Agreement, RoomsAreAgreed, Action, ActionTypes
    <3>2. a.from \in rooms[r].players
      BY <3>1
    <3> QED BY <1>1, <2>1, <2>3, <2>4, <2>6, <3>1, <3>2, OfferKeepsAgreement DEF HubInv
  <2> QED BY <2>5, <2>6
<1>6. CASE CreateRoom(k)
  <2>1. conn[k].stage = "creating" /\ conn' = [conn EXCEPT ![k].stage = "attaching"] /\ UNCHANGED clients
    BY <1>6 DEF CreateRoom
  <2>2. Presence'
    BY <1>1, <2>1, GoesOn DEF Stages, TearDown, Unregistered
  <2> QED BY <1>1, <1>6, <2>2, CreateRoomKeepsAgreement DEF HubInv
<1>7. CASE AttachPlayers(k)
  BY <1>1, <1>7, AttachKeepsPresence, AttachKeepsAgreement DEF HubInv
<1> QED BY <1>2, <1>3, <1>4, <1>5, <1>6, <1>7 DEF Proceed

LEMMA PresenceSame ==
  ASSUME Presence, UNCHANGED <<conn, clients>>
  PROVE  Presence'
BY DEF Presence, ConnTypes, TakenApartInOrder, RegistryIsPresence

LEMMA DispatchKeepsHubInv ==
  ASSUME HubInv, NEW k \in ConnIDs,
         \/ SocketFails(k)
         \/ \E u \in Users : Connect(k, u)
         \/ Considers(k)
         \/ \E id \in ChallengeIDs : AcceptChallenge(k, id) \/ DeclineChallenge(k, id)
         \/ \E r \in RoomIDs, t \in ActionTypes : Forward(k, r, t)
  PROVE  HubInv'
<1>1. Presence /\ Agreement
  BY DEF HubInv
<1>2. CASE SocketFails(k)
  <2>1. \A j \in ConnIDs : conn'[j].room = conn[j].room /\ conn'[j].user = conn[j].user
    BY <1>1, <1>2 DEF SocketFails, Presence, ConnTypes, Connection
  <2>2. UNCHANGED <<rooms, challenges>>
    BY <1>2 DEF SocketFails
  <2> QED BY <1>1, <1>2, <2>1, <2>2, FailureKeepsPresence, SittingStill DEF HubInv
<1>3. ASSUME NEW u \in Users, Connect(k, u)
      PROVE  HubInv'
  BY <1>1, <1>3, ConnectKeepsPresence, ConnectKeepsAgreement DEF HubInv
<1>4. CASE Considers(k)
  <2>1. /\ UNCHANGED rooms
        /\ \A j \in ConnIDs : conn'[j].room = conn[j].room /\ conn'[j].user = conn[j].user
    BY <1>1, <1>4, ConsideringMovesNobody
  <2>2. ASSUME NEW id \in ChallengeIDs, NEW target \in Users, SendChallenge(k, id, target)
        PROVE  Agreement'
    <3>1. conn[k].user \in Users
      BY <1>1, <2>2 DEF SendChallenge, Presence, TakenApartInOrder
    <3>2. Challenged!Create(id, conn[k].user, target)
      BY <2>2 DEF SendChallenge
    <3> QED BY <1>1, <2>1, <3>1, <3>2, CreateKeepsAgreement
  <2>3. ASSUME UNCHANGED challenges
        PROVE  Agreement'
    BY <1>1, <2>1, <2>3, SittingStill
  <2>4. Agreement'
    BY <1>4, <2>2, <2>3 DEF Considers, ChallengeRefused, LookUpTarget
  <2> QED BY <1>1, <1>4, <2>4, ConsideringKeepsPresence DEF HubInv
<1>5. ASSUME NEW id \in ChallengeIDs, AcceptChallenge(k, id)
      PROVE  HubInv'
  BY <1>1, <1>5, AcceptKeepsPresence, AcceptKeepsAgreement DEF HubInv, Agreement
<1>6. ASSUME NEW id \in ChallengeIDs, DeclineChallenge(k, id)
      PROVE  HubInv'
  <2>1. Challenged!Decline(id, conn[k].user) /\ UNCHANGED hubVars
    BY <1>6 DEF DeclineChallenge
  <2>2. Agreement'
    BY <1>1, <2>1, DeclineKeepsAgreement
  <2>3. Presence'
    BY <1>1, <2>1, PresenceSame DEF hubVars
  <2> QED BY <2>2, <2>3 DEF HubInv
<1>7. ASSUME NEW r \in RoomIDs, NEW t \in ActionTypes, Forward(k, r, t)
      PROVE  HubInv'
  <2> DEFINE a == [from |-> conn[k].user, type |-> t]
  <2>1. /\ conn[k].stage # "none" /\ conn[k].user \in rooms[r].players
        /\ rooms' = Offered(r, a) /\ UNCHANGED <<conn, clients, challenges>>
    BY <1>7 DEF Forward, Reads, MayAct
  <2>2. a \in Action /\ a.from \in rooms[r].players
    BY <1>1, <2>1 DEF Presence, TakenApartInOrder, Action
  <2> HIDE DEF a
  <2>3. Agreement'
    BY <1>1, <2>1, <2>2, OfferKeepsAgreement
  <2>4. Presence'
    BY <1>1, <2>1, PresenceSame
  <2> QED BY <2>3, <2>4 DEF HubInv
<1> QED BY <1>2, <1>3, <1>4, <1>5, <1>6, <1>7

LEMMA StepHubInv ==
  ASSUME HubInv, [Next]_vars
  PROVE  HubInv'
<1>1. Presence /\ Agreement
  BY DEF HubInv
<1>2. CASE UNCHANGED vars
  <2>1. UNCHANGED <<conn, clients, rooms, challenges>>
    BY <1>2 DEF vars, hubVars
  <2> QED BY <1>1, <2>1, PresenceSame, SittingStill DEF HubInv
<1>3. ASSUME NEW k \in ConnIDs, Proceed(k)
      PROVE  HubInv'
  BY <1>3, ProceedKeepsHubInv
<1>4. ASSUME NEW r \in RoomIDs, RoomTakes(r) \/ MatchIsPlayed(r)
      PROVE  HubInv'
  <2>1. UNCHANGED <<conn, clients>>
    BY <1>4 DEF RoomTakes, MatchIsPlayed
  <2> QED BY <1>1, <1>4, <2>1, PresenceSame, TakingKeepsAgreement, PlayingKeepsAgreement DEF HubInv
<1>5. CASE ChallengesAge
  <2>1. UNCHANGED <<conn, clients>>
    BY <1>5 DEF ChallengesAge, hubVars
  <2> QED BY <1>1, <1>5, <2>1, PresenceSame, AgeKeepsAgreement DEF HubInv
<1>6. ASSUME NEW k \in ConnIDs,
             \/ SocketFails(k)
             \/ \E u \in Users : Connect(k, u)
             \/ Considers(k)
             \/ \E id \in ChallengeIDs : AcceptChallenge(k, id) \/ DeclineChallenge(k, id)
             \/ \E r \in RoomIDs, t \in ActionTypes : Forward(k, r, t)
      PROVE  HubInv'
  BY <1>6, DispatchKeepsHubInv
<1> QED BY <1>2, <1>3, <1>4, <1>5, <1>6 DEF Next, Considers

LEMMA HubInvHolds == Spec => []HubInv
<1>1. Init => HubInv
  BY InitHubInv
<1>2. HubInv /\ [Next]_vars => HubInv'
  BY StepHubInv
<1> QED BY <1>1, <1>2, PTL DEF Spec

(* The hub's maps keep their types, and the channel of a room never holds  *)
(* more actions than it has places (forwardToRoom drops the others).       *)
THEOREM TypeCorrect == Spec => []TypeOK
<1>1. HubInv => TypeOK
  <2>1. ASSUME HubInv
        PROVE  /\ conn \in [ConnIDs -> Connection] /\ clients \in [Users -> ConnIDs \cup {NoConn}]
               /\ rooms \in [RoomIDs -> LifeOfRoom] /\ RoomsInBounds
    BY <2>1 DEF HubInv, Presence, ConnTypes, Agreement, RoomTypes
  <2> QED BY <2>1 DEF TypeOK, Connection, LifeOfRoom, RoomsInBounds
<1> QED BY <1>1, HubInvHolds, PTL

(* A user has at most one open connection, the registered one, and a       *)
(* registered connection can be sent to (ServeWS and removeClient of       *)
(* hub.go), in every order of connects, failures and clean-ups.            *)
THEOREM OneConnectionEach == Spec => []RegistryIsPresence
<1>1. HubInv => RegistryIsPresence
  BY DEF HubInv, Presence
<1> QED BY <1>1, HubInvHolds, PTL

(* Every room is between the two players of one accepted challenge, and    *)
(* nobody else acts in it or is seated in it (createRoom, forwardToRoom).  *)
THEOREM RoomsComeFromChallenges == Spec => []RoomsAreAgreed
<1>1. HubInv => RoomsAreAgreed
  BY DEF HubInv, Agreement
<1> QED BY <1>1, HubInvHolds, PTL

-----------------------------------------------------------------------------
(* The composition: the challenge manager and the rooms, inside the hub,   *)
(* do only what their own modules let them do.                             *)

LEMMA StepOfManager ==
  ASSUME HubInv, [Next]_vars
  PROVE  [Challenged!Next]_Challenged!challengeVars
<1>1. CASE UNCHANGED <<challenges, toNotify>>
  BY <1>1 DEF Challenged!challengeVars
<1>2. ASSUME NEW k \in ConnIDs, NEW id \in ChallengeIDs, NEW target \in Users,
             SendChallenge(k, id, target)
      PROVE  Challenged!Next
  <2>1. conn[k].user \in Users /\ Challenged!Create(id, conn[k].user, target)
    BY <1>2 DEF SendChallenge, Reads, HubInv, Presence, TakenApartInOrder
  <2> QED BY <2>1 DEF Challenged!Next
<1>3. ASSUME NEW k \in ConnIDs, NEW id \in ChallengeIDs,
             AcceptChallenge(k, id) \/ DeclineChallenge(k, id)
      PROVE  Challenged!Next
  <2>1. conn[k].user \in Users
    BY <1>3 DEF AcceptChallenge, DeclineChallenge, Reads, HubInv, Presence, TakenApartInOrder
  <2>2. Challenged!Accept(id, conn[k].user) \/ Challenged!Decline(id, conn[k].user)
    BY <1>3 DEF AcceptChallenge, DeclineChallenge
  <2> QED BY <2>1, <2>2 DEF Challenged!Next
<1>4. CASE ChallengesAge
  BY <1>4 DEF ChallengesAge, Challenged!Next
<1>5. ASSUME NEW k \in ConnIDs, Proceed(k) \/ SocketFails(k)
      PROVE  UNCHANGED <<challenges, toNotify>>
  BY <1>5 DEF Proceed, StartReading, ReadFails, RemoveClient, SendLeave, CreateRoom, AttachPlayers, Attach,
     SocketFails
<1>6. ASSUME NEW k \in ConnIDs, NEW u \in Users, Connect(k, u)
      PROVE  UNCHANGED <<challenges, toNotify>>
  BY <1>6 DEF Connect
<1>7. ASSUME NEW k \in ConnIDs, NEW r \in RoomIDs, NEW t \in ActionTypes, Forward(k, r, t)
      PROVE  UNCHANGED <<challenges, toNotify>>
  BY <1>7 DEF Forward
<1>8. ASSUME NEW r \in RoomIDs, RoomTakes(r) \/ MatchIsPlayed(r)
      PROVE  UNCHANGED <<challenges, toNotify>>
  BY <1>8 DEF RoomTakes, MatchIsPlayed
<1>9. ASSUME NEW k \in ConnIDs, NEW u \in Users, LookUpTarget(k, u)
      PROVE  UNCHANGED <<challenges, toNotify>>
  BY <1>9 DEF LookUpTarget
<1>10. ASSUME NEW k \in ConnIDs, ChallengeRefused(k)
       PROVE  UNCHANGED <<challenges, toNotify>>
  BY <1>10 DEF ChallengeRefused
<1> QED BY <1>1, <1>2, <1>3, <1>4, <1>5, <1>6, <1>7, <1>8, <1>9, <1>10 DEF Next, vars

(* The hub drives the challenge manager (internal/lobby/challenges.go) as  *)
(* Challenges describes it: it answers for the user of the connection, and *)
(* touches the manager's state only through its methods.                   *)
THEOREM ManagerKeepsItsSpec == Spec => Challenged!Spec
<1>1. Init => Challenged!Init
  BY DEF Init
<1>2. HubInv /\ [Next]_vars => [Challenged!Next]_Challenged!challengeVars
  BY StepOfManager
<1> QED BY <1>1, <1>2, HubInvHolds, PTL DEF Spec, Challenged!Spec

(* What is proved of the manager by itself holds of the one in the hub.    *)
Manager == INSTANCE ChallengesProofs

(* Whatever connections do, and however they fail: no challenge is settled *)
(* twice, and its challenger hears of an expiry only when it is certain.   *)
THEOREM ChallengesInTheHub == Spec => Manager!SettledOnce /\ []Manager!OnlyExpiredAnnounced
<1>1. Challenged!Init => Manager!Init
  BY DEF Challenged!Init, Manager!Init, Challenged!NoChallenge, Manager!NoChallenge
<1>2. [Challenged!Next]_Challenged!challengeVars => [Manager!Next]_Manager!challengeVars
  BY DEF Challenged!Next, Manager!Next, Challenged!challengeVars, Manager!challengeVars,
     Challenged!Create, Manager!Create, Challenged!NoChallenge, Manager!NoChallenge,
     Challenged!Accept, Manager!Accept, Challenged!Decline, Manager!Decline,
     Challenged!Answerable, Manager!Answerable, Challenged!Pending, Manager!Pending,
     Challenged!UsedRooms, Manager!UsedRooms, Challenged!MinutePasses, Manager!MinutePasses,
     Challenged!NotifyExpired, Manager!NotifyExpired, Challenged!Sweep, Manager!Sweep,
     Challenged!Sweepable, Manager!Sweepable, Challenged!Overdue, Manager!Overdue
<1>3. Challenged!Spec => Manager!Spec
  BY <1>1, <1>2, PTL DEF Challenged!Spec, Manager!Spec
<1>4. Manager!Spec => Manager!SettledOnce /\ []Manager!OnlyExpiredAnnounced
  BY NothingAssumption, Manager!OneOutcome, Manager!AnnouncedIsExpired
<1> QED BY <1>3, <1>4, ManagerKeepsItsSpec, PTL

-----------------------------------------------------------------------------

(* Between accepting a challenge and making its room (createRoom takes the *)
(* lock anew) the room is not there yet, and it is nobody else's to make.  *)
RoomsMadeOnce ==
  /\ \A k \in ConnIDs : conn[k].stage = "creating" =>
       /\ conn[k].accepted \in RoomIDs /\ ~Known(conn[k].accepted)
       /\ \E id \in ChallengeIDs : challenges[id].room = conn[k].accepted
  /\ \A j, k \in ConnIDs :
       conn[j].stage = "creating" /\ conn[k].stage = "creating"
         /\ conn[j].accepted = conn[k].accepted => j = k

LEMMA InitMadeOnce ==
  ASSUME Init
  PROVE  RoomsMadeOnce
BY DEF Init, RoomsMadeOnce, NoConnection

(* A challenge that was given a room keeps it.                             *)
LEMMA RoomsStayGiven ==
  ASSUME HubInv, [Next]_vars, NEW id \in ChallengeIDs, challenges[id].room # NoRoom
  PROVE  challenges'[id].room = challenges[id].room
<1>1. /\ challenges \in [ChallengeIDs -> Challenge]
      /\ challenges[id].status = "accepted"
  BY DEF HubInv, Agreement, RoomTypes, ChallengesStand
<1>2. [Challenged!Next]_Challenged!challengeVars
  BY StepOfManager
<1>3. CASE UNCHANGED Challenged!challengeVars
  BY <1>3 DEF Challenged!challengeVars
<1>4. ASSUME NEW i \in ChallengeIDs, NEW p \in Users, NEW q \in Users, Challenged!Create(i, p, q)
      PROVE  challenges'[id] = challenges[id]
  BY <1>1, <1>4 DEF Challenged!Create, Challenged!NoChallenge
<1>5. ASSUME NEW i \in ChallengeIDs, NEW p \in Users, Challenged!Accept(i, p) \/ Challenged!Decline(i, p)
      PROVE  challenges'[id] = challenges[id]
  BY <1>1, <1>5 DEF Challenged!Accept, Challenged!Decline, Challenged!Answerable, Challenged!Pending
<1>6. ASSUME NEW i \in ChallengeIDs, Challenged!MinutePasses(i) \/ Challenged!NotifyExpired(i)
      PROVE  challenges'[id].room = challenges[id].room
  BY <1>1, <1>6 DEF Challenged!MinutePasses, Challenged!NotifyExpired, Challenge
<1>7. CASE Challenged!Sweep
  BY <1>1, <1>7 DEF Challenged!Sweep, Challenged!Sweepable, Challenge
<1> QED BY <1>2, <1>3, <1>4, <1>5, <1>6, <1>7 DEF Challenged!Next

(* A step in which nobody begins to make a room, and only rooms that are   *)
(* nobody's to make any more become known.                                 *)
LEMMA MadeOnceGoesOn ==
  ASSUME HubInv, RoomsMadeOnce, [Next]_vars,
         \A k \in ConnIDs : conn'[k].stage = "creating" =>
           /\ conn[k].stage = "creating" /\ conn'[k].accepted = conn[k].accepted
           /\ rooms'[conn[k].accepted].players = rooms[conn[k].accepted].players
  PROVE  RoomsMadeOnce'
<1>1. ASSUME NEW k \in ConnIDs, conn'[k].stage = "creating"
      PROVE  /\ conn'[k].accepted \in RoomIDs /\ rooms'[conn'[k].accepted].players = {}
             /\ \E id \in ChallengeIDs : challenges'[id].room = conn'[k].accepted
  <2>1. /\ conn[k].stage = "creating" /\ conn'[k].accepted = conn[k].accepted
        /\ rooms'[conn[k].accepted].players = rooms[conn[k].accepted].players
    BY <1>1
  <2>2. PICK id \in ChallengeIDs : challenges[id].room = conn[k].accepted
    BY <2>1 DEF RoomsMadeOnce
  <2>3. conn[k].accepted \in RoomIDs /\ ~Known(conn[k].accepted)
    BY <2>1 DEF RoomsMadeOnce
  <2>4. challenges'[id].room = conn[k].accepted
    BY <2>2, <2>3, RoomsStayGiven, NobodyThere
  <2> QED BY <2>1, <2>3, <2>4 DEF Known
<1>2. ASSUME NEW j \in ConnIDs, NEW k \in ConnIDs,
             conn'[j].stage = "creating", conn'[k].stage = "creating",
             conn'[j].accepted = conn'[k].accepted
      PROVE  j = k
  BY <1>2 DEF RoomsMadeOnce
<1> QED BY <1>1, <1>2 DEF RoomsMadeOnce, Known

(* What an offer, and what a room does by itself, leave as it is.          *)
LEMMA PlayersStay ==
  ASSUME HubInv, NEW r \in RoomIDs,
         \/ \E a \in Action : rooms' = Offered(r, a)
         \/ RoomTakes(r) \/ MatchIsPlayed(r)
  PROVE  \A q \in RoomIDs : rooms'[q].players = rooms[q].players
<1>1. PICK h : rooms' = [rooms EXCEPT ![r] = h] /\ h.players = rooms[r].players
  <2>1. ASSUME NEW a \in Action, rooms' = Offered(r, a)
        PROVE  \E h : rooms' = [rooms EXCEPT ![r] = h] /\ h.players = rooms[r].players
    <3>1. Room(r)!Offered(a).players = rooms[r].players
      BY DEF Room!Offered, Room!Becomes
    <3> QED BY <2>1, <3>1 DEF Offered
  <2>2. CASE RoomTakes(r)
    <3>1. Room(r)!Taken.players = rooms[r].players
      BY DEF Room!Taken, Room!Becomes
    <3> QED BY <2>2, <3>1 DEF RoomTakes
  <2>3. CASE MatchIsPlayed(r)
    <3>1. Room(r)!Played.players = rooms[r].players
      BY DEF Room!Played, Room!Becomes
    <3> QED BY <2>3, <3>1 DEF MatchIsPlayed
  <2> QED BY <2>1, <2>2, <2>3
<1> QED BY <1>1 DEF HubInv, Agreement, RoomTypes

LEMMA StepMadeOnce ==
  ASSUME HubInv, RoomsMadeOnce, [Next]_vars
  PROVE  RoomsMadeOnce'
<1> DEFINE Quiet == \A k \in ConnIDs : conn'[k].stage = "creating" =>
                      /\ conn[k].stage = "creating" /\ conn'[k].accepted = conn[k].accepted
                      /\ rooms'[conn[k].accepted].players = rooms[conn[k].accepted].players
<1>1. /\ conn \in [ConnIDs -> Connection]
      /\ rooms \in [RoomIDs -> LifeOfRoom]
      /\ \A k \in ConnIDs : conn[k].stage = "creating" => conn[k].accepted \in RoomIDs
  BY DEF HubInv, Presence, ConnTypes, Agreement, RoomTypes, RoomsMadeOnce
<1>2. Quiet => RoomsMadeOnce'
  BY MadeOnceGoesOn
<1>3. ASSUME NEW k \in ConnIDs, NEW id \in ChallengeIDs, AcceptChallenge(k, id)
      PROVE  RoomsMadeOnce'
  <2>1. PICK r \in RoomIDs \ Challenged!UsedRooms :
          /\ challenges' = [challenges EXCEPT ![id].status = "accepted", ![id].room = r]
          /\ conn' = [conn EXCEPT ![k].stage = "creating", ![k].accepted = challenges'[id].room]
          /\ UNCHANGED rooms
    BY <1>3 DEF AcceptChallenge, Challenged!Accept
  <2>2. challenges'[id].room = r
    BY <2>1 DEF HubInv, Agreement, RoomTypes, Challenge
  <2>3. /\ conn'[k].stage = "creating" /\ conn'[k].accepted = r
        /\ \A j \in ConnIDs \ {k} : conn'[j] = conn[j]
    BY <1>1, <2>1, <2>2 DEF Connection
  <2>4. \A i \in ChallengeIDs : challenges[i].room # r
    BY <2>1 DEF Challenged!UsedRooms
  <2>5. ~Known(r)
    BY <2>4 DEF HubInv, Agreement, RoomsAreAgreed
  <2>6. \A j \in ConnIDs : conn[j].stage = "creating" => conn[j].accepted # r
    BY <2>4 DEF RoomsMadeOnce
  <2>7. ASSUME NEW j \in ConnIDs, j # k, conn[j].stage = "creating"
        PROVE  \E i \in ChallengeIDs : challenges'[i].room = conn[j].accepted
    <3>1. PICK i \in ChallengeIDs : challenges[i].room = conn[j].accepted
      BY <2>7 DEF RoomsMadeOnce
    <3>2. challenges'[i].room = challenges[i].room
      BY <1>1, <2>7, <3>1, RoomsStayGiven, NobodyThere
    <3> QED BY <3>1, <3>2
  <2>8. ASSUME NEW j \in ConnIDs, conn'[j].stage = "creating"
        PROVE  /\ conn'[j].accepted \in RoomIDs /\ rooms'[conn'[j].accepted].players = {}
               /\ \E i \in ChallengeIDs : challenges'[i].room = conn'[j].accepted
    <3>1. CASE j = k
      BY <2>1, <2>2, <2>3, <2>5, <3>1 DEF Known
    <3>2. CASE j # k
      <4>1. conn'[j] = conn[j] /\ rooms' = rooms
        BY <2>1, <2>3, <3>2
      <4>2. conn[j].stage = "creating"
        BY <2>8, <4>1
      <4>3. conn[j].accepted \in RoomIDs /\ rooms[conn[j].accepted].players = {}
        BY <4>2 DEF RoomsMadeOnce, Known
      <4>4. \E i \in ChallengeIDs : challenges'[i].room = conn[j].accepted
        BY <2>7, <3>2, <4>2
      <4> QED BY <4>1, <4>3, <4>4
    <3> QED BY <3>1, <3>2
  <2>9. ASSUME NEW i \in ConnIDs, NEW j \in ConnIDs, conn'[i].stage = "creating",
               conn'[j].stage = "creating", conn'[i].accepted = conn'[j].accepted
        PROVE  i = j
    BY <2>3, <2>6, <2>9 DEF RoomsMadeOnce
  <2> QED BY <2>8, <2>9 DEF RoomsMadeOnce, Known
<1>4. ASSUME NEW k \in ConnIDs, CreateRoom(k)
      PROVE  Quiet
  <2>1. /\ conn[k].stage = "creating" /\ conn' = [conn EXCEPT ![k].stage = "attaching"]
        /\ \E h : rooms' = [rooms EXCEPT ![conn[k].accepted] = h]
    BY <1>4 DEF CreateRoom
  <2>2. /\ conn'[k].stage = "attaching" /\ \A j \in ConnIDs \ {k} : conn'[j] = conn[j]
    BY <1>1, <2>1 DEF Connection
  <2>3. \A j \in ConnIDs \ {k} : conn[j].stage = "creating" => conn[j].accepted # conn[k].accepted
    BY <2>1 DEF RoomsMadeOnce
  <2> QED BY <1>1, <2>1, <2>2, <2>3
<1>5. ASSUME NEW k \in ConnIDs, StartReading(k) \/ ReadFails(k) \/ RemoveClient(k) \/ SendLeave(k)
      PROVE  Quiet
  <2>1. \A j \in ConnIDs : conn'[j].stage = "creating" =>
          conn[j].stage = "creating" /\ conn'[j].accepted = conn[j].accepted
    BY <1>1, <1>5 DEF StartReading, ReadFails, RemoveClient, SendLeave, Connection
  <2>2. \/ UNCHANGED rooms
        \/ \E a \in Action : rooms' = Offered(conn[k].room, a) /\ conn[k].room \in RoomIDs
    <3>1. conn[k].stage \in {"starting", "leaving"} => conn[k].user \in Users
      BY DEF HubInv, Presence, TakenApartInOrder
    <3>2. conn[k].room \in RoomIDs \cup {NoRoom}
      BY <1>1 DEF Connection
    <3>3. CASE StartReading(k)
      BY <3>1, <3>2, <3>3 DEF StartReading, Action, ActionTypes
    <3>4. CASE SendLeave(k)
      BY <3>1, <3>2, <3>4 DEF SendLeave, Action, ActionTypes
    <3>5. CASE ReadFails(k) \/ RemoveClient(k)
      BY <3>5 DEF ReadFails, RemoveClient
    <3> QED BY <1>5, <3>3, <3>4, <3>5
  <2>3. \A q \in RoomIDs : rooms'[q].players = rooms[q].players
    BY <2>2, PlayersStay
  <2> QED BY <1>1, <2>1, <2>3
<1>6. ASSUME NEW k \in ConnIDs, AttachPlayers(k)
      PROVE  Quiet
  <2> DEFINE r == conn[k].accepted
             seated == {clients[u] : u \in rooms[r].players}
  <2>1. /\ UNCHANGED rooms
        /\ conn' = [j \in ConnIDs |->
                      [conn[j] EXCEPT !.room = IF j \in seated THEN r ELSE @,
                                      !.stage = IF j = k THEN "reading" ELSE @,
                                      !.accepted = IF j = k THEN NoRoom ELSE @]]
    BY <1>6 DEF AttachPlayers, Attach
  <2> HIDE DEF r, seated
  <2>2. ASSUME NEW j \in ConnIDs, conn'[j].stage = "creating"
        PROVE  conn[j].stage = "creating" /\ conn'[j].accepted = conn[j].accepted
    <3>1. conn'[j] = [conn[j] EXCEPT !.room = IF j \in seated THEN r ELSE @,
                                     !.stage = IF j = k THEN "reading" ELSE @,
                                     !.accepted = IF j = k THEN NoRoom ELSE @]
      BY <2>1
    <3>2. conn[j] \in Connection
      BY <1>1
    <3>3. j # k
      BY <2>2, <3>1, <3>2 DEF Connection
    <3> QED BY <2>2, <3>1, <3>2, <3>3 DEF Connection
  <2> QED BY <2>1, <2>2
<1>7. ASSUME NEW k \in ConnIDs, NEW u \in Users, Connect(k, u)
      PROVE  Quiet
  <2> DEFINE new(r) == [NoConnection EXCEPT !.user = u, !.stage = "starting", !.open = TRUE,
                                            !.sendOpen = TRUE, !.room = r]
  <2>1. PICK r : conn' = [CloseReplaced(u) EXCEPT ![k] = new(r)]
    BY <1>7 DEF Connect
  <2>2. new(r).stage = "starting"
    BY DEF NoConnection
  <2> HIDE DEF new
  <2>3. /\ DOMAIN CloseReplaced(u) = ConnIDs
        /\ \A j \in ConnIDs : /\ CloseReplaced(u)[j].stage = conn[j].stage
                              /\ CloseReplaced(u)[j].accepted = conn[j].accepted
    BY <1>1 DEF CloseReplaced, Connection
  <2>4. \A j \in ConnIDs : conn'[j].stage = "creating" =>
          conn[j].stage = "creating" /\ conn'[j].accepted = conn[j].accepted
    BY <2>1, <2>2, <2>3
  <2> QED BY <1>7, <2>4 DEF Connect
<1>8. ASSUME NEW k \in ConnIDs, Considers(k)
      PROVE  Quiet
  <2>1. /\ UNCHANGED rooms /\ conn'[k].stage # "creating"
        /\ \A j \in ConnIDs \ {k} : conn'[j] = conn[j]
    BY <1>8, ConsideringMovesNobody DEF HubInv
  <2> QED BY <2>1
<1>9. ASSUME NEW k \in ConnIDs, NEW r \in RoomIDs, NEW t \in ActionTypes, Forward(k, r, t)
      PROVE  Quiet
  <2>1. [from |-> conn[k].user, type |-> t] \in Action
    BY <1>9 DEF Forward, Reads, HubInv, Presence, TakenApartInOrder, Action
  <2>2. rooms' = Offered(r, [from |-> conn[k].user, type |-> t]) /\ UNCHANGED conn
    BY <1>9 DEF Forward
  <2> QED BY <1>1, <2>1, <2>2, PlayersStay
<1>10. ASSUME NEW r \in RoomIDs, RoomTakes(r) \/ MatchIsPlayed(r)
       PROVE  Quiet
  <2>1. UNCHANGED conn
    BY <1>10 DEF RoomTakes, MatchIsPlayed
  <2> QED BY <1>1, <1>10, <2>1, PlayersStay
<1>11. ASSUME ChallengesAge \/ UNCHANGED vars
       PROVE  Quiet
  BY <1>11 DEF ChallengesAge, vars, hubVars
<1>12. ASSUME NEW k \in ConnIDs, NEW id \in ChallengeIDs, DeclineChallenge(k, id)
       PROVE  Quiet
  BY <1>12 DEF DeclineChallenge, hubVars
<1>13. ASSUME NEW k \in ConnIDs, SocketFails(k)
       PROVE  Quiet
  BY <1>1, <1>13 DEF SocketFails, Connection
<1> HIDE DEF Quiet
<1> QED BY <1>2, <1>3, <1>4, <1>5, <1>6, <1>7, <1>8, <1>9, <1>10, <1>11,
   <1>12, <1>13 DEF Next, Proceed, Considers

(* A room that is not made yet is nothing at all.                          *)
NothingBefore == \A r \in RoomIDs : ~Known(r) => rooms[r].status = "none"

(* What the hub may do with a room: make it, of two players, in the first  *)
(* state of its life; and then only what is a step of its life.            *)
LivesOn(r) ==
  \/ Known(r) /\ [Room(r)!Next]_(rooms[r])
  \/ ~Known(r) /\ rooms'[r] = rooms[r]
  \/ ~Known(r) /\ Room(r)!Init' /\ Cardinality(rooms'[r].players) = 2

LEMMA OfferLivesOn ==
  ASSUME HubInv, NEW q \in RoomIDs, NEW a \in Action, a.from \in rooms[q].players,
         rooms' = Offered(q, a), NEW r \in RoomIDs
  PROVE  LivesOn(r)
<1>1. rooms \in [RoomIDs -> LifeOfRoom]
  BY DEF HubInv, Agreement, RoomTypes
<1>2. rooms' = [rooms EXCEPT ![q] = Room(q)!Offered(a)]
  BY DEF Offered
<1>3. CASE r # q
  <2>1. rooms'[r] = rooms[r]
    BY <1>1, <1>2, <1>3
  <2> QED BY <2>1 DEF LivesOn
<1>4. CASE r = q
  <2>1. Known(r) /\ rooms'[r] = Room(r)!Offered(a)
    BY <1>1, <1>2, <1>4 DEF Known
  <2>2. PICK p \in rooms[r].players, t \in ActionTypes : a = [from |-> p, type |-> t]
    BY <1>4 DEF Action
  <2>3. t \in {"set_ready", "leave_room", "submit_steal", "submit_guess", "resync"}
    BY DEF ActionTypes
  <2>4. Room(r)!Next
    BY <2>1, <2>2, <2>3 DEF Room!Next
  <2> QED BY <2>1, <2>4 DEF LivesOn
<1> QED BY <1>3, <1>4

LEMMA OwnStepLivesOn ==
  ASSUME HubInv, NothingBefore, NEW q \in RoomIDs, RoomTakes(q) \/ MatchIsPlayed(q), NEW r \in RoomIDs
  PROVE  LivesOn(r)
<1>1. rooms \in [RoomIDs -> LifeOfRoom]
  BY DEF HubInv, Agreement, RoomTypes
<1>2. \/ Room(q)!MayTake /\ rooms' = [rooms EXCEPT ![q] = Room(q)!Taken]
      \/ Room(q)!MayEnd /\ rooms' = [rooms EXCEPT ![q] = Room(q)!Played]
  BY DEF RoomTakes, MatchIsPlayed
<1>3. Known(q)
  BY <1>2 DEF Room!MayTake, Room!MayEnd, Room!Alive, NothingBefore
<1>4. CASE r # q
  <2>1. rooms'[r] = rooms[r]
    BY <1>1, <1>2, <1>4
  <2> QED BY <2>1 DEF LivesOn
<1>5. CASE r = q
  <2>1. \/ Room(r)!MayTake /\ rooms'[r] = Room(r)!Taken
        \/ Room(r)!MayEnd /\ rooms'[r] = Room(r)!Played
    BY <1>1, <1>2, <1>5
  <2>2. Room(r)!Next
    BY <2>1 DEF Room!Next
  <2> QED BY <1>3, <1>5, <2>2 DEF LivesOn
<1> QED BY <1>4, <1>5

LEMMA NewRoomLivesOn ==
  ASSUME HubInv, RoomsMadeOnce, NEW k \in ConnIDs, CreateRoom(k), NEW r \in RoomIDs
  PROVE  LivesOn(r)
<1> DEFINE a == conn[k].accepted
           h == [NoSuchRoom EXCEPT !.players = PlayersOf(a), !.status = "waiting"]
<1>1. rooms \in [RoomIDs -> LifeOfRoom]
  BY DEF HubInv, Agreement, RoomTypes
<1>2. rooms' = [rooms EXCEPT ![a] = h] /\ conn[k].stage = "creating"
  BY DEF CreateRoom
<1>3. a \in RoomIDs /\ ~Known(a) /\ \E id \in ChallengeIDs : challenges[id].room = a
  BY <1>2 DEF RoomsMadeOnce
<1>4. /\ h.players = PlayersOf(a) /\ h.status = "waiting" /\ h.ready = {} /\ h.actions = <<>>
  BY DEF NoSuchRoom
<1>5. Cardinality(PlayersOf(a)) = 2
  <2>1. PICK id \in ChallengeIDs : challenges[id].room = a /\ a # NoRoom
    BY <1>3, NobodyThere
  <2>2. ChallengesStand
    BY DEF HubInv, Agreement
  <2>3. /\ PlayersOf(a) = {challenges[id].challenger, challenges[id].challenged}
        /\ challenges[id].challenger # challenges[id].challenged
    <3>1. challenges[id].status # "none"
      BY <2>1, <2>2 DEF ChallengesStand
    <3>2. challenges[id].challenger # challenges[id].challenged
      BY <2>2, <3>1 DEF ChallengesStand
    <3>3. PlayersOf(challenges[id].room) = {challenges[id].challenger, challenges[id].challenged}
      BY <2>1, <2>2, PlayersAreTheChallenges
    <3> QED BY <2>1, <3>2, <3>3
  <2>4. Cardinality({challenges[id].challenger, challenges[id].challenged}) = 2
    BY <2>3, Pair
  <2> QED BY <2>3, <2>4
<1> HIDE DEF a, h
<1>6. CASE r # a
  <2>1. rooms'[r] = rooms[r]
    BY <1>1, <1>2, <1>6
  <2> QED BY <2>1 DEF LivesOn
<1>7. CASE r = a
  <2>1. rooms'[r] = h
    BY <1>1, <1>2, <1>3, <1>7
  <2> QED BY <1>3, <1>4, <1>5, <1>7, <2>1 DEF LivesOn, Room!Init
<1> QED BY <1>6, <1>7

LEMMA StepLivesOn ==
  ASSUME HubInv, RoomsMadeOnce, NothingBefore, [Next]_vars, NEW r \in RoomIDs
  PROVE  LivesOn(r)
<1>1. CASE UNCHANGED rooms
  BY <1>1 DEF LivesOn
<1>2. ASSUME NEW k \in ConnIDs, CreateRoom(k)
      PROVE  LivesOn(r)
  BY <1>2, NewRoomLivesOn
<1>3. ASSUME NEW q \in RoomIDs, RoomTakes(q) \/ MatchIsPlayed(q)
      PROVE  LivesOn(r)
  BY <1>3, OwnStepLivesOn
<1>4. ASSUME NEW k \in ConnIDs, StartReading(k) \/ SendLeave(k)
      PROVE  LivesOn(r)
  <2>1. /\ conn[k].user \in Users /\ conn[k].room \in RoomIDs \cup {NoRoom}
        /\ conn[k].room # NoRoom => conn[k].user \in rooms[conn[k].room].players
    BY <1>4 DEF StartReading, SendLeave, HubInv, Presence, TakenApartInOrder, ConnTypes, Connection,
       Agreement, RoomsAreAgreed
  <2>2. UNCHANGED rooms \/ \E t \in ActionTypes : /\ conn[k].room # NoRoom
                              /\ rooms' = Offered(conn[k].room, [from |-> conn[k].user, type |-> t])
    BY <1>4 DEF StartReading, SendLeave, ActionTypes
  <2>3. ASSUME NEW t \in ActionTypes, conn[k].room # NoRoom,
               rooms' = Offered(conn[k].room, [from |-> conn[k].user, type |-> t])
        PROVE  LivesOn(r)
    <3>1. [from |-> conn[k].user, type |-> t] \in Action
      BY <2>1 DEF Action
    <3> QED BY <2>1, <2>3, <3>1, OfferLivesOn
  <2> QED BY <1>1, <2>2, <2>3
<1>5. ASSUME NEW k \in ConnIDs, NEW q \in RoomIDs, NEW t \in ActionTypes, Forward(k, q, t)
      PROVE  LivesOn(r)
  <2>1. [from |-> conn[k].user, type |-> t] \in Action
    BY <1>5 DEF Forward, Reads, HubInv, Presence, TakenApartInOrder, Action
  <2>2. /\ rooms' = Offered(q, [from |-> conn[k].user, type |-> t])
        /\ conn[k].user \in rooms[q].players
    BY <1>5 DEF Forward, MayAct
  <2> QED BY <2>1, <2>2, OfferLivesOn
<1>6. ASSUME NEW k \in ConnIDs, ReadFails(k) \/ RemoveClient(k) \/ AttachPlayers(k) \/ SocketFails(k)
      PROVE  UNCHANGED rooms
  BY <1>6 DEF ReadFails, RemoveClient, AttachPlayers, Attach, SocketFails
<1>7. ASSUME NEW k \in ConnIDs, NEW u \in Users, Connect(k, u)
      PROVE  UNCHANGED rooms
  BY <1>7 DEF Connect
<1>8. ASSUME NEW k \in ConnIDs, Considers(k)
      PROVE  UNCHANGED rooms
  BY <1>8, ConsideringMovesNobody DEF HubInv
<1>9. ASSUME NEW k \in ConnIDs, NEW id \in ChallengeIDs,
             AcceptChallenge(k, id) \/ DeclineChallenge(k, id)
      PROVE  UNCHANGED rooms
  BY <1>9 DEF AcceptChallenge, DeclineChallenge, hubVars
<1>10. ASSUME ChallengesAge \/ UNCHANGED vars
       PROVE  UNCHANGED rooms
  BY <1>10 DEF ChallengesAge, vars, hubVars
<1> QED BY <1>1, <1>2, <1>3, <1>4, <1>5, <1>6, <1>7, <1>8, <1>9, <1>10 DEF Next, Proceed, Considers

LEMMA NothingBeforeGoesOn ==
  ASSUME HubInv, NothingBefore, \A r \in RoomIDs : LivesOn(r)
  PROVE  NothingBefore'
<1> SUFFICES ASSUME NEW r \in RoomIDs, rooms'[r].players = {}
             PROVE  rooms'[r].status = "none"
  BY DEF NothingBefore, Known
<1>1. ASSUME Known(r)
      PROVE  rooms'[r].players = rooms[r].players
  <2>1. Room(r)!Taken.players = rooms[r].players /\ Room(r)!Played.players = rooms[r].players
    BY DEF Room!Taken, Room!Played, Room!Becomes
  <2>2. \A b : Room(r)!Offered(b).players = rooms[r].players
    BY DEF Room!Offered, Room!Becomes
  <2>3. Room(r)!Next \/ rooms'[r] = rooms[r]
    BY <1>1 DEF LivesOn
  <2> QED BY <2>1, <2>2, <2>3 DEF Room!Next
<1>2. Cardinality({}) # 2
  BY FS_EmptySet
<1>3. ~Known(r) /\ rooms'[r] = rooms[r]
  BY <1>1, <1>2 DEF LivesOn, Known
<1> QED BY <1>3 DEF NothingBefore

(* Every room of the hub lives the life of RoomLife, which is the one that *)
(* GameRoom implements: it is made once, of two players, and then touched  *)
(* by what is put on its channel by a player of it, by its own goroutine,  *)
(* and by nothing else (createRoom, forwardToRoom and ServeWS of hub.go).  *)
THEOREM RoomsLive == Spec => [][\A r \in RoomIDs : LivesOn(r)]_vars
<1>1. Init => RoomsMadeOnce /\ NothingBefore
  <2>1. Init => NothingBefore
    BY DEF Init, NothingBefore, NoSuchRoom
  <2> QED BY <2>1, InitMadeOnce
<1>2. HubInv /\ RoomsMadeOnce /\ NothingBefore /\ [Next]_vars =>
        RoomsMadeOnce' /\ NothingBefore' /\ \A r \in RoomIDs : LivesOn(r)
  BY StepMadeOnce, StepLivesOn, NothingBeforeGoesOn
<1>3. HubInv /\ RoomsMadeOnce /\ NothingBefore /\ [Next]_vars =>
        [\A r \in RoomIDs : LivesOn(r)]_vars
  BY <1>2
<1> QED BY <1>1, <1>2, <1>3, HubInvHolds, PTL DEF Spec

-----------------------------------------------------------------------------
(* The end of a connection.                                                *)

(* createRoom is given the room of the challenge by Respond.               *)
AcceptedIsARoom ==
  \A k \in ConnIDs : conn[k].stage \in {"creating", "attaching"} => conn[k].accepted \in RoomIDs

LEMMA StepAccepted ==
  ASSUME HubInv, AcceptedIsARoom, [Next]_vars
  PROVE  AcceptedIsARoom'
<1> DEFINE Kept == \A j \in ConnIDs : conn'[j].stage \in {"creating", "attaching"} =>
                     /\ conn[j].stage \in {"creating", "attaching"}
                     /\ conn'[j].accepted = conn[j].accepted
<1>1. conn \in [ConnIDs -> Connection]
  BY DEF HubInv, Presence, ConnTypes
<1>2. Kept => AcceptedIsARoom'
  BY DEF AcceptedIsARoom
<1>3. ASSUME NEW k \in ConnIDs, StartReading(k) \/ ReadFails(k) \/ RemoveClient(k) \/ SendLeave(k)
      PROVE  Kept
  BY <1>1, <1>3 DEF StartReading, ReadFails, RemoveClient, SendLeave, Connection
<1>4. ASSUME NEW k \in ConnIDs, CreateRoom(k) \/ SocketFails(k)
      PROVE  Kept
  BY <1>1, <1>4 DEF CreateRoom, SocketFails, Connection
<1>5. ASSUME NEW k \in ConnIDs, AttachPlayers(k)
      PROVE  Kept
  <2> DEFINE r == conn[k].accepted
             seated == {clients[u] : u \in rooms[r].players}
  <2>1. conn' = [j \in ConnIDs |->
                   [conn[j] EXCEPT !.room = IF j \in seated THEN r ELSE @,
                                   !.stage = IF j = k THEN "reading" ELSE @,
                                   !.accepted = IF j = k THEN NoRoom ELSE @]]
    BY <1>5 DEF AttachPlayers, Attach
  <2> HIDE DEF r, seated
  <2> SUFFICES ASSUME NEW j \in ConnIDs, conn'[j].stage \in {"creating", "attaching"}
               PROVE  /\ conn[j].stage \in {"creating", "attaching"}
                      /\ conn'[j].accepted = conn[j].accepted
    OBVIOUS
  <2>2. conn'[j] = [conn[j] EXCEPT !.room = IF j \in seated THEN r ELSE @,
                                   !.stage = IF j = k THEN "reading" ELSE @,
                                   !.accepted = IF j = k THEN NoRoom ELSE @]
    BY <2>1
  <2>3. conn[j] \in Connection
    BY <1>1
  <2>4. j # k
    BY <2>2, <2>3 DEF Connection
  <2> QED BY <2>2, <2>3, <2>4 DEF Connection
<1>6. ASSUME NEW k \in ConnIDs, NEW u \in Users, Connect(k, u)
      PROVE  Kept
  <2> DEFINE new(r) == [NoConnection EXCEPT !.user = u, !.stage = "starting", !.open = TRUE,
                                            !.sendOpen = TRUE, !.room = r]
  <2>1. PICK r : conn' = [CloseReplaced(u) EXCEPT ![k] = new(r)]
    BY <1>6 DEF Connect
  <2>2. new(r).stage = "starting"
    BY DEF NoConnection
  <2> HIDE DEF new
  <2>3. /\ DOMAIN CloseReplaced(u) = ConnIDs
        /\ \A j \in ConnIDs : /\ CloseReplaced(u)[j].stage = conn[j].stage
                              /\ CloseReplaced(u)[j].accepted = conn[j].accepted
    BY <1>1 DEF CloseReplaced, Connection
  <2> QED BY <2>1, <2>2, <2>3
<1>7. ASSUME NEW k \in ConnIDs, NEW id \in ChallengeIDs, AcceptChallenge(k, id)
      PROVE  AcceptedIsARoom'
  <2>1. PICK r \in RoomIDs :
          /\ challenges' = [challenges EXCEPT ![id].status = "accepted", ![id].room = r]
          /\ conn' = [conn EXCEPT ![k].stage = "creating", ![k].accepted = challenges'[id].room]
    BY <1>7 DEF AcceptChallenge, Challenged!Accept
  <2>2. challenges'[id].room = r
    BY <2>1 DEF HubInv, Agreement, RoomTypes, Challenge
  <2>3. conn'[k].accepted = r /\ \A j \in ConnIDs \ {k} : conn'[j] = conn[j]
    BY <1>1, <2>1, <2>2 DEF Connection
  <2> QED BY <2>3 DEF AcceptedIsARoom
<1>8. ASSUME NEW k \in ConnIDs, Considers(k)
      PROVE  Kept
  <2>1. /\ conn'[k].stage \in {"reading", "challenging"}
        /\ \A j \in ConnIDs \ {k} : conn'[j] = conn[j]
    BY <1>8, ConsideringMovesNobody DEF HubInv
  <2> QED BY <2>1
<1>9. ASSUME NEW k \in ConnIDs, NEW id \in ChallengeIDs, DeclineChallenge(k, id)
      PROVE  Kept
  BY <1>9 DEF DeclineChallenge, hubVars
<1>10. ASSUME NEW k \in ConnIDs, NEW r \in RoomIDs, NEW t \in ActionTypes, Forward(k, r, t)
       PROVE  Kept
  BY <1>10 DEF Forward
<1>11. ASSUME NEW r \in RoomIDs, RoomTakes(r) \/ MatchIsPlayed(r)
       PROVE  Kept
  BY <1>11 DEF RoomTakes, MatchIsPlayed
<1>12. ASSUME ChallengesAge \/ UNCHANGED vars
       PROVE  Kept
  BY <1>12 DEF ChallengesAge, vars, hubVars
<1> HIDE DEF Kept
<1> QED BY <1>2, <1>3, <1>4, <1>5, <1>6, <1>7, <1>8, <1>9, <1>10, <1>11, <1>12 DEF Next, Proceed, Considers

(* What may still happen to a connection whose entry has been looked at:   *)
(* its own goroutine goes on to the end, and nobody puts it in a room or   *)
(* in the registry again.                                                  *)
GoesForGood(k) ==
  /\ conn'[k].user = conn[k].user /\ conn'[k].room = conn[k].room /\ ~conn'[k].open
  /\ \A u \in Users : clients'[u] # k
  /\ <<conn[k].stage, conn'[k].stage>> \in
       {<<"closing", "closing">>, <<"closing", "leaving">>, <<"leaving", "leaving">>,
        <<"leaving", "done">>, <<"done", "done">>}

(* The connections other than k, and k itself, in a step of k's goroutine. *)
LEMMA OthersStay ==
  ASSUME HubInv, AcceptedIsARoom, NEW k \in ConnIDs, NEW j \in ConnIDs,
         conn[j].stage \in Unregistered,
         \/ Proceed(k) \/ SocketFails(k)
         \/ \E u \in Users : Connect(k, u)
         \/ Considers(k)
         \/ \E id \in ChallengeIDs : AcceptChallenge(k, id) \/ DeclineChallenge(k, id)
         \/ \E r \in RoomIDs, t \in ActionTypes : Forward(k, r, t)
  PROVE  /\ conn'[j].user = conn[j].user /\ conn'[j].room = conn[j].room
         /\ \/ conn'[j].stage = conn[j].stage
            \/ conn[j].stage = "closing" /\ conn'[j].stage = "leaving"
            \/ conn[j].stage = "leaving" /\ conn'[j].stage = "done"
<1>1. conn \in [ConnIDs -> Connection] /\ ~conn[j].open /\ \A u \in Users : clients[u] # j
  BY DEF HubInv, Presence, ConnTypes, TakenApartInOrder, TearDown, Unregistered
<1>2. CASE StartReading(k) \/ ReadFails(k) \/ RemoveClient(k) \/ SendLeave(k)
  BY <1>1, <1>2 DEF StartReading, ReadFails, RemoveClient, SendLeave, Connection, Unregistered
<1>3. CASE CreateRoom(k)
  BY <1>1, <1>3 DEF CreateRoom, Connection, Unregistered
<1>4. CASE AttachPlayers(k)
  <2> DEFINE r == conn[k].accepted
             seated == {clients[u] : u \in rooms[r].players}
  <2>1. /\ conn[k].stage = "attaching"
        /\ conn' = [i \in ConnIDs |->
                      [conn[i] EXCEPT !.room = IF i \in seated THEN r ELSE @,
                                      !.stage = IF i = k THEN "reading" ELSE @,
                                      !.accepted = IF i = k THEN NoRoom ELSE @]]
    BY <1>4 DEF AttachPlayers, Attach
  <2>2. r \in RoomIDs
    BY <2>1 DEF AcceptedIsARoom
  <2>3. j \notin seated
    BY <1>1, <2>2 DEF HubInv, Agreement, RoomTypes, LifeOfRoom
  <2>4. j # k
    BY <2>1 DEF Unregistered
  <2> HIDE DEF r, seated
  <2> QED BY <1>1, <2>1, <2>3, <2>4 DEF Connection
<1>5. ASSUME NEW u \in Users, Connect(k, u)
      PROVE  conn'[j].user = conn[j].user /\ conn'[j].room = conn[j].room /\ conn'[j].stage = conn[j].stage
  <2> DEFINE new(r) == [NoConnection EXCEPT !.user = u, !.stage = "starting", !.open = TRUE,
                                            !.sendOpen = TRUE, !.room = r]
  <2>1. PICK r : conn' = [CloseReplaced(u) EXCEPT ![k] = new(r)]
    BY <1>5 DEF Connect
  <2>2. conn[k] = NoConnection /\ j # k
    BY <1>5, NobodyThere DEF Connect, Unregistered
  <2> HIDE DEF new
  <2>3. /\ DOMAIN CloseReplaced(u) = ConnIDs
        /\ CloseReplaced(u)[j].stage = conn[j].stage /\ CloseReplaced(u)[j].room = conn[j].room
        /\ CloseReplaced(u)[j].user = conn[j].user
    BY <1>1 DEF CloseReplaced, Connection
  <2> QED BY <2>1, <2>2, <2>3
<1>6. ASSUME NEW id \in ChallengeIDs, AcceptChallenge(k, id)
      PROVE  conn'[j] = conn[j]
  BY <1>1, <1>6 DEF AcceptChallenge, Reads, Unregistered
<1>7. CASE Considers(k)
  <2>1. j # k /\ conn'[j] = conn[j]
    BY <1>7, ConsideringMovesNobody DEF HubInv, Unregistered
  <2> QED BY <2>1
<1>8. ASSUME NEW id \in ChallengeIDs, DeclineChallenge(k, id)
      PROVE  conn'[j] = conn[j]
  BY <1>8 DEF DeclineChallenge, hubVars
<1>9. ASSUME NEW r \in RoomIDs, NEW t \in ActionTypes, Forward(k, r, t)
      PROVE  conn'[j] = conn[j]
  BY <1>9 DEF Forward
<1>10. CASE SocketFails(k)
  BY <1>1, <1>10 DEF SocketFails, Connection
<1> QED BY <1>2, <1>3, <1>4, <1>5, <1>6, <1>7, <1>8, <1>9, <1>10 DEF Proceed

LEMMA StepGoesForGood ==
  ASSUME HubInv, AcceptedIsARoom, [Next]_vars, NEW j \in ConnIDs, conn[j].stage \in Unregistered
  PROVE  GoesForGood(j)
<1>1. /\ conn'[j].user = conn[j].user /\ conn'[j].room = conn[j].room
      /\ \/ conn'[j].stage = conn[j].stage
         \/ conn[j].stage = "closing" /\ conn'[j].stage = "leaving"
         \/ conn[j].stage = "leaving" /\ conn'[j].stage = "done"
  <2>1. CASE UNCHANGED conn
    BY <2>1
  <2>2. ASSUME NEW r \in RoomIDs, RoomTakes(r) \/ MatchIsPlayed(r)
        PROVE  UNCHANGED conn
    BY <2>2 DEF RoomTakes, MatchIsPlayed
  <2>3. ChallengesAge \/ UNCHANGED vars => UNCHANGED conn
    BY DEF ChallengesAge, vars, hubVars
  <2> QED BY <2>1, <2>2, <2>3, OthersStay DEF Next, Considers
<1>2. conn'[j].stage \in Unregistered
  BY <1>1 DEF Unregistered
<1>3. ~conn'[j].open /\ \A u \in Users : clients'[u] # j
  <2>1. HubInv'
    BY StepHubInv
  <2> QED BY <1>2, <2>1 DEF HubInv, Presence, TakenApartInOrder, TearDown, Unregistered
<1> QED BY <1>1, <1>3 DEF GoesForGood, Unregistered

(* Once removeClient has looked at its entry a connection is on its way    *)
(* out for good: it keeps its user and its room, so that the leave_room it *)
(* ends with is for the room it was in; it is never registered or opened   *)
(* again; and what is left of readPump's deferred function happens once,   *)
(* in order (hub.go).                                                      *)
THEOREM ConnectionsEndOnce ==
  Spec => [][\A k \in ConnIDs : conn[k].stage \in Unregistered => GoesForGood(k)]_vars
<1>1. Init => AcceptedIsARoom
  BY DEF Init, AcceptedIsARoom, NoConnection
<1>2. HubInv /\ AcceptedIsARoom /\ [Next]_vars => AcceptedIsARoom'
  BY StepAccepted
<1>3. HubInv /\ AcceptedIsARoom /\ [Next]_vars =>
        [\A k \in ConnIDs : conn[k].stage \in Unregistered => GoesForGood(k)]_vars
  BY StepGoesForGood
<1> QED BY <1>1, <1>2, <1>3, HubInvHolds, PTL DEF Spec

-----------------------------------------------------------------------------
(* Seats.                                                                  *)

(* A step that leaves the rooms' players, the connections' rooms and those *)
(* who attach players as they are, and registers nobody.                   *)
LEMMA SeatedStaySeated ==
  ASSUME HubInv, AcceptedIsARoom, PlayersAreSeated,
         \A q \in RoomIDs : rooms'[q].players = rooms[q].players,
         \A u \in Users : clients'[u] # NoConn => clients'[u] = clients[u],
         \A j \in ConnIDs : conn'[j].room = conn[j].room,
         \A j \in ConnIDs : conn[j].stage = "attaching" =>
           conn'[j].stage = "attaching" /\ conn'[j].accepted = conn[j].accepted
  PROVE  PlayersAreSeated'
<1> SUFFICES ASSUME NEW u \in Users, clients'[u] # NoConn, RoomsOf(u)' # {}
             PROVE  conn'[clients'[u]].room \in RoomsOf(u)' \/ Awaited(u)'
  BY DEF PlayersAreSeated
<1>1. clients'[u] = clients[u] /\ clients[u] \in ConnIDs /\ RoomsOf(u)' = RoomsOf(u)
  BY DEF HubInv, Presence, ConnTypes, RoomsOf
<1>2. CASE conn[clients[u]].room \in RoomsOf(u)
  BY <1>1, <1>2
<1>3. ASSUME NEW k \in ConnIDs, conn[k].stage = "attaching", u \in rooms[conn[k].accepted].players
      PROVE  Awaited(u)'
  BY <1>3 DEF AcceptedIsARoom, Awaited
<1> QED BY <1>1, <1>2, <1>3 DEF PlayersAreSeated, Awaited

(* ServeWS finds a room of its user if there is one.                       *)
LEMMA ConnectSeats ==
  ASSUME HubInv, PlayersAreSeated, NEW k \in ConnIDs, NEW u \in Users, Connect(k, u)
  PROVE  PlayersAreSeated'
<1> DEFINE new(r) == [NoConnection EXCEPT !.user = u, !.stage = "starting", !.open = TRUE,
                                          !.sendOpen = TRUE, !.room = r]
<1>1. PICK r \in RoomsOf(u) \cup {NoRoom} :
        /\ r = NoRoom <=> RoomsOf(u) = {}
        /\ conn' = [CloseReplaced(u) EXCEPT ![k] = new(r)]
        /\ clients' = [clients EXCEPT ![u] = k] /\ UNCHANGED rooms
        /\ conn[k] = NoConnection
  BY DEF Connect, RoomsToResync
<1>2. new(r).room = r
  BY DEF NoConnection
<1>3. conn \in [ConnIDs -> Connection] /\ clients \in [Users -> ConnIDs \cup {NoConn}]
  BY DEF HubInv, Presence, ConnTypes
<1> HIDE DEF new
<1>4. /\ DOMAIN CloseReplaced(u) = ConnIDs
      /\ \A j \in ConnIDs : /\ CloseReplaced(u)[j].stage = conn[j].stage
                            /\ CloseReplaced(u)[j].accepted = conn[j].accepted
                            /\ CloseReplaced(u)[j].room = conn[j].room
  BY <1>3 DEF CloseReplaced, Connection
<1>5. /\ conn'[k].room = r
      /\ \A j \in ConnIDs \ {k} : /\ conn'[j].stage = conn[j].stage
                                  /\ conn'[j].accepted = conn[j].accepted
                                  /\ conn'[j].room = conn[j].room
  BY <1>1, <1>2, <1>4
<1> SUFFICES ASSUME NEW v \in Users, clients'[v] # NoConn, RoomsOf(v)' # {}
             PROVE  conn'[clients'[v]].room \in RoomsOf(v)' \/ Awaited(v)'
  BY DEF PlayersAreSeated
<1>6. RoomsOf(v)' = RoomsOf(v)
  BY <1>1 DEF RoomsOf
<1>7. CASE v = u
  BY <1>1, <1>3, <1>5, <1>6, <1>7
<1>8. CASE v # u
  <2>1. clients'[v] = clients[v] /\ clients[v] \in ConnIDs /\ clients[v] # k
    <3>1. clients'[v] = clients[v] /\ clients[v] \in ConnIDs
      BY <1>1, <1>3, <1>8
    <3>2. conn[clients[v]].user = v
      BY <3>1, NobodyThere DEF HubInv, Presence, RegistryIsPresence
    <3> QED BY <1>1, <3>1, <3>2, NobodyThere
  <2>2. ASSUME NEW j \in ConnIDs, conn[j].stage = "attaching", v \in rooms[conn[j].accepted].players
        PROVE  Awaited(v)'
    <3>1. j # k
      BY <1>1, <2>2, NobodyThere
    <3> QED BY <1>1, <1>5, <2>2, <3>1 DEF Awaited
  <2> QED BY <1>5, <1>6, <2>1, <2>2 DEF PlayersAreSeated, Awaited
<1> QED BY <1>7, <1>8

(* Whoever makes a room goes on to look for its players.                   *)
LEMMA CreateRoomAwaits ==
  ASSUME HubInv, RoomsMadeOnce, AcceptedIsARoom, PlayersAreSeated, NEW k \in ConnIDs, CreateRoom(k)
  PROVE  PlayersAreSeated'
<1> DEFINE a == conn[k].accepted
           h == [NoSuchRoom EXCEPT !.players = PlayersOf(a), !.status = "waiting"]
<1>1. /\ conn[k].stage = "creating" /\ UNCHANGED clients
      /\ rooms' = [rooms EXCEPT ![a] = h] /\ conn' = [conn EXCEPT ![k].stage = "attaching"]
  BY DEF CreateRoom
<1>2. a \in RoomIDs /\ rooms[a].players = {}
  BY <1>1 DEF RoomsMadeOnce, Known
<1>3. /\ conn \in [ConnIDs -> Connection] /\ rooms \in [RoomIDs -> LifeOfRoom]
      /\ clients \in [Users -> ConnIDs \cup {NoConn}]
  BY DEF HubInv, Presence, ConnTypes, Agreement, RoomTypes
<1> HIDE DEF h
<1>4. rooms'[a] = h /\ \A q \in RoomIDs \ {a} : rooms'[q] = rooms[q]
  BY <1>1, <1>2, <1>3
<1>5. /\ conn'[k].stage = "attaching" /\ conn'[k].accepted = a
      /\ \A j \in ConnIDs : conn'[j].room = conn[j].room
      /\ \A j \in ConnIDs \ {k} : conn'[j] = conn[j]
  BY <1>1, <1>3 DEF Connection
<1> HIDE DEF a
<1> SUFFICES ASSUME NEW u \in Users, clients'[u] # NoConn, RoomsOf(u)' # {}
             PROVE  conn'[clients'[u]].room \in RoomsOf(u)' \/ Awaited(u)'
  BY DEF PlayersAreSeated
<1>6. CASE u \in h.players
  BY <1>4, <1>5, <1>6 DEF Awaited
<1>7. CASE u \notin h.players
  <2>1. RoomsOf(u)' = RoomsOf(u)
    BY <1>2, <1>4, <1>7 DEF RoomsOf
  <2>2. ASSUME NEW j \in ConnIDs, conn[j].stage = "attaching", u \in rooms[conn[j].accepted].players
        PROVE  Awaited(u)'
    <3>1. j # k /\ conn[j].accepted \in RoomIDs
      BY <1>1, <2>2 DEF AcceptedIsARoom
    <3>2. conn[j].accepted # a
      BY <1>2, <2>2
    <3> QED BY <1>4, <1>5, <2>2, <3>1, <3>2 DEF Awaited
  <2> QED BY <1>1, <1>3, <1>5, <2>1, <2>2 DEF PlayersAreSeated, Awaited
<1> QED BY <1>6, <1>7

(* The players' present connections, whatever they are at, get the room.   *)
LEMMA AttachSeats ==
  ASSUME HubInv, AcceptedIsARoom, PlayersAreSeated, NEW k \in ConnIDs, AttachPlayers(k)
  PROVE  PlayersAreSeated'
<1> DEFINE r == conn[k].accepted
           seated == {clients[u] : u \in rooms[r].players}
<1>1. /\ conn[k].stage = "attaching" /\ UNCHANGED <<clients, rooms>>
      /\ conn' = [j \in ConnIDs |->
                    [conn[j] EXCEPT !.room = IF j \in seated THEN r ELSE @,
                                    !.stage = IF j = k THEN "reading" ELSE @,
                                    !.accepted = IF j = k THEN NoRoom ELSE @]]
  BY DEF AttachPlayers, Attach
<1>2. r \in RoomIDs
  BY <1>1 DEF AcceptedIsARoom
<1>3. conn \in [ConnIDs -> Connection] /\ clients \in [Users -> ConnIDs \cup {NoConn}]
  BY DEF HubInv, Presence, ConnTypes
<1> HIDE DEF r, seated
<1>4. ASSUME NEW j \in ConnIDs
      PROVE  /\ conn'[j].room = IF j \in seated THEN r ELSE conn[j].room
             /\ j # k => conn'[j].stage = conn[j].stage /\ conn'[j].accepted = conn[j].accepted
  <2>1. conn'[j] = [conn[j] EXCEPT !.room = IF j \in seated THEN r ELSE @,
                                   !.stage = IF j = k THEN "reading" ELSE @,
                                   !.accepted = IF j = k THEN NoRoom ELSE @]
    BY <1>1
  <2>2. conn[j] \in Connection
    BY <1>3
  <2> QED BY <2>1, <2>2 DEF Connection
<1> SUFFICES ASSUME NEW u \in Users, clients'[u] # NoConn, RoomsOf(u)' # {}
             PROVE  conn'[clients'[u]].room \in RoomsOf(u)' \/ Awaited(u)'
  BY DEF PlayersAreSeated
<1>5. clients'[u] = clients[u] /\ clients[u] \in ConnIDs /\ RoomsOf(u)' = RoomsOf(u)
  BY <1>1, <1>3 DEF RoomsOf
<1>6. CASE u \in rooms[r].players
  BY <1>2, <1>4, <1>5, <1>6 DEF RoomsOf, seated
<1>7. CASE u \notin rooms[r].players
  <2>1. clients[u] \notin seated
    <3>1. ASSUME NEW v \in rooms[r].players, clients[v] = clients[u]
          PROVE  FALSE
      <4>1. v \in Users
        BY <1>2 DEF HubInv, Agreement, RoomTypes, LifeOfRoom
      <4>2. conn[clients[u]].user = u /\ conn[clients[v]].user = v
        BY <1>5, <3>1, <4>1, NobodyThere DEF HubInv, Presence, RegistryIsPresence
      <4> QED BY <1>7, <3>1, <4>2
    <3> QED BY <3>1 DEF seated
  <2>2. ASSUME NEW j \in ConnIDs, conn[j].stage = "attaching", u \in rooms[conn[j].accepted].players
        PROVE  Awaited(u)'
    <3>1. j # k
      BY <1>7, <2>2 DEF r
    <3> QED BY <1>1, <1>4, <2>2, <3>1 DEF Awaited
  <2> QED BY <1>4, <1>5, <2>1, <2>2 DEF PlayersAreSeated, Awaited
<1> QED BY <1>6, <1>7

LEMMA StepSeats ==
  ASSUME HubInv, RoomsMadeOnce, AcceptedIsARoom, PlayersAreSeated, [Next]_vars
  PROVE  PlayersAreSeated'
<1> DEFINE Sit == /\ \A u \in Users : clients'[u] # NoConn => clients'[u] = clients[u]
                  /\ \A j \in ConnIDs : conn'[j].room = conn[j].room
                  /\ \A j \in ConnIDs : conn[j].stage = "attaching" =>
                       conn'[j].stage = "attaching" /\ conn'[j].accepted = conn[j].accepted
           Play == \A q \in RoomIDs : rooms'[q].players = rooms[q].players
<1>1. conn \in [ConnIDs -> Connection] /\ clients \in [Users -> ConnIDs \cup {NoConn}]
  BY DEF HubInv, Presence, ConnTypes
<1>2. Sit /\ Play => PlayersAreSeated'
  BY SeatedStaySeated
<1>3. ASSUME NEW k \in ConnIDs, NEW u \in Users, Connect(k, u)
      PROVE  PlayersAreSeated'
  BY <1>3, ConnectSeats
<1>4. ASSUME NEW k \in ConnIDs, CreateRoom(k) \/ AttachPlayers(k)
      PROVE  PlayersAreSeated'
  BY <1>4, CreateRoomAwaits, AttachSeats
<1>5. ASSUME NEW k \in ConnIDs, StartReading(k) \/ ReadFails(k) \/ RemoveClient(k) \/ SendLeave(k)
      PROVE  Sit
  BY <1>1, <1>5 DEF StartReading, ReadFails, RemoveClient, Unregister, SendLeave, Connection
<1>6. ASSUME NEW k \in ConnIDs, StartReading(k) \/ SendLeave(k)
      PROVE  Play
  <2>1. /\ conn[k].user \in Users /\ conn[k].room \in RoomIDs \cup {NoRoom}
    BY <1>6 DEF StartReading, SendLeave, HubInv, Presence, TakenApartInOrder, ConnTypes, Connection
  <2>2. UNCHANGED rooms \/ \E t \in ActionTypes : /\ conn[k].room # NoRoom
                              /\ rooms' = Offered(conn[k].room, [from |-> conn[k].user, type |-> t])
    BY <1>6 DEF StartReading, SendLeave, ActionTypes
  <2>3. \A t \in ActionTypes : [from |-> conn[k].user, type |-> t] \in Action
    BY <2>1 DEF Action
  <2> QED BY <2>1, <2>2, <2>3, PlayersStay
<1>7. ASSUME NEW k \in ConnIDs, ReadFails(k) \/ RemoveClient(k)
      PROVE  Play
  BY <1>7 DEF ReadFails, RemoveClient
<1>8. ASSUME NEW k \in ConnIDs, Considers(k)
      PROVE  Sit /\ Play
  <2>1. /\ UNCHANGED <<clients, rooms>> /\ conn[k].stage # "attaching"
        /\ \A j \in ConnIDs \ {k} : conn'[j] = conn[j]
        /\ \A j \in ConnIDs : conn'[j].room = conn[j].room
    BY <1>8, ConsideringMovesNobody DEF HubInv
  <2> QED BY <2>1
<1>9. ASSUME NEW k \in ConnIDs, NEW id \in ChallengeIDs, AcceptChallenge(k, id)
      PROVE  Sit /\ Play
  <2>1. PICK x : conn' = [conn EXCEPT ![k].stage = "creating", ![k].accepted = x]
    BY <1>9 DEF AcceptChallenge
  <2>2. UNCHANGED <<clients, rooms>> /\ conn[k].stage = "reading"
    BY <1>9 DEF AcceptChallenge, Reads
  <2>3. \A j \in ConnIDs : /\ conn'[j].room = conn[j].room
                           /\ j # k => conn'[j] = conn[j]
    BY <1>1, <2>1 DEF Connection
  <2> QED BY <2>2, <2>3
<1>10. ASSUME NEW k \in ConnIDs, NEW r \in RoomIDs, NEW t \in ActionTypes, Forward(k, r, t)
       PROVE  Sit /\ Play
  <2>1. [from |-> conn[k].user, type |-> t] \in Action
    BY <1>10 DEF Forward, Reads, HubInv, Presence, TakenApartInOrder, Action
  <2>2. rooms' = Offered(r, [from |-> conn[k].user, type |-> t]) /\ UNCHANGED <<conn, clients>>
    BY <1>10 DEF Forward
  <2> QED BY <2>1, <2>2, PlayersStay
<1>11. ASSUME NEW r \in RoomIDs, RoomTakes(r) \/ MatchIsPlayed(r)
       PROVE  Sit /\ Play
  <2>1. UNCHANGED <<conn, clients>>
    BY <1>11 DEF RoomTakes, MatchIsPlayed
  <2> QED BY <1>11, <2>1, PlayersStay
<1>12. ASSUME ChallengesAge \/ UNCHANGED vars
       PROVE  Sit /\ Play
  BY <1>12 DEF ChallengesAge, vars, hubVars
<1>13. ASSUME NEW k \in ConnIDs, NEW id \in ChallengeIDs, DeclineChallenge(k, id)
       PROVE  Sit /\ Play
  BY <1>13 DEF DeclineChallenge, hubVars
<1>14. ASSUME NEW k \in ConnIDs, SocketFails(k)
       PROVE  Sit /\ Play
  BY <1>1, <1>14 DEF SocketFails, Connection
<1> HIDE DEF Sit, Play
<1> QED BY <1>2, <1>3, <1>4, <1>5, <1>6, <1>7, <1>8, <1>9, <1>10, <1>11, <1>12, <1>13, <1>14
   DEF Next, Proceed, Considers

(* Whoever plays in a room and is connected has a room of theirs on their  *)
(* connection, or is about to be given it (ServeWS and createRoom of       *)
(* hub.go): no order of the two leaves a player outside.                   *)
THEOREM NobodyIsLeftOutside == Spec => []PlayersAreSeated
<1>1. Init => RoomsMadeOnce /\ AcceptedIsARoom /\ PlayersAreSeated
  <2>1. Init => AcceptedIsARoom /\ PlayersAreSeated
    BY DEF Init, AcceptedIsARoom, NoConnection, PlayersAreSeated
  <2> QED BY <2>1, InitMadeOnce
<1>2. HubInv /\ RoomsMadeOnce /\ AcceptedIsARoom /\ PlayersAreSeated /\ [Next]_vars =>
        RoomsMadeOnce' /\ AcceptedIsARoom' /\ PlayersAreSeated'
  BY StepMadeOnce, StepAccepted, StepSeats
<1> QED BY <1>1, <1>2, HubInvHolds, PTL DEF Spec
=============================================================================
