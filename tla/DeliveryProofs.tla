--------------------------- MODULE DeliveryProofs ---------------------------
(***************************************************************************)
(* What is sent arrives in order and where it belongs, for any number of   *)
(* connections, any size of the buffers and any number of rounds.          *)
(*                                                                         *)
(* Who may be sent to (Base): the lock excludes removal while a list is    *)
(* sent, and a connection is registered as long as it can be sent to.      *)
(*                                                                         *)
(* Presence (Aware): the last message sent to a page is the list it will   *)
(* have; a broadcast that runs by itself tells who is present, and only who*)
(* is left in it does not know yet.                                        *)
(*                                                                         *)
(* The room: everything on its way to the player's page is one queue, which*)
(* is the connection's channel, what the drain has in its hands, and the   *)
(* room's buffer (Queue).  To this queue a step of the room only adds, an  *)
(* arrival takes the first away, and every other step keeps or loses some. *)
(* Whatever is lost, the queue is in the order of rounds and phases, from  *)
(* the page to the room (Ordered); if nothing is, it ends with what the    *)
(* room is in (UpToDate).                                                  *)
(***************************************************************************)
EXTENDS Delivery, FiniteSetTheorems, SequenceTheorems, TLAPS

Phases == {"none", "waiting", "started", "ignored", "memorization", "stealing", "guessing",
           "round_result", "completed", "abandoned", "blank"}
Event == [phase : Phases, round : Nat]
Message == IF place = "lobby" THEN SUBSET Users ELSE Event

Stages == {"none", "up", "removed", "closed"}
ConnType == [user : Users, stage : Stages, open : BOOLEAN, send : Seq(Message)]
CastStages == {"idle", "due", "listed", "sending"}

CastType == [stage : CastStages, ids : SUBSET Users, left : SUBSET ConnIDs, alone : BOOLEAN]
PageType == [ws : ConnIDs \cup {NoConn}, queued : BOOLEAN, list : SUBSET Users,
             knowsRoom : BOOLEAN, phase : Phases, round : Nat]

Types ==
  /\ place \in {"lobby", "room"}
  /\ conn \in [ConnIDs -> ConnType]
  /\ clients \in [Users -> ConnIDs \cup {NoConn}]
  /\ cast \in [ConnIDs -> CastType]
  /\ deleted \in SUBSET Users
  /\ settled \in BOOLEAN
  /\ page \in [Users -> PageType]
  /\ died \in BOOLEAN

(* The registered connection of a user is served, and is the user's.       *)
RegisteredIsUp ==
  \A u \in Users : clients[u] # NoConn =>
    conn[clients[u]].user = u /\ conn[clients[u]].stage = "up"

(* An open socket is the registered one, and the one the page has.         *)
OpenIsCurrent ==
  \A k \in ConnIDs :
    IF conn[k].open
    THEN clients[conn[k].user] = k /\ page[conn[k].user].ws = k
    ELSE conn[k].send = <<>>

(* Only who is registered is left to be sent to, and only under the lock.  *)
LeftAreRegistered ==
  \A g \in ConnIDs : \A k \in cast[g].left :
    cast[g].stage = "sending" /\ k \in {clients[u] : u \in Present}

(* Who does not read does not broadcast.                                   *)
CastsAreServed ==
  \A k \in ConnIDs : conn[k].stage \in {"none", "removed"} => cast[k] = NoCast

(* In a room there are no broadcasts and no other visitors.                *)
RoomIsPlayers ==
  place = "room" =>
    /\ \A u \in Users \ {Player} : clients[u] = NoConn
    /\ \A k \in ConnIDs : conn[k].user = Player /\ cast[k] = NoCast

Plumbing == /\ Types /\ RegisteredIsUp /\ OpenIsCurrent /\ LeftAreRegistered /\ CastsAreServed
            /\ RoomIsPlayers

-----------------------------------------------------------------------------

LEMMA ConstantFacts ==
  /\ Player \in Users /\ NoConn \notin ConnIDs
  /\ SendCap \in Nat \ {0} /\ EventsCap \in Nat \ {0} /\ MaxRounds \in Nat \ {0}
BY UsersAssumption, CapsAssumption

LEMMA InitPlumbing == Init => Plumbing
<1> SUFFICES ASSUME Init PROVE Plumbing
  OBVIOUS
<1>1. Types
  <2>1. <<>> \in Seq(Message)
    BY EmptySeq
  <2>2. NoConnection \in ConnType
    BY <2>1, ConstantFacts DEF NoConnection, ConnType, Stages
  <2>3. NewPage \in PageType
    BY DEF NewPage, PageType, Phases
  <2>4. NoCast \in CastType
    BY DEF NoCast, CastType, CastStages
  <2> QED BY <2>2, <2>3, <2>4 DEF Init, Types
<1> QED
  BY <1>1, ConstantFacts DEF Init, Plumbing, RegisteredIsUp, OpenIsCurrent, LeftAreRegistered, CastsAreServed,
     RoomIsPlayers, NoConnection, NoCast

(* What a send does to a connection.                                       *)
LEMMA SentIs ==
  ASSUME Plumbing, NEW k \in ConnIDs, NEW m \in Message
  PROVE  /\ Sent(k, m) \in [ConnIDs -> ConnType]
         /\ \A j \in ConnIDs :
              /\ Sent(k, m)[j].user = conn[j].user /\ Sent(k, m)[j].stage = conn[j].stage
              /\ Sent(k, m)[j].open = conn[j].open
              /\ Sent(k, m)[j].send = IF j = k /\ HasRoom(k) /\ conn[k].open
                                      THEN Append(conn[j].send, m) ELSE conn[j].send
<1>1. conn \in [ConnIDs -> ConnType]
  BY DEF Plumbing, Types
<1>2. CASE ~(HasRoom(k) /\ conn[k].open)
  BY <1>1, <1>2 DEF Sent
<1>3. CASE HasRoom(k) /\ conn[k].open
  <2>1. conn[k] \in ConnType /\ conn[k].send \in Seq(Message)
    BY <1>1 DEF ConnType
  <2>2. Append(conn[k].send, m) \in Seq(Message)
    BY <2>1, AppendProperties
  <2>3. Sent(k, m) = [conn EXCEPT ![k] = [conn[k] EXCEPT !.send = Append(conn[k].send, m)]]
    BY <1>1, <1>3 DEF Sent
  <2>4. [conn[k] EXCEPT !.send = Append(conn[k].send, m)] \in ConnType
    BY <2>1, <2>2 DEF ConnType
  <2> QED BY <1>1, <1>3, <2>1, <2>3, <2>4 DEF ConnType
<1> QED BY <1>2, <1>3

(* Nothing is sent but what is put on an open connection.                  *)
LEMMA SendPlumbing ==
  ASSUME Plumbing, NEW k \in ConnIDs, NEW m \in Message, conn' = Sent(k, m),
         UNCHANGED <<place, clients, page, deleted, settled>>, died' \in BOOLEAN,
         \A g \in ConnIDs : /\ cast'[g].left \subseteq cast[g].left
                            /\ cast'[g].left # {} => cast'[g].stage = cast[g].stage
                            /\ cast[g] = NoCast => cast'[g] = NoCast,
         Types'
  PROVE  Plumbing'
<1>0. \A j \in ConnIDs :
        /\ conn'[j].user = conn[j].user /\ conn'[j].stage = conn[j].stage
        /\ conn'[j].open = conn[j].open /\ (~conn[j].open => conn'[j].send = conn[j].send)
  BY SentIs
<1>1. RegisteredIsUp' /\ OpenIsCurrent'
  <2>1. \A u \in Users : clients[u] # NoConn => clients[u] \in ConnIDs
    BY DEF Plumbing, Types
  <2>2. RegisteredIsUp'
    BY <1>0, <2>1 DEF Plumbing, RegisteredIsUp
  <2>3. OpenIsCurrent'
    BY <1>0 DEF Plumbing, OpenIsCurrent
  <2> QED BY <2>2, <2>3
<1>2. LeftAreRegistered'
  BY DEF Plumbing, LeftAreRegistered, Present
<1>3. CastsAreServed' /\ RoomIsPlayers'
  BY SentIs DEF Plumbing, CastsAreServed, RoomIsPlayers
<1> QED BY <1>1, <1>2, <1>3 DEF Plumbing

(* What a closed socket looks like.                                        *)
LEMMA ClosedIs ==
  ASSUME NEW c \in ConnType
  PROVE  /\ Closed(c) \in ConnType /\ Closed(c).user = c.user /\ Closed(c).stage = c.stage
         /\ ~Closed(c).open /\ Closed(c).send = <<>>
<1>1. <<>> \in Seq(Message)
  BY EmptySeq
<1> QED BY <1>1 DEF Closed, ConnType

(* A disturbed broadcast is where it was.                                   *)
LEMMA DisturbIs ==
  ASSUME Plumbing
  PROVE  /\ Disturb(cast) \in [ConnIDs -> CastType]
         /\ \A g \in ConnIDs :
              /\ Disturb(cast)[g].stage = cast[g].stage /\ Disturb(cast)[g].ids = cast[g].ids
              /\ Disturb(cast)[g].left = cast[g].left /\ ~Disturb(cast)[g].alone
              /\ cast[g] = NoCast => Disturb(cast)[g] = NoCast
<1>1. cast \in [ConnIDs -> CastType]
  BY DEF Plumbing, Types
<1>2. ASSUME NEW g \in ConnIDs
      PROVE  /\ Disturb(cast)[g] \in CastType
             /\ Disturb(cast)[g].stage = cast[g].stage /\ Disturb(cast)[g].ids = cast[g].ids
             /\ Disturb(cast)[g].left = cast[g].left /\ ~Disturb(cast)[g].alone
             /\ cast[g] = NoCast => Disturb(cast)[g] = NoCast
  <2>1. Disturb(cast)[g] = [cast[g] EXCEPT !.alone = FALSE]
    BY DEF Disturb
  <2>2. cast[g] \in CastType
    BY <1>1
  <2>3. [cast[g] EXCEPT !.alone = FALSE] \in CastType
    BY <2>2 DEF CastType
  <2>4. /\ [cast[g] EXCEPT !.alone = FALSE].stage = cast[g].stage
        /\ [cast[g] EXCEPT !.alone = FALSE].ids = cast[g].ids
        /\ [cast[g] EXCEPT !.alone = FALSE].left = cast[g].left
        /\ ~[cast[g] EXCEPT !.alone = FALSE].alone
    BY <2>2 DEF CastType
  <2>5. cast[g] = NoCast => [cast[g] EXCEPT !.alone = FALSE] = NoCast
    <3>1. ~cast[g].alone => [cast[g] EXCEPT !.alone = FALSE] = cast[g]
      BY <2>2 DEF CastType
    <3> QED BY <3>1 DEF NoCast
  <2> QED BY <2>1, <2>3, <2>4, <2>5
<1>3. \A g \in ConnIDs : Disturb(cast)[g] \in CastType
  BY <1>2
<1>4. Disturb(cast) \in [ConnIDs -> CastType]
  BY <1>3 DEF Disturb
<1> QED BY <1>2, <1>4

(* A connection's goroutine is going to broadcast, in the lobby.            *)
LEMMA StartCastIs ==
  ASSUME NEW k \in ConnIDs, NEW c \in [ConnIDs -> CastType]
  PROVE  /\ StartCast(k, c) \in [ConnIDs -> CastType]
         /\ \A g \in ConnIDs :
              /\ StartCast(k, c)[g].left = c[g].left /\ StartCast(k, c)[g].ids = c[g].ids
              /\ StartCast(k, c)[g].alone = c[g].alone
              /\ StartCast(k, c)[g].stage = IF place = "lobby" /\ g = k THEN "due" ELSE c[g].stage
              /\ g # k \/ place # "lobby" => StartCast(k, c)[g] = c[g]
<1>1. CASE place = "lobby"
  <2>1. StartCast(k, c) = [c EXCEPT ![k] = [c[k] EXCEPT !.stage = "due"]]
    BY <1>1 DEF StartCast
  <2>2. c[k] \in CastType
    OBVIOUS
  <2>3. [c[k] EXCEPT !.stage = "due"] \in CastType
    BY <2>2 DEF CastType, CastStages
  <2>4. /\ [c[k] EXCEPT !.stage = "due"].left = c[k].left
        /\ [c[k] EXCEPT !.stage = "due"].ids = c[k].ids
        /\ [c[k] EXCEPT !.stage = "due"].alone = c[k].alone
        /\ [c[k] EXCEPT !.stage = "due"].stage = "due"
    BY <2>2 DEF CastType
  <2> HIDE DEF CastType
  <2> QED BY <1>1, <2>1, <2>3, <2>4
<1>2. CASE place # "lobby"
  BY <1>2 DEF StartCast
<1> QED BY <1>1, <1>2

LEMMA ConnectIs ==
  ASSUME Plumbing, NEW k \in ConnIDs, NEW u \in Users, Connect(k, u)
  PROVE  /\ conn[k].stage = "none" /\ conn[k].send = <<>> /\ ~conn[k].open
         /\ conn' \in [ConnIDs -> ConnType]
         /\ conn'[k].user = u /\ conn'[k].stage = "up" /\ conn'[k].open /\ conn'[k].send = <<>>
         /\ \A j \in ConnIDs \ {k} :
              /\ conn'[j] = IF j = clients[u] THEN Closed(conn[j]) ELSE conn[j]
              /\ conn'[j].user = conn[j].user /\ conn'[j].stage = conn[j].stage
         /\ clients' = [clients EXCEPT ![u] = k] /\ page' = [page EXCEPT ![u].ws = k]
         /\ u \in Visitors /\ ~Connected(u)
         /\ UNCHANGED <<place, deleted, settled, died>>
<1> DEFINE new == [NoConnection EXCEPT !.user = u, !.stage = "up", !.open = TRUE]
<1>1. conn \in [ConnIDs -> ConnType] /\ place \in {"lobby", "room"} /\ place' = place
  BY DEF Plumbing, Types, ConnType, Connect
<1>2. /\ new \in ConnType /\ new.user = u /\ new.stage = "up" /\ new.open /\ new.send = <<>>
  <2>1. <<>> \in Seq(Message)
    BY EmptySeq
  <2> QED BY <2>1 DEF NoConnection, ConnType, Stages
<1>3. /\ conn' \in [ConnIDs -> ConnType]
      /\ conn'[k] = new
      /\ \A j \in ConnIDs \ {k} : conn'[j] = IF j = clients[u] THEN Closed(conn[j]) ELSE conn[j]
  <2>1. conn' = [j \in ConnIDs |->
                   IF j = k THEN new ELSE IF j = clients[u] THEN Closed(conn[j]) ELSE conn[j]]
    BY DEF Connect
  <2> HIDE DEF new
  <2> QED BY <1>1, <1>2, <2>1, ClosedIs
<1> HIDE DEF new
<1>4. conn[k].stage = "none" /\ conn[k].send = <<>> /\ ~conn[k].open
  BY DEF Connect, NoConnection
<1>5. /\ clients' = [clients EXCEPT ![u] = k] /\ page' = [page EXCEPT ![u].ws = k]
      /\ u \in Visitors /\ ~Connected(u)
      /\ UNCHANGED <<deleted, settled, died>>
  BY DEF Connect, lobbyVars
<1> QED BY <1>1, <1>2, <1>3, <1>4, <1>5, ClosedIs

LEMMA ConnectPlumbing ==
  ASSUME Plumbing, NEW k \in ConnIDs, NEW u \in Users, Connect(k, u)
  PROVE  Plumbing'
<1> DEFINE new == conn'[k]
<1>1. conn \in [ConnIDs -> ConnType] /\ place \in {"lobby", "room"} /\ place' = place
  BY ConnectIs DEF Plumbing, Types, ConnType
<1>2. new.user = u /\ new.stage = "up" /\ new.open /\ new.send = <<>>
  BY ConnectIs
<1>3. /\ conn' \in [ConnIDs -> ConnType]
      /\ conn'[k] = new
      /\ \A j \in ConnIDs \ {k} : conn'[j] = IF j = clients[u] THEN Closed(conn[j]) ELSE conn[j]
  BY ConnectIs
<1> HIDE DEF new
<1>4. conn[k].stage = "none" /\ conn[k].send = <<>> /\ ~conn[k].open
  BY ConnectIs
<1>5. /\ clients' = [clients EXCEPT ![u] = k] /\ page' = [page EXCEPT ![u].ws = k]
      /\ u \in Visitors /\ ~Connected(u)
      /\ UNCHANGED <<deleted, settled, died>>
  BY ConnectIs
<1>6. cast[k] = NoCast
  BY <1>4 DEF Plumbing, CastsAreServed
<1>7. /\ cast' \in [ConnIDs -> CastType]
      /\ \A g \in ConnIDs :
           /\ cast'[g].left = {}
           /\ g # k => (cast[g] = NoCast => cast'[g] = NoCast)
           /\ place = "room" => (cast[g] = NoCast => cast'[g] = NoCast)
  <2>1. \A g \in ConnIDs : cast[g].left = {}
    BY DEF Connect, Unlocked, Plumbing, LeftAreRegistered
  <2>2. cast' = StartCast(k, Disturb(cast))
    BY DEF Connect
  <2> QED BY <2>1, <2>2, DisturbIs, StartCastIs, <1>1
<1>8. Types'
  <2>1. conn' \in [ConnIDs -> ConnType]'
    BY <1>1, <1>3 DEF ConnType, Message
  <2>2. page' \in [Users -> PageType]
    BY <1>5 DEF Plumbing, Types, PageType
  <2> QED BY <1>1, <1>5, <1>7, <2>1, <2>2 DEF Plumbing, Types
<1>9. RegisteredIsUp'
  BY <1>1, <1>2, <1>3, <1>4, <1>5, ConstantFacts, ClosedIs DEF Plumbing, Types, RegisteredIsUp
<1>10. OpenIsCurrent'
  BY <1>1, <1>2, <1>3, <1>4, <1>5, ConstantFacts, ClosedIs DEF Plumbing, Types, OpenIsCurrent, Connected
<1>11. LeftAreRegistered'
  BY <1>7 DEF LeftAreRegistered
<1>12. CastsAreServed'
  <2>1. ASSUME NEW j \in ConnIDs, j # k
        PROVE  conn'[j].stage = conn[j].stage
    BY <1>1, <1>3, <2>1, ClosedIs
  <2> QED BY <1>2, <1>3, <1>7, <2>1 DEF Plumbing, CastsAreServed
<1>13. RoomIsPlayers'
  BY <1>1, <1>2, <1>3, <1>5, <1>7, ClosedIs, ConstantFacts DEF Plumbing, Types, RoomIsPlayers, Visitors
<1> QED BY <1>8, <1>9, <1>10, <1>11, <1>12, <1>13 DEF Plumbing

(* What every step but a connection's own keeps of the connections: who is  *)
(* who, and how far each is.                                               *)
LEMMA SocketFailsPlumbing ==
  ASSUME Plumbing, NEW k \in ConnIDs, SocketFails(k)
  PROVE  /\ Plumbing'
         /\ \A j \in ConnIDs : /\ conn'[j].user = conn[j].user /\ conn'[j].stage = conn[j].stage
                               /\ j # k => conn'[j] = conn[j]
         /\ ~conn'[k].open /\ conn'[k].send = <<>>
<1>1. /\ conn \in [ConnIDs -> ConnType]
      /\ UNCHANGED <<place, clients, page, cast, deleted, settled, died>>
  BY DEF SocketFails, Plumbing, Types, lobbyVars
<1>2. /\ conn' \in [ConnIDs -> ConnType]
      /\ conn'[k] = Closed(conn[k])
      /\ \A j \in ConnIDs : /\ conn'[j].user = conn[j].user /\ conn'[j].stage = conn[j].stage
                            /\ j # k => conn'[j] = conn[j]
  <2>1. conn' = [conn EXCEPT ![k] = Closed(conn[k])]
    BY DEF SocketFails
  <2> QED BY <1>1, <2>1, ClosedIs
<1>3. Types'
  BY <1>1, <1>2 DEF Plumbing, Types, ConnType, Message
<1>4. RegisteredIsUp' /\ LeftAreRegistered' /\ CastsAreServed' /\ RoomIsPlayers'
  <2>1. RegisteredIsUp'
    BY <1>1, <1>2, ConstantFacts DEF Plumbing, Types, RegisteredIsUp
  <2>2. LeftAreRegistered' /\ CastsAreServed'
    BY <1>1, <1>2 DEF Plumbing, LeftAreRegistered, CastsAreServed, Present
  <2>3. RoomIsPlayers'
    BY <1>1, <1>2 DEF Plumbing, RoomIsPlayers
  <2> QED BY <2>1, <2>2, <2>3
<1>5. OpenIsCurrent'
  BY <1>1, <1>2, ClosedIs DEF Plumbing, OpenIsCurrent
<1>6. ~conn'[k].open /\ conn'[k].send = <<>>
  BY <1>1, <1>2, ClosedIs
<1> QED BY <1>2, <1>3, <1>4, <1>5, <1>6 DEF Plumbing

LEMMA ReloadPlumbing ==
  ASSUME Plumbing, NEW u \in Users, Reload(u)
  PROVE  /\ Plumbing'
         /\ \A j \in ConnIDs : /\ conn'[j].user = conn[j].user /\ conn'[j].stage = conn[j].stage
                               /\ IF j = page[u].ws THEN ~conn'[j].open /\ conn'[j].send = <<>>
                                  ELSE conn'[j] = conn[j]
<1>1. /\ conn \in [ConnIDs -> ConnType] /\ page \in [Users -> PageType]
      /\ page' = [page EXCEPT ![u] = NewPage]
      /\ UNCHANGED <<place, clients, cast, deleted, settled, died>>
  BY DEF Reload, Plumbing, Types, lobbyVars
<1>2. /\ conn' \in [ConnIDs -> ConnType]
      /\ \A j \in ConnIDs : /\ conn'[j].user = conn[j].user /\ conn'[j].stage = conn[j].stage
                            /\ conn'[j] = IF j = page[u].ws THEN Closed(conn[j]) ELSE conn[j]
  BY <1>1, ClosedIs DEF Reload
<1>3. Types'
  <2>1. NewPage \in PageType
    BY DEF NewPage, PageType, Phases
  <2> QED BY <1>1, <1>2, <2>1 DEF Plumbing, Types, ConnType, Message
<1>4. RegisteredIsUp' /\ LeftAreRegistered' /\ CastsAreServed' /\ RoomIsPlayers'
  <2>1. RegisteredIsUp'
    BY <1>1, <1>2, ConstantFacts DEF Plumbing, Types, RegisteredIsUp
  <2>2. LeftAreRegistered' /\ CastsAreServed'
    BY <1>1, <1>2 DEF Plumbing, LeftAreRegistered, CastsAreServed, Present
  <2>3. RoomIsPlayers'
    BY <1>1, <1>2 DEF Plumbing, RoomIsPlayers
  <2> QED BY <2>1, <2>2, <2>3
<1>5. OpenIsCurrent'
  <2>1. ASSUME NEW k \in ConnIDs, conn'[k].open
        PROVE  clients'[conn'[k].user] = k /\ page'[conn'[k].user].ws = k
    <3>1. conn'[k] = conn[k] /\ k # page[u].ws
      BY <1>1, <1>2, <2>1, ClosedIs
    <3>2. conn[k].user \in Users /\ clients[conn[k].user] = k /\ page[conn[k].user].ws = k
      BY <1>1, <2>1, <3>1 DEF Plumbing, OpenIsCurrent, ConnType
    <3>3. page'[conn[k].user] = page[conn[k].user]
      BY <1>1, <3>1, <3>2
    <3> QED BY <1>1, <3>1, <3>2, <3>3
  <2>2. ASSUME NEW k \in ConnIDs, ~conn'[k].open
        PROVE  conn'[k].send = <<>>
    BY <1>1, <1>2, <2>2, ClosedIs DEF Plumbing, OpenIsCurrent
  <2> QED BY <2>1, <2>2 DEF OpenIsCurrent
<1>6. \A j \in ConnIDs : IF j = page[u].ws THEN ~conn'[j].open /\ conn'[j].send = <<>>
                         ELSE conn'[j] = conn[j]
  BY <1>1, <1>2, ClosedIs
<1> QED BY <1>2, <1>3, <1>4, <1>5, <1>6 DEF Plumbing

LEMMA FlushPlumbing ==
  ASSUME Plumbing, NEW k \in ConnIDs, Flush(k)
  PROVE  /\ Plumbing'
         /\ UNCHANGED conn
         /\ \A v \in Users : /\ page'[v].ws = page[v].ws /\ page'[v].list = page[v].list
                             /\ page'[v].knowsRoom = page[v].knowsRoom
                             /\ page'[v].phase = page[v].phase /\ page'[v].round = page[v].round
<1> DEFINE u == conn[k].user
<1>1. /\ conn \in [ConnIDs -> ConnType] /\ page \in [Users -> PageType]
      /\ cast \in [ConnIDs -> CastType]
      /\ conn[k].stage = "up" /\ u \in Users /\ page' = [page EXCEPT ![u] = [page[u] EXCEPT !.queued = FALSE]]
      /\ cast[k] = NoCast /\ cast' = StartCast(k, cast)
      /\ UNCHANGED <<place, conn, clients, deleted, settled, died>>
  BY DEF Flush, Plumbing, Types, ConnType, Reads
<1>2. /\ page' \in [Users -> PageType]
      /\ \A v \in Users : /\ page'[v].ws = page[v].ws /\ page'[v].list = page[v].list
                          /\ page'[v].knowsRoom = page[v].knowsRoom
                          /\ page'[v].phase = page[v].phase /\ page'[v].round = page[v].round
  <2>1. page[u] \in PageType
    BY <1>1
  <2>2. LET p == [page[u] EXCEPT !.queued = FALSE]
        IN  /\ p \in PageType /\ p.ws = page[u].ws /\ p.list = page[u].list
            /\ p.knowsRoom = page[u].knowsRoom /\ p.phase = page[u].phase /\ p.round = page[u].round
    BY <2>1 DEF PageType
  <2> HIDE DEF PageType, u
  <2> QED BY <1>1, <2>1, <2>2
<1>3. Types'
  BY <1>1, <1>2, StartCastIs DEF Plumbing, Types, ConnType, Message
<1>4. RegisteredIsUp' /\ OpenIsCurrent'
  BY <1>1, <1>2 DEF Plumbing, Types, ConnType, RegisteredIsUp, OpenIsCurrent
<1>5. LeftAreRegistered' /\ CastsAreServed' /\ RoomIsPlayers'
  <2>1. cast[k].left = {}
    BY <1>1 DEF NoCast
  <2> QED BY <1>1, <2>1, StartCastIs, ConstantFacts
        DEF Plumbing, Types, LeftAreRegistered, CastsAreServed, RoomIsPlayers, Present
<1> QED BY <1>1, <1>2, <1>3, <1>4, <1>5 DEF Plumbing

LEMMA UnregisterPlumbing ==
  ASSUME Plumbing, NEW k \in ConnIDs, Unregister(k)
  PROVE  /\ Plumbing'
         /\ conn[k].stage = "up" /\ conn'[k].stage = "removed"
         /\ \A j \in ConnIDs : /\ conn'[j].user = conn[j].user /\ conn'[j].open = conn[j].open
                               /\ conn'[j].send = conn[j].send
                               /\ j # k => conn'[j].stage = conn[j].stage
<1> DEFINE u == conn[k].user
<1>1. /\ conn \in [ConnIDs -> ConnType] /\ cast \in [ConnIDs -> CastType]
      /\ conn[k].stage = "up" /\ ~conn[k].open /\ u \in Users
      /\ conn' = [conn EXCEPT ![k] = [conn[k] EXCEPT !.stage = "removed"]]
      /\ cast[k] = NoCast /\ cast' = Disturb(cast)
      /\ clients' = IF clients[u] = k THEN [clients EXCEPT ![u] = NoConn] ELSE clients
      /\ UNCHANGED <<place, page, deleted, settled, died>>
  BY DEF Unregister, Plumbing, Types, ConnType, Reads, roomVars
<1>2. /\ conn' \in [ConnIDs -> ConnType]
      /\ conn'[k].stage = "removed"
      /\ \A j \in ConnIDs : /\ conn'[j].user = conn[j].user /\ conn'[j].open = conn[j].open
                            /\ conn'[j].send = conn[j].send
                            /\ j # k => conn'[j].stage = conn[j].stage
  <2>1. conn[k] \in ConnType
    BY <1>1
  <2>2. [conn[k] EXCEPT !.stage = "removed"] \in ConnType
    BY <2>1 DEF ConnType, Stages
  <2>3. \A c \in ConnType : LET d == [c EXCEPT !.stage = "removed"]
                             IN  d.user = c.user /\ d.open = c.open /\ d.send = c.send /\ d.stage = "removed"
    BY DEF ConnType
  <2> HIDE DEF ConnType
  <2> QED BY <1>1, <2>1, <2>2, <2>3
<1>3. clients' \in [Users -> ConnIDs \cup {NoConn}]
  BY <1>1 DEF Plumbing, Types
<1>4. Types'
  BY <1>1, <1>2, <1>3, DisturbIs DEF Plumbing, Types, ConnType, Message
<1>5. RegisteredIsUp' /\ OpenIsCurrent'
  BY <1>1, <1>2, ConstantFacts DEF Plumbing, Types, ConnType, RegisteredIsUp, OpenIsCurrent
<1>6. \A g \in ConnIDs : cast[g].left = {}
  BY DEF Unregister, Unlocked, Plumbing, LeftAreRegistered
<1>7. LeftAreRegistered' /\ CastsAreServed' /\ RoomIsPlayers'
  BY <1>1, <1>2, <1>6, DisturbIs, ConstantFacts
     DEF Plumbing, Types, LeftAreRegistered, CastsAreServed, RoomIsPlayers, Present
<1> QED BY <1>1, <1>2, <1>4, <1>5, <1>7 DEF Plumbing

LEMMA CloseSendPlumbing ==
  ASSUME Plumbing, NEW k \in ConnIDs, CloseSend(k)
  PROVE  /\ Plumbing'
         /\ conn[k].stage = "removed" /\ conn'[k].stage = "closed"
         /\ \A j \in ConnIDs : /\ conn'[j].user = conn[j].user /\ conn'[j].open = conn[j].open
                               /\ conn'[j].send = conn[j].send
                               /\ j # k => conn'[j].stage = conn[j].stage
<1>1. /\ conn \in [ConnIDs -> ConnType] /\ cast \in [ConnIDs -> CastType]
      /\ conn[k].stage = "removed"
      /\ conn' = [conn EXCEPT ![k] = [conn[k] EXCEPT !.stage = "closed"]]
      /\ cast[k] = NoCast /\ cast' = StartCast(k, cast)
      /\ UNCHANGED <<place, page, clients, deleted, settled, died>>
  BY DEF CloseSend, Plumbing, Types, CastsAreServed, roomVars
<1>2. /\ conn' \in [ConnIDs -> ConnType]
      /\ conn'[k].stage = "closed"
      /\ \A j \in ConnIDs : /\ conn'[j].user = conn[j].user /\ conn'[j].open = conn[j].open
                            /\ conn'[j].send = conn[j].send
                            /\ j # k => conn'[j].stage = conn[j].stage
  <2>1. conn[k] \in ConnType
    BY <1>1
  <2>2. [conn[k] EXCEPT !.stage = "closed"] \in ConnType
    BY <2>1 DEF ConnType, Stages
  <2>3. \A c \in ConnType : LET d == [c EXCEPT !.stage = "closed"]
                             IN  d.user = c.user /\ d.open = c.open /\ d.send = c.send /\ d.stage = "closed"
    BY DEF ConnType
  <2> HIDE DEF ConnType
  <2> QED BY <1>1, <2>1, <2>2, <2>3
<1>3. Types'
  BY <1>1, <1>2, StartCastIs DEF Plumbing, Types, ConnType, Message
<1>4. \A u \in Users : clients[u] # k
  BY <1>1, ConstantFacts DEF Plumbing, RegisteredIsUp
<1>5. RegisteredIsUp' /\ OpenIsCurrent'
  BY <1>1, <1>2, <1>4, ConstantFacts DEF Plumbing, Types, ConnType, RegisteredIsUp, OpenIsCurrent
<1>6. cast[k].left = {}
  BY <1>1 DEF NoCast
<1>7. LeftAreRegistered' /\ CastsAreServed' /\ RoomIsPlayers'
  BY <1>1, <1>2, <1>6, StartCastIs, ConstantFacts
     DEF Plumbing, Types, LeftAreRegistered, CastsAreServed, RoomIsPlayers, Present
<1> QED BY <1>1, <1>2, <1>3, <1>5, <1>7 DEF Plumbing

(* The steps of a broadcast, which there are only in the lobby.            *)
LEMMA ListPlumbing ==
  ASSUME Plumbing, place = "lobby", NEW g \in ConnIDs, ListPresent(g)
  PROVE  /\ Plumbing'
         /\ cast'[g].stage = "listed" /\ cast'[g].ids = Listed /\ cast'[g].left = {}
         /\ cast'[g].alone <=> \A h \in ConnIDs : ~Running(h)
         /\ \A h \in ConnIDs \ {g} : cast'[h] = Disturb(cast)[h]
<1> DEFINE new == [stage |-> "listed", ids |-> Listed, left |-> {},
                   alone |-> \A h \in ConnIDs : ~Running(h)]
<1>1. /\ new \in CastType /\ new.stage = "listed" /\ new.ids = Listed /\ new.left = {}
      /\ new.alone <=> \A h \in ConnIDs : ~Running(h)
  BY DEF CastType, CastStages, Listed, Present
<1> HIDE DEF new
<1>2. /\ cast[g].stage = "due" /\ cast' = [Disturb(cast) EXCEPT ![g] = new]
      /\ UNCHANGED <<place, conn, clients, page, deleted, settled, died>>
  BY DEF ListPresent, new
<1>3. /\ cast' \in [ConnIDs -> CastType] /\ cast'[g] = new
      /\ \A h \in ConnIDs \ {g} : cast'[h] = Disturb(cast)[h]
  BY <1>1, <1>2, DisturbIs
<1>4. Types'
  BY <1>2, <1>3 DEF Plumbing, Types, ConnType, Message
<1>5. RegisteredIsUp' /\ OpenIsCurrent'
  BY <1>2 DEF Plumbing, RegisteredIsUp, OpenIsCurrent
<1>6. conn[g].stage \notin {"none", "removed"}
  BY <1>2 DEF Plumbing, CastsAreServed, NoCast
<1>7. LeftAreRegistered' /\ CastsAreServed' /\ RoomIsPlayers'
  BY <1>1, <1>2, <1>3, <1>6, DisturbIs DEF Plumbing, LeftAreRegistered, CastsAreServed, RoomIsPlayers, Present
<1> QED BY <1>1, <1>3, <1>4, <1>5, <1>7 DEF Plumbing

LEMMA SendListPlumbing ==
  ASSUME Plumbing, place = "lobby", NEW g \in ConnIDs, SendList(g)
  PROVE  /\ Plumbing'
         /\ cast'[g].stage = "sending" /\ cast'[g].left = {clients[u] : u \in Present}
         /\ cast'[g].ids \subseteq cast[g].ids /\ cast[g].ids \ deleted \subseteq cast'[g].ids
         /\ cast'[g].alone = cast[g].alone
         /\ \A h \in ConnIDs \ {g} : cast'[h] = cast[h]
<1> DEFINE all == {clients[u] : u \in Present}
<1>1. all \subseteq ConnIDs
  BY DEF Plumbing, Types, Present
<1> HIDE DEF all
<1>2. /\ cast[g].stage = "listed" /\ cast \in [ConnIDs -> CastType] /\ cast[g] \in CastType
      /\ UNCHANGED <<place, conn, clients, page, deleted, settled, died>>
  BY DEF SendList, Plumbing, Types
<1>3. PICK seen \in SUBSET (cast[g].ids \cap deleted) :
        cast' = [cast EXCEPT ![g] = [cast[g] EXCEPT !.stage = "sending", !.ids = cast[g].ids \ seen,
                                                    !.left = all]]
  BY DEF SendList, all
<1>4. /\ cast' \in [ConnIDs -> CastType]
      /\ cast'[g].stage = "sending" /\ cast'[g].left = all
      /\ cast'[g].ids = cast[g].ids \ seen /\ cast'[g].alone = cast[g].alone
      /\ \A h \in ConnIDs \ {g} : cast'[h] = cast[h]
  <2>1. \A c \in CastType :
          LET d == [c EXCEPT !.stage = "sending", !.ids = c.ids \ seen, !.left = all]
          IN  /\ d \in CastType /\ d.stage = "sending" /\ d.left = all
              /\ d.ids = c.ids \ seen /\ d.alone = c.alone
    BY <1>1 DEF CastType, CastStages
  <2> HIDE DEF CastType
  <2> QED BY <1>2, <1>3, <2>1
<1>5. Types'
  BY <1>2, <1>4 DEF Plumbing, Types, ConnType, Message
<1>6. RegisteredIsUp' /\ OpenIsCurrent'
  BY <1>2 DEF Plumbing, RegisteredIsUp, OpenIsCurrent
<1>7. conn[g].stage \notin {"none", "removed"}
  BY <1>2 DEF Plumbing, CastsAreServed, NoCast
<1>8. LeftAreRegistered' /\ CastsAreServed' /\ RoomIsPlayers'
  <2>1. \A h \in ConnIDs : \A k \in cast'[h].left : cast'[h].stage = "sending" /\ k \in all
    BY <1>4 DEF Plumbing, LeftAreRegistered, all
  <2>2. LeftAreRegistered'
    BY <1>2, <2>1 DEF LeftAreRegistered, Present, all
  <2>3. CastsAreServed' /\ RoomIsPlayers'
    BY <1>2, <1>4, <1>7 DEF Plumbing, CastsAreServed, RoomIsPlayers
  <2> QED BY <2>2, <2>3
<1> QED BY <1>4, <1>5, <1>6, <1>8 DEF Plumbing, all

LEMMA SendOnePlumbing ==
  ASSUME Plumbing, place = "lobby", NEW g \in ConnIDs, SendOne(g)
  PROVE  /\ Plumbing'
         /\ ~died'
         /\ \E k \in cast[g].left :
              /\ conn' = Sent(k, cast[g].ids)
              /\ cast'[g].left = cast[g].left \ {k} /\ cast'[g].alone = (cast[g].alone /\ HasRoom(k))
         /\ cast'[g].stage = "sending" /\ cast'[g].ids = cast[g].ids
         /\ \A h \in ConnIDs \ {g} : cast'[h] = cast[h]
<1>1. PICK k \in cast[g].left :
        /\ died' = ~SendOpen(k)
        /\ conn' = Sent(k, cast[g].ids)
        /\ cast' = [cast EXCEPT ![g] = [cast[g] EXCEPT !.left = cast[g].left \ {k},
                                                       !.alone = cast[g].alone /\ HasRoom(k)]]
  BY DEF SendOne
<1>2. /\ cast \in [ConnIDs -> CastType] /\ cast[g] \in CastType /\ cast[g].stage = "sending"
      /\ k \in ConnIDs /\ cast[g].ids \in Message
      /\ UNCHANGED <<place, clients, page, deleted, settled>>
  BY DEF SendOne, Plumbing, Types, CastType, Message
<1>3. SendOpen(k) /\ ~died' /\ HasRoom(k) \in BOOLEAN
  <2>1. PICK u \in Present : k = clients[u]
    BY <1>1, <1>2 DEF Plumbing, LeftAreRegistered
  <2>2. conn[k].stage = "up"
    BY <2>1 DEF Plumbing, RegisteredIsUp, Present
  <2>3. SendOpen(k)
    BY <2>2 DEF SendOpen
  <2>4. HasRoom(k) \in BOOLEAN
    BY DEF HasRoom
  <2>5. ~died'
    BY <1>1, <2>3
  <2> QED BY <2>3, <2>4, <2>5
<1>4. \A c \in CastType : LET d == [c EXCEPT !.left = c.left \ {k}, !.alone = c.alone /\ HasRoom(k)]
                          IN  /\ d \in CastType /\ d.stage = c.stage /\ d.left = c.left \ {k}
                              /\ d.ids = c.ids /\ d.alone = (c.alone /\ HasRoom(k))
  BY <1>3 DEF CastType
<1>5. /\ cast' \in [ConnIDs -> CastType]
      /\ cast'[g].stage = "sending" /\ cast'[g].left = cast[g].left \ {k}
      /\ cast'[g].ids = cast[g].ids /\ cast'[g].alone = (cast[g].alone /\ HasRoom(k))
      /\ \A h \in ConnIDs \ {g} : cast'[h] = cast[h]
  <2> HIDE DEF CastType
  <2> QED BY <1>1, <1>2, <1>4
<1>6. Types'
  BY <1>1, <1>2, <1>3, <1>5, SentIs DEF Plumbing, Types, ConnType, Message
<1>7. cast[g] # NoCast
  BY <1>2 DEF NoCast
<1>8. Plumbing'
  BY <1>1, <1>2, <1>3, <1>5, <1>6, <1>7, SendPlumbing
<1> QED BY <1>1, <1>3, <1>5, <1>8

LEMMA EndCastPlumbing ==
  ASSUME Plumbing, NEW g \in ConnIDs, EndCast(g)
  PROVE  Plumbing'
<1>1. NoCast \in CastType /\ NoCast.left = {}
  BY DEF NoCast, CastType, CastStages
<1>2. /\ cast' = [cast EXCEPT ![g] = NoCast] /\ cast \in [ConnIDs -> CastType] /\ cast[g] \in CastType
      /\ UNCHANGED <<place, conn, clients, page, deleted, died>>
  BY DEF EndCast, Plumbing, Types
<1>3. Types'
  BY <1>1, <1>2 DEF EndCast, Plumbing, Types, ConnType, Message, CastType
<1>4. RegisteredIsUp' /\ OpenIsCurrent'
  BY <1>2 DEF Plumbing, RegisteredIsUp, OpenIsCurrent
<1>5. LeftAreRegistered' /\ CastsAreServed' /\ RoomIsPlayers'
  BY <1>1, <1>2 DEF Plumbing, LeftAreRegistered, CastsAreServed, RoomIsPlayers, Present
<1> QED BY <1>3, <1>4, <1>5 DEF Plumbing

-----------------------------------------------------------------------------
(* The room.                                                               *)

RoomPhases == {"waiting", "memorization", "stealing", "guessing", "round_result", "completed",
               "abandoned"}
DrainType == [stage : {"idle", "encode", "send"}, event : Event, conn : ConnIDs \cup {NoConn}]

RoomTypes ==
  /\ room \in [phase : RoomPhases, round : Nat]
  /\ resync \in BOOLEAN
  /\ events \in Seq(Event) /\ Len(events) <= EventsCap
  /\ drain \in DrainType
  /\ drain.stage = "send" => drain.conn \in ConnIDs
  /\ behind \in BOOLEAN

LEMMA InitRoomTypes == Init => RoomTypes
<1> SUFFICES ASSUME Init PROVE RoomTypes
  OBVIOUS
<1>1. <<>> \in Seq(Event)
  BY EmptySeq
<1>2. NotDraining \in DrainType /\ NotDraining.stage = "idle"
  BY DEF NotDraining, DrainType, NoEvent, Event, Phases
<1>3. Len(<<>>) = 0 /\ 0 <= EventsCap
  BY ConstantFacts
<1> QED BY <1>1, <1>2, <1>3 DEF Init, RoomTypes, RoomPhases

(* Of a list, as many as fit are kept.                                     *)
LEMMA FittingIs ==
  ASSUME RoomTypes, NEW evs \in Seq(Event)
  PROVE  /\ Fitting(evs) \in 0 .. Len(evs)
         /\ SubSeq(evs, 1, Fitting(evs)) \in Seq(Event)
         /\ Len(SubSeq(evs, 1, Fitting(evs))) = Fitting(evs)
         /\ \A i \in 1 .. Fitting(evs) : SubSeq(evs, 1, Fitting(evs))[i] = evs[i]
         /\ Fitting(evs) <= EventsCap - Len(events)
<1>1. Len(evs) \in Nat /\ Len(events) \in Nat /\ EventsCap \in Nat /\ Len(events) <= EventsCap
  BY ConstantFacts, LenProperties DEF RoomTypes
<1>2. \A a, b \in Int : Min({a, b}) = IF a <= b THEN a ELSE b
  BY DEF Min
<1>3. Fitting(evs) \in 0 .. Len(evs) /\ Fitting(evs) <= EventsCap - Len(events)
  BY <1>1, <1>2 DEF Fitting
<1> HIDE DEF Fitting
<1>4. 1 \in 1 .. Len(evs) + 1 /\ Fitting(evs) \in 0 .. Len(evs)
  BY <1>1, <1>3
<1> QED BY <1>1, <1>3, <1>4, SubSeqProperties

(* Whether the page makes anything of an event but to learn of the room,   *)
(* whether it learns of the room, and whether it must know it already.     *)
Effective(e) == e.phase \notin {"started", "ignored"}
TellsRoom(e) == e.phase \in {"waiting", "started"}
NeedsRoom(e) == e.phase \in {"memorization", "completed"}

LEMMA ShowsIs ==
  ASSUME NEW p \in PageType, NEW e \in Event
  PROVE  /\ Shows(p, e) \in PageType
         /\ Shows(p, e).ws = p.ws
         /\ Shows(p, e).knowsRoom = (p.knowsRoom \/ TellsRoom(e))
         /\ ~Effective(e) => Shows(p, e).phase = p.phase /\ Shows(p, e).round = p.round
         /\ Effective(e) =>
              /\ Shows(p, e).round = e.round
              /\ Shows(p, e).phase = IF NeedsRoom(e) /\ ~p.knowsRoom THEN "blank" ELSE e.phase
<1>1. CASE e.phase = "waiting"
  BY <1>1 DEF Shows, PageType, Event, Phases, Effective, TellsRoom, NeedsRoom
<1>2. CASE e.phase = "started"
  BY <1>2 DEF Shows, PageType, Event, Phases, Effective, TellsRoom, NeedsRoom
<1>3. CASE e.phase = "ignored"
  BY <1>3 DEF Shows, PageType, Event, Phases, Effective, TellsRoom, NeedsRoom
<1>4. CASE e.phase \in {"memorization", "completed"} /\ ~p.knowsRoom
  BY <1>4 DEF Shows, PageType, Event, Phases, Effective, TellsRoom, NeedsRoom
<1>5. CASE e.phase \notin {"waiting", "started", "ignored"}
           /\ ~(e.phase \in {"memorization", "completed"} /\ ~p.knowsRoom)
  <2>1. Shows(p, e) = [p EXCEPT !.phase = e.phase, !.round = e.round]
    BY <1>5 DEF Shows
  <2> QED BY <1>5, <2>1 DEF PageType, Event, Phases, Effective, TellsRoom, NeedsRoom
<1> QED BY <1>1, <1>2, <1>3, <1>4, <1>5

LEMMA DeliverPlumbing ==
  ASSUME Plumbing, NEW k \in ConnIDs, Deliver(k)
  PROVE  /\ Plumbing'
         /\ conn[k].open /\ page[conn[k].user].ws = k
         /\ conn[k].send \in Seq(Message) /\ conn[k].send # <<>>
         /\ \A j \in ConnIDs : /\ conn'[j].user = conn[j].user /\ conn'[j].stage = conn[j].stage
                               /\ conn'[j].open = conn[j].open
                               /\ conn'[j].send = IF j = k THEN Tail(conn[j].send) ELSE conn[j].send
         /\ \A u \in Users :
              /\ page'[u].ws = page[u].ws
              /\ u # conn[k].user => page'[u] = page[u]
         /\ LET p == page[conn[k].user]
                new == page'[conn[k].user]
            IN  /\ place = "lobby" => /\ new.list = Head(conn[k].send)
                                      /\ new.phase = p.phase /\ new.round = p.round
                /\ place = "room" => new = Shows(p, Head(conn[k].send)) /\ Head(conn[k].send) \in Event
<1> DEFINE u == conn[k].user
           m == Head(conn[k].send)
           new == IF place = "lobby" THEN [page[u] EXCEPT !.list = m] ELSE Shows(page[u], m)
<1>1. /\ conn \in [ConnIDs -> ConnType] /\ page \in [Users -> PageType] /\ conn[k] \in ConnType
      /\ u \in Users /\ conn[k].send \in Seq(Message) /\ conn[k].send # <<>> /\ page[u] \in PageType
      /\ place \in {"lobby", "room"}
      /\ UNCHANGED <<place, clients, cast, deleted, settled, died>>
  BY DEF Deliver, Plumbing, Types, ConnType, lobbyVars
<1>2. /\ conn' = [conn EXCEPT ![k] = [conn[k] EXCEPT !.send = Tail(conn[k].send)]]
      /\ page' = [page EXCEPT ![u] = new]
  BY DEF Deliver
<1>3. m \in Message /\ Tail(conn[k].send) \in Seq(Message)
  BY <1>1, HeadTailProperties
<1>4. conn[k].open /\ page[u].ws = k
  BY <1>1 DEF Plumbing, OpenIsCurrent
<1>5. /\ new \in PageType /\ new.ws = page[u].ws
      /\ place = "lobby" => new.list = m /\ new.phase = page[u].phase /\ new.round = page[u].round
      /\ place = "room" => new = Shows(page[u], m) /\ m \in Event
  <2>1. CASE place = "lobby"
    BY <1>1, <1>3, <2>1 DEF PageType, Message
  <2>2. CASE place = "room"
    BY <1>1, <1>3, <2>2, ShowsIs DEF Message
  <2> QED BY <1>1, <2>1, <2>2
<1>6. [conn[k] EXCEPT !.send = Tail(conn[k].send)] \in ConnType
  BY <1>1, <1>3 DEF ConnType
<1>7. /\ conn' \in [ConnIDs -> ConnType]
      /\ \A j \in ConnIDs : /\ conn'[j].user = conn[j].user /\ conn'[j].stage = conn[j].stage
                            /\ conn'[j].open = conn[j].open
                            /\ conn'[j].send = IF j = k THEN Tail(conn[j].send) ELSE conn[j].send
  <2>1. \A c \in ConnType : LET d == [c EXCEPT !.send = Tail(conn[k].send)]
                            IN  /\ d.user = c.user /\ d.stage = c.stage /\ d.open = c.open
                                /\ d.send = Tail(conn[k].send)
    BY DEF ConnType
  <2> HIDE DEF ConnType
  <2> QED BY <1>1, <1>2, <1>6, <2>1
<1> HIDE DEF new, u, m
<1>8. /\ page' \in [Users -> PageType] /\ page'[u] = new
      /\ \A v \in Users : page'[v].ws = page[v].ws /\ (v # u => page'[v] = page[v])
  BY <1>1, <1>2, <1>5
<1>9. Types'
  BY <1>1, <1>7, <1>8 DEF Plumbing, Types, ConnType, Message
<1>10. RegisteredIsUp' /\ LeftAreRegistered' /\ CastsAreServed' /\ RoomIsPlayers'
  <2>1. RegisteredIsUp'
    BY <1>1, <1>7, ConstantFacts DEF Plumbing, Types, RegisteredIsUp
  <2>2. LeftAreRegistered' /\ CastsAreServed'
    BY <1>1, <1>7 DEF Plumbing, LeftAreRegistered, CastsAreServed, Present
  <2>3. RoomIsPlayers'
    BY <1>1, <1>7 DEF Plumbing, RoomIsPlayers
  <2> QED BY <2>1, <2>2, <2>3
<1>11. OpenIsCurrent'
  <2>1. \A j \in ConnIDs : conn[j].user \in Users
    BY <1>1 DEF ConnType
  <2> QED BY <1>1, <1>4, <1>7, <1>8, <2>1 DEF Plumbing, OpenIsCurrent
<1> QED BY <1>1, <1>4, <1>5, <1>7, <1>8, <1>9, <1>10, <1>11 DEF Plumbing, u, m

(* What the room, and the goroutine that hands out its events, do.         *)
LEMMA RoomPlumbing ==
  ASSUME Plumbing, UNCHANGED <<place, conn, clients, page, cast, deleted, settled>>, died' \in BOOLEAN
  PROVE  Plumbing'
BY DEF Plumbing, Types, ConnType, Message, RegisteredIsUp, OpenIsCurrent, LeftAreRegistered, Present,
   CastsAreServed, RoomIsPlayers

LEMMA SendEventPlumbing ==
  ASSUME Plumbing, RoomTypes, place = "room", Send
  PROVE  Plumbing' /\ drain.conn \in ConnIDs /\ drain.event \in Message
<1>1. drain.conn \in ConnIDs /\ drain.event \in Message
  BY DEF Send, RoomTypes, DrainType, Message
<1>2. /\ conn' = Sent(drain.conn, drain.event) /\ died' \in BOOLEAN
      /\ UNCHANGED <<place, clients, page, cast, deleted, settled>>
  BY DEF Send, DrainOnly, lobbyVars, SendOpen
<1>3. Types'
  BY <1>1, <1>2, SentIs DEF Plumbing, Types, ConnType, Message
<1>4. Plumbing'
  BY <1>1, <1>2, <1>3, SendPlumbing
<1> QED BY <1>1, <1>4

(* A page's socket is the user's own connection, and the connection an     *)
(* event is about to be sent on has been made.                             *)
SocketsAreUsed ==
  /\ \A u \in Users : page[u].ws # NoConn =>
       conn[page[u].ws].user = u /\ conn[page[u].ws].stage # "none"
  /\ drain.stage = "send" => conn[drain.conn].stage # "none"

Base == Plumbing /\ RoomTypes /\ SocketsAreUsed

(* Room steps keep the types of what they change.                          *)
LEMMA EmitTypes ==
  ASSUME RoomTypes, NEW evs \in Seq(Event), Emit(evs),
         room' \in [phase : RoomPhases, round : Nat], resync' \in BOOLEAN, UNCHANGED drain
  PROVE  RoomTypes'
<1> DEFINE f == Fitting(evs)
           kept == SubSeq(evs, 1, f)
<1>1. /\ kept \in Seq(Event) /\ Len(kept) = f /\ f \in 0 .. Len(evs) /\ f <= EventsCap - Len(events)
  BY FittingIs
<1>2. events' = events \o kept /\ behind' = (behind \/ f < Len(evs))
  BY DEF Emit
<1> HIDE DEF f, kept
<1>3. events' \in Seq(Event) /\ Len(events') = Len(events) + Len(kept)
  BY <1>1, <1>2, ConcatProperties DEF RoomTypes
<1>4. Len(events') <= EventsCap
  BY <1>1, <1>3, ConstantFacts, LenProperties DEF RoomTypes
<1>5. behind' \in BOOLEAN
  BY <1>2 DEF RoomTypes
<1> QED BY <1>3, <1>4, <1>5 DEF RoomTypes

LEMMA ToldIs ==
  ASSUME NEW ph \in Phases, room'.round \in Nat
  PROVE  Told(ph) \in Event /\ Told(ph).phase = ph /\ Told(ph).round = room'.round
BY DEF Told, Event

LEMMA RoomStateIs ==
  RoomState \in Event /\ RoomState.round = 0
  /\ RoomState.phase = IF room.phase = "waiting" THEN "waiting" ELSE "started"
BY DEF RoomState, Event, Phases

(* Each step of the room, told by what becomes of the room, what it emits  *)
(* and what else it changes.                                               *)
RoomStep(ph, rd, evs) ==
  /\ room' \in [phase : RoomPhases, round : Nat]
  /\ room'.phase = ph /\ room'.round = rd
  /\ evs \in Seq(Event)
  /\ Emit(evs)
  /\ RoomOnly
  /\ resync' \in BOOLEAN
  /\ died' \in BOOLEAN

LEMMA AdvanceIs ==
  ASSUME RoomTypes, Plumbing, NEW ph \in RoomPhases, NEW rd \in Nat, NEW evs,
         Advance(ph, rd, evs),
         room'.round = rd => evs \in Seq(Event)
  PROVE  RoomStep(ph, rd, evs)
<1>1. /\ room' = [room EXCEPT !.phase = ph, !.round = rd] /\ Emit(evs) /\ RoomOnly
      /\ UNCHANGED <<resync, died>>
  BY DEF Advance
<1>2. room' \in [phase : RoomPhases, round : Nat] /\ room'.phase = ph /\ room'.round = rd
  BY <1>1 DEF RoomTypes
<1> QED BY <1>1, <1>2 DEF RoomStep, RoomTypes, Plumbing, Types

LEMMA ScoredIs ==
  ASSUME RoomTypes, NEW ph \in RoomPhases \ {"abandoned"}, Scored(ph), resync' \in BOOLEAN
  PROVE  RoomStep(ph, room.round, <<Told(ph)>>)
<1>1. /\ room' = [room EXCEPT !.phase = ph] /\ Emit(<<Told(ph)>>) /\ RoomOnly
      /\ died' \in BOOLEAN
  BY DEF Scored, ScoresRace, CarriesScores
<1>2. room' \in [phase : RoomPhases, round : Nat] /\ room'.phase = ph /\ room'.round = room.round
  BY <1>1 DEF RoomTypes
<1>3. <<Told(ph)>> \in Seq(Event)
  BY <1>2, ToldIs DEF Phases, RoomPhases
<1> QED BY <1>1, <1>2, <1>3 DEF RoomStep

(* A change of phase announced to the page, from one phase to the next.    *)
Follows(p, q) ==
  \/ p.phase = "memorization" /\ q.phase = "stealing" /\ q.round = p.round
  \/ p.phase = "stealing" /\ q.phase = "guessing" /\ q.round = p.round
  \/ p.phase = "guessing" /\ q.phase = "round_result" /\ q.round = p.round
  \/ p.phase = "round_result" /\ q.phase = "memorization" /\ q.round = p.round + 1
  \/ p.phase \notin {"waiting", "completed", "abandoned"} /\ q.phase = "completed" /\ q.round = p.round

LEMMA RoomSteps ==
  ASSUME RoomTypes, Plumbing, RoomProceeds
  PROVE  \/ /\ room.phase = "waiting"
            /\ RoomStep("memorization", 1, <<RoomState, Told("memorization")>>)
         \/ /\ Follows(room, room')
            /\ RoomStep(room'.phase, room'.round, <<Told(room'.phase)>>)
         \/ /\ room.phase = "waiting" /\ room' = [room EXCEPT !.phase = "abandoned"]
            /\ resync' = FALSE /\ RoomOnly /\ UNCHANGED <<events, behind, died>>
         \/ Alive /\ UNCHANGED room /\ RoomStep(room.phase, room.round, <<RoomState>>)
         \/ HandleResync
<1>0. room \in [phase : RoomPhases, round : Nat] /\ resync \in BOOLEAN
  BY DEF RoomTypes
<1>1. CASE StartMatch
  <2>1. room.phase = "waiting"
        /\ Advance("memorization", 1, <<RoomState, Told("memorization")>>)
    BY <1>1 DEF StartMatch
  <2>2. ASSUME room'.round = 1
        PROVE  <<RoomState, Told("memorization")>> \in Seq(Event)
    BY <2>2, ToldIs, RoomStateIs DEF Phases
  <2> QED BY <2>1, <2>2, AdvanceIs DEF RoomPhases
<1>2. ASSUME NEW ph \in RoomPhases \ {"abandoned"}, NEW rd \in Nat, Advance(ph, rd, <<Told(ph)>>)
      PROVE  RoomStep(ph, rd, <<Told(ph)>>)
  <2>1. ASSUME room'.round = rd
        PROVE  <<Told(ph)>> \in Seq(Event)
    BY <2>1, ToldIs DEF Phases, RoomPhases
  <2> QED BY <1>2, <2>1, AdvanceIs
<1>3. CASE BeginStealing
  <2>1. RoomStep("stealing", room.round, <<Told("stealing")>>) /\ room.phase = "memorization"
    BY <1>0, <1>2, <1>3 DEF BeginStealing, RoomPhases
  <2> QED BY <2>1 DEF RoomStep, Follows
<1>4. CASE BeginGuessing
  <2>1. RoomStep("guessing", room.round, <<Told("guessing")>>) /\ room.phase = "stealing"
    BY <1>0, <1>2, <1>4 DEF BeginGuessing, RoomPhases
  <2> QED BY <2>1 DEF RoomStep, Follows
<1>5. CASE ResolveGuess
  <2>1. RoomStep("round_result", room.round, <<Told("round_result")>>) /\ room.phase = "guessing"
    BY <1>0, <1>5, ScoredIs DEF ResolveGuess, RoomPhases
  <2> QED BY <2>1 DEF RoomStep, Follows
<1>6. CASE AdvanceRound
  <2>1. CASE room.round < MaxRounds
    <3>1. room.round + 1 \in Nat
      BY <1>0
    <3>2. room.phase = "round_result" /\ Advance("memorization", room.round + 1, <<Told("memorization")>>)
      BY <1>6, <2>1 DEF AdvanceRound
    <3>3. RoomStep("memorization", room.round + 1, <<Told("memorization")>>)
      BY <1>2, <3>1, <3>2 DEF RoomPhases
    <3> QED BY <3>2, <3>3 DEF RoomStep, Follows
  <2>2. CASE ~(room.round < MaxRounds)
    <3>1. room.phase = "round_result" /\ RoomStep("completed", room.round, <<Told("completed")>>)
      BY <1>0, <1>2, <1>6, <2>2 DEF AdvanceRound, RoomPhases
    <3> QED BY <3>1 DEF RoomStep, Follows
  <2> QED BY <2>1, <2>2
<1>7. CASE HandleLeave
  <2>1. CASE room.phase = "waiting"
    BY <1>7, <2>1 DEF HandleLeave
  <2>2. CASE room.phase # "waiting"
    <3>1. Alive /\ RoomStep("completed", room.round, <<Told("completed")>>)
      BY <1>7, <2>2, ScoredIs DEF HandleLeave, RoomPhases
    <3> QED BY <2>2, <3>1 DEF RoomStep, Follows, Alive
  <2> QED BY <2>1, <2>2
<1>8. CASE TellState
  <2>1. Alive /\ Emit(<<RoomState>>) /\ RoomOnly /\ UNCHANGED <<room, resync, died>>
    BY <1>8 DEF TellState
  <2>2. <<RoomState>> \in Seq(Event)
    BY RoomStateIs
  <2> QED BY <1>0, <2>1, <2>2 DEF RoomStep, Plumbing, Types
<1> QED BY <1>1, <1>3, <1>4, <1>5, <1>6, <1>7, <1>8 DEF RoomProceeds

LEMMA ResyncIs ==
  ASSUME RoomTypes, Plumbing, HandleResync
  PROVE  /\ RoomTypes'
         /\ Answer \in Seq(Event) /\ events' = events \o SubSeq(Answer, 1, Fitting(Answer))
         /\ UNCHANGED <<room, died>> /\ RoomOnly
<1>1. /\ room \in [phase : RoomPhases, round : Nat] /\ room' = room /\ behind \in BOOLEAN
      /\ events' = events \o SubSeq(Answer, 1, Fitting(Answer))
      /\ resync' = FALSE /\ UNCHANGED <<room, died>> /\ RoomOnly
  BY DEF RoomTypes, HandleResync
<1>2. Answer \in Seq(Event)
  <2>1. CurrentPhase \in Phases
    BY DEF CurrentPhase, Phases
  <2>2. Told(CurrentPhase) \in Event
    BY <1>1, <2>1, ToldIs
  <2> QED BY <2>2, RoomStateIs DEF Answer
<1> DEFINE kept == SubSeq(Answer, 1, Fitting(Answer))
<1>3. kept \in Seq(Event) /\ Len(kept) = Fitting(Answer) /\ Fitting(Answer) <= EventsCap - Len(events)
  BY <1>2, FittingIs
<1>4. events' \in Seq(Event) /\ Len(events') <= EventsCap
  <2> HIDE DEF kept
  <2>1. events' \in Seq(Event) /\ Len(events') = Len(events) + Len(kept)
    BY <1>1, <1>3, ConcatProperties DEF RoomTypes, kept
  <2> QED BY <1>3, <2>1, ConstantFacts, LenProperties DEF RoomTypes
<1>5. behind' \in BOOLEAN
  BY <1>1 DEF HandleResync
<1>6. drain' = drain
  BY <1>1 DEF RoomOnly
<1> QED BY <1>1, <1>2, <1>4, <1>5, <1>6 DEF RoomTypes

(* The drain's own steps keep the types.                                   *)
LEMMA DrainTypes ==
  ASSUME RoomTypes, Plumbing, TakeEvent \/ LookUp \/ Send
  PROVE  RoomTypes'
<1>1. /\ UNCHANGED <<room, resync>>
      /\ events \in Seq(Event) /\ drain \in DrainType /\ behind \in BOOLEAN
  BY DEF TakeEvent, LookUp, Send, DrainOnly, RoomTypes
<1>2. NotDraining \in DrainType /\ NotDraining.stage = "idle"
  BY DEF NotDraining, DrainType, NoEvent, Event, Phases
<1>3. CASE TakeEvent
  <2>1. Head(events) \in Event /\ Tail(events) \in Seq(Event) /\ Len(Tail(events)) = Len(events) - 1
    BY <1>1, <1>3, HeadTailProperties DEF TakeEvent
  <2>2. drain' \in DrainType /\ drain'.stage = "encode"
    BY <1>3, <2>1 DEF TakeEvent, DrainType
  <2>3. Len(events') <= EventsCap
    BY <1>3, <2>1, ConstantFacts, LenProperties DEF TakeEvent, RoomTypes
  <2> QED BY <1>1, <1>3, <2>1, <2>2, <2>3 DEF TakeEvent, RoomTypes
<1>4. CASE LookUp
  <2>1. CASE clients[Player] = NoConn
    BY <1>1, <1>2, <1>4, <2>1 DEF LookUp, RoomTypes
  <2>2. CASE clients[Player] # NoConn
    <3>1. clients[Player] \in ConnIDs
      BY <2>2, ConstantFacts DEF Plumbing, Types
    <3>2. drain' = [drain EXCEPT !.stage = "send", !.conn = clients[Player]]
      BY <1>4, <2>2 DEF LookUp
    <3>3. drain' \in DrainType /\ drain'.conn = clients[Player]
      BY <1>1, <3>1, <3>2 DEF DrainType
    <3> QED BY <1>1, <1>4, <2>2, <3>1, <3>3 DEF LookUp, RoomTypes
  <2> QED BY <2>1, <2>2
<1>5. CASE Send
  <2>1. HasRoom(drain.conn) \in BOOLEAN
    BY DEF HasRoom
  <2> QED BY <1>1, <1>2, <1>5, <2>1 DEF Send, RoomTypes
<1> QED BY <1>3, <1>4, <1>5

(* Sockets stay in use.                                                    *)
LEMMA UsedStep ==
  ASSUME Base,
         \A j \in ConnIDs : conn[j].stage # "none" => conn'[j].user = conn[j].user /\ conn'[j].stage # "none",
         \A u \in Users : page'[u].ws \in {page[u].ws, NoConn},
         drain'.stage = "send" => drain'.stage = drain.stage /\ drain'.conn = drain.conn
  PROVE  SocketsAreUsed'
<1>1. \A u \in Users : page[u].ws # NoConn => page[u].ws \in ConnIDs
  BY DEF Base, Plumbing, Types, PageType
<1>2. drain.stage = "send" => drain.conn \in ConnIDs
  BY DEF Base, RoomTypes
<1> QED BY <1>1, <1>2 DEF Base, SocketsAreUsed

LEMMA InitBase == Init => Base
<1> SUFFICES ASSUME Init PROVE Base
  OBVIOUS
<1>1. SocketsAreUsed
  BY DEF Init, SocketsAreUsed, NewPage, NotDraining
<1> QED BY <1>1, InitPlumbing, InitRoomTypes DEF Base

(* The room is left alone, but that it may be asked to answer.             *)
LEMMA SameRoomTypes ==
  ASSUME RoomTypes, UNCHANGED <<room, events, drain>>, resync' \in BOOLEAN, behind' \in BOOLEAN
  PROVE  RoomTypes'
BY DEF RoomTypes

LEMMA ConnectionSteps ==
  ASSUME Base, NEW k \in ConnIDs,
         (\E u \in Users : Connect(k, u))
           \/ SocketFails(k) \/ Flush(k) \/ Deliver(k) \/ Unregister(k) \/ CloseSend(k)
  PROVE  Base'
<1>1. Plumbing /\ RoomTypes /\ SocketsAreUsed
  BY DEF Base
<1>2. AskResync => resync' \in BOOLEAN
  BY DEF AskResync, Alive
<1>3. CASE \E u \in Users : Connect(k, u)
  <2>1. PICK u \in Users : Connect(k, u)
    BY <1>3
  <2>2. Plumbing'
    BY <1>1, <2>1, ConnectPlumbing
  <2>3. RoomTypes'
    BY <1>1, <1>2, <2>1, SameRoomTypes DEF Connect
  <2>4. UNCHANGED drain
    BY <2>1 DEF Connect
  <2>5. /\ conn[k].stage = "none" /\ conn'[k].user = u /\ conn'[k].stage = "up"
        /\ \A j \in ConnIDs \ {k} : conn'[j].user = conn[j].user /\ conn'[j].stage = conn[j].stage
        /\ page' = [page EXCEPT ![u].ws = k]
    BY <1>1, <2>1, ConnectIs
  <2>6. \A v \in Users : page'[v].ws = IF v = u THEN k ELSE page[v].ws
    BY <1>1, <2>5 DEF Plumbing, Types, PageType
  <2>7. \A v \in Users : page[v].ws # NoConn => page[v].ws \in ConnIDs \ {k}
    BY <1>1, <2>5 DEF Plumbing, Types, PageType, SocketsAreUsed
  <2>8. drain.stage = "send" => drain.conn \in ConnIDs \ {k}
    BY <1>1, <2>5 DEF RoomTypes, SocketsAreUsed
  <2>9. SocketsAreUsed'
    BY <1>1, <2>4, <2>5, <2>6, <2>7, <2>8, ConstantFacts DEF SocketsAreUsed
  <2> QED BY <2>2, <2>3, <2>9 DEF Base
<1>4. CASE SocketFails(k)
  <2>1. RoomTypes'
    BY <1>1, <1>4, SameRoomTypes DEF SocketFails, RoomTypes
  <2>2. UNCHANGED <<page, drain>>
    BY <1>4 DEF SocketFails
  <2>3. Plumbing' /\ SocketsAreUsed'
    BY <1>1, <1>4, <2>2, SocketFailsPlumbing, UsedStep
  <2> QED BY <2>1, <2>3 DEF Base
<1>5. CASE Flush(k)
  <2>1. RoomTypes'
    BY <1>1, <1>2, <1>5, SameRoomTypes DEF Flush, RoomTypes
  <2>2. UNCHANGED <<conn, drain>>
    BY <1>5 DEF Flush
  <2>3. Plumbing' /\ SocketsAreUsed'
    BY <1>1, <1>5, <2>2, FlushPlumbing, UsedStep
  <2> QED BY <2>1, <2>3 DEF Base
<1>6. CASE Deliver(k)
  <2>1. RoomTypes' /\ UNCHANGED drain
    BY <1>1, <1>6, SameRoomTypes DEF Deliver, RoomTypes, roomVars
  <2>2. Plumbing' /\ SocketsAreUsed'
    BY <1>1, <1>6, <2>1, DeliverPlumbing, UsedStep
  <2> QED BY <2>1, <2>2 DEF Base
<1>7. CASE Unregister(k)
  <2>1. RoomTypes' /\ UNCHANGED <<drain, page>>
    BY <1>1, <1>7, SameRoomTypes DEF Unregister, RoomTypes, roomVars
  <2>2. Plumbing' /\ SocketsAreUsed'
    BY <1>1, <1>7, <2>1, UnregisterPlumbing, UsedStep
  <2> QED BY <2>1, <2>2 DEF Base
<1>8. CASE CloseSend(k)
  <2>1. RoomTypes' /\ UNCHANGED <<drain, page>>
    BY <1>1, <1>8, SameRoomTypes DEF CloseSend, RoomTypes, roomVars
  <2>2. Plumbing' /\ SocketsAreUsed'
    BY <1>1, <1>8, <2>1, CloseSendPlumbing, UsedStep
  <2> QED BY <2>1, <2>2 DEF Base
<1> QED BY <1>3, <1>4, <1>5, <1>6, <1>7, <1>8

LEMMA ReloadStep ==
  ASSUME Base, NEW u \in Users, Reload(u)
  PROVE  Base'
<1>1. RoomTypes' /\ UNCHANGED drain
  BY SameRoomTypes DEF Reload, RoomTypes, Base
<1>2. page' = [page EXCEPT ![u] = NewPage] /\ page \in [Users -> PageType]
  BY DEF Reload, Base, Plumbing, Types
<1>3. \A v \in Users : page'[v].ws \in {page[v].ws, NoConn}
  BY <1>2 DEF NewPage
<1>4. Plumbing' /\ SocketsAreUsed'
  BY <1>1, <1>3, ReloadPlumbing, UsedStep DEF Base
<1> QED BY <1>1, <1>4 DEF Base

LEMMA BroadcastStep ==
  ASSUME Base, place = "lobby", NEW g \in ConnIDs, Broadcast(g)
  PROVE  Base'
<1>1. RoomTypes' /\ UNCHANGED <<drain, page>>
  BY SameRoomTypes DEF Broadcast, ListPresent, SendList, SendOne, EndCast, RoomTypes, Base, roomVars
<1>2. /\ Plumbing'
      /\ \A j \in ConnIDs : conn'[j].user = conn[j].user /\ conn'[j].stage = conn[j].stage
  <2>1. Plumbing
    BY DEF Base
  <2>2. CASE ListPresent(g)
    BY <2>1, <2>2, ListPlumbing DEF ListPresent
  <2>3. CASE SendList(g)
    BY <2>1, <2>3, SendListPlumbing DEF SendList
  <2>4. CASE SendOne(g)
    <3>1. PICK k \in cast[g].left : conn' = Sent(k, cast[g].ids)
      BY <2>4 DEF SendOne
    <3>2. k \in ConnIDs /\ cast[g].ids \in Message
      BY <2>1 DEF Plumbing, Types, CastType, Message
    <3> QED BY <2>1, <2>4, <3>1, <3>2, SendOnePlumbing, SentIs
  <2>5. CASE EndCast(g)
    BY <2>1, <2>5, EndCastPlumbing DEF EndCast
  <2> QED BY <2>2, <2>3, <2>4, <2>5 DEF Broadcast
<1>3. SocketsAreUsed'
  BY <1>1, <1>2, UsedStep
<1> QED BY <1>1, <1>2, <1>3 DEF Base

LEMMA DeletionStep ==
  ASSUME Base, place = "lobby", NEW u \in Users, DeleteAccount(u)
  PROVE  Base'
<1>1. /\ UNCHANGED <<place, conn, clients, page, died>> /\ RoomTypes' /\ UNCHANGED drain
      /\ cast' = Disturb(cast) /\ deleted' = deleted \cup {u} /\ settled' = FALSE
  BY SameRoomTypes DEF DeleteAccount, RoomTypes, Base, roomVars
<1>2. Types'
  BY <1>1, DisturbIs DEF Base, Plumbing, Types, ConnType, Message
<1>3. RegisteredIsUp' /\ OpenIsCurrent'
  BY <1>1 DEF Base, Plumbing, RegisteredIsUp, OpenIsCurrent
<1>4. LeftAreRegistered' /\ CastsAreServed' /\ RoomIsPlayers'
  BY <1>1, DisturbIs DEF Base, Plumbing, LeftAreRegistered, CastsAreServed, RoomIsPlayers, Present
<1>5. SocketsAreUsed'
  BY <1>1, UsedStep DEF Base
<1> QED BY <1>1, <1>2, <1>3, <1>4, <1>5 DEF Base, Plumbing

LEMMA RoomSide ==
  ASSUME Base, place = "room", RoomProceeds \/ TakeEvent \/ LookUp \/ Send
  PROVE  Base'
<1>1. Plumbing /\ RoomTypes /\ SocketsAreUsed
  BY DEF Base
<1>2. CASE RoomProceeds
  <2>1. RoomOnly /\ died' \in BOOLEAN /\ RoomTypes'
    <3>1. CASE HandleResync
      BY <1>1, <3>1, ResyncIs DEF Plumbing, Types
    <3>2. CASE room.phase = "waiting" /\ room' = [room EXCEPT !.phase = "abandoned"]
               /\ resync' = FALSE /\ RoomOnly /\ UNCHANGED <<events, behind, died>>
      BY <1>1, <3>2 DEF Plumbing, Types, RoomTypes, RoomOnly, RoomPhases
    <3>3. \A ph, rd, evs : RoomStep(ph, rd, evs) => RoomOnly /\ died' \in BOOLEAN /\ RoomTypes'
      BY <1>1, EmitTypes DEF RoomStep, RoomOnly
    <3> QED BY <1>1, <1>2, <3>1, <3>2, <3>3, RoomSteps
  <2>2. Plumbing' /\ SocketsAreUsed'
    BY <1>1, <2>1, RoomPlumbing, UsedStep DEF RoomOnly, lobbyVars
  <2> QED BY <2>1, <2>2 DEF Base
<1>3. CASE TakeEvent \/ LookUp
  <2>1. UNCHANGED <<place, conn, clients, page, cast, deleted, settled, died>>
    BY <1>3 DEF TakeEvent, LookUp, DrainOnly, lobbyVars
  <2>2. Plumbing' /\ RoomTypes'
    BY <1>1, <1>3, <2>1, RoomPlumbing, DrainTypes DEF Plumbing, Types
  <2>3. drain'.stage = "send" => drain'.conn = clients[Player] /\ clients[Player] # NoConn
    <3>1. CASE TakeEvent
      BY <3>1 DEF TakeEvent
    <3>2. CASE LookUp /\ clients[Player] = NoConn
      BY <3>2 DEF LookUp, NotDraining
    <3>3. CASE LookUp /\ clients[Player] # NoConn
      BY <1>1, <3>3 DEF LookUp, RoomTypes, DrainType
    <3> QED BY <1>3, <3>1, <3>2, <3>3
  <2>4. SocketsAreUsed'
    BY <1>1, <2>1, <2>3, ConstantFacts DEF SocketsAreUsed, Plumbing, RegisteredIsUp
  <2> QED BY <2>2, <2>4 DEF Base
<1>4. CASE Send
  <2>1. Plumbing' /\ RoomTypes' /\ drain.conn \in ConnIDs /\ drain.event \in Message
    BY <1>1, <1>4, SendEventPlumbing, DrainTypes
  <2>2. drain'.stage # "send" /\ UNCHANGED page /\ conn' = Sent(drain.conn, drain.event)
    BY <1>4 DEF Send, DrainOnly, NotDraining
  <2>3. SocketsAreUsed'
    BY <1>1, <2>1, <2>2, SentIs, UsedStep
  <2> QED BY <2>1, <2>3 DEF Base
<1> QED BY <1>2, <1>3, <1>4

LEMMA NextBase == Base /\ [Next]_vars => Base'
<1> SUFFICES ASSUME Base, [Next]_vars PROVE Base'
  OBVIOUS
<1>1. CASE Next
  BY <1>1, ConnectionSteps, ReloadStep, BroadcastStep, DeletionStep, RoomSide DEF Next
<1>2. CASE UNCHANGED vars
  <2>1. UNCHANGED <<place, conn, clients, cast, deleted, settled, page, room, resync, events, drain, behind, died>>
    BY <1>2 DEF vars, lobbyVars, roomVars
  <2>2. Plumbing' /\ RoomTypes'
    BY <2>1, RoomPlumbing, SameRoomTypes DEF Base, Plumbing, Types, RoomTypes
  <2> QED BY <2>1, <2>2, UsedStep DEF Base
<1> QED BY <1>1, <1>2

LEMMA SpecBase == Spec => []Base
<1> QED BY InitBase, NextBase, PTL DEF Spec

(* broadcastAll never sends on a closed channel, however many connections  *)
(* come, go and are broadcast to at the same time.                         *)
THEOREM SpecBroadcastsAreSafe == Spec => []BroadcastsAreSafe
<1>1. Base => BroadcastsAreSafe
  BY DEF Base, Plumbing, LeftAreRegistered, RegisteredIsUp, BroadcastsAreSafe, SendOpen, Present
<1> QED BY <1>1, SpecBase, PTL

-----------------------------------------------------------------------------
(* Presence.                                                               *)

(* The list the user of a connection has, or will have.                    *)
Latest(k) == IF conn[k].send # <<>> THEN conn[k].send[Len(conn[k].send)] ELSE page[conn[k].user].list

Knows(u) == conn[clients[u]].open => Latest(clients[u]) = Listed

(* A broadcast that is not disturbed runs by itself, tells who is present, *)
(* and has told everyone but those who are left.                           *)
AloneTells ==
  \A g \in ConnIDs : cast[g].alone =>
    /\ Running(g) /\ cast[g].ids = Listed
    /\ \A h \in ConnIDs \ {g} : ~Running(h)
    /\ cast[g].stage = "sending" => \A u \in Present : clients[u] \in cast[g].left \/ Knows(u)

SettledTells ==
  /\ settled
  /\ \A g \in ConnIDs : cast[g].stage = "idle" /\ conn[g].stage # "removed"
  => \A u \in Present : Knows(u)

Aware == place = "lobby" => AloneTells /\ SettledTells

(* Who knows still does: nothing but a message changes the list a page has,*)
(* and the last message sent is the one that counts.                       *)
LEMMA KnowsStep ==
  ASSUME Base, Base', NEW u \in Present, UNCHANGED <<clients, deleted>>, Knows(u),
         conn'[clients[u]].user = conn[clients[u]].user,
         conn'[clients[u]].open =>
           /\ conn[clients[u]].open
           /\ conn'[clients[u]].send = conn[clients[u]].send
           /\ page'[u].list = page[u].list
  PROVE  Knows(u)'
<1>1. conn[clients[u]].user = u /\ Listed' = Listed
  BY DEF Base, Plumbing, RegisteredIsUp, Listed, Present
<1> QED BY <1>1 DEF Knows, Latest

(* The last element of a sequence stays the last of its tail.              *)
LEMMA TailIs ==
  ASSUME NEW S, NEW s \in Seq(S), s # <<>>
  PROVE  /\ Head(s) = s[1] /\ Head(s) \in S /\ Tail(s) \in Seq(S)
         /\ Len(s) \in Nat \ {0} /\ Len(Tail(s)) = Len(s) - 1
         /\ \A i \in 1 .. Len(Tail(s)) : Tail(s)[i] = s[i + 1]
         /\ Tail(s) = <<>> => s[Len(s)] = Head(s)
         /\ Tail(s) # <<>> => Tail(s)[Len(Tail(s))] = s[Len(s)]
<1>1. /\ Head(s) = s[1] /\ Head(s) \in S /\ Tail(s) \in Seq(S)
      /\ Len(s) \in Nat \ {0} /\ Len(Tail(s)) = Len(s) - 1
      /\ \A i \in 1 .. Len(Tail(s)) : Tail(s)[i] = s[i + 1]
  BY HeadTailProperties, LenProperties, EmptySeq
<1>2. Tail(s) = <<>> <=> Len(Tail(s)) = 0
  BY <1>1, EmptySeq
<1> DEFINE t == Tail(s)
<1>3. t = <<>> => Len(s) = 1
  BY <1>1, <1>2
<1>4. t # <<>> => Len(t) \in 1 .. Len(t) /\ Len(t) + 1 = Len(s)
  BY <1>1, <1>2
<1> QED BY <1>1, <1>3, <1>4

(* The broadcasts that are not disturbed go on as they were.               *)
LEMMA AloneStep ==
  ASSUME Base, AloneTells, UNCHANGED <<clients, deleted>>,
         \A g \in ConnIDs :
           /\ cast'[g].alone => cast[g].alone
           /\ cast'[g].left = cast[g].left
           /\ cast'[g].ids = cast[g].ids
           /\ \/ cast'[g].stage = cast[g].stage
              \/ cast[g].stage = "idle" /\ cast'[g].stage = "due",
         \A u \in Present : Knows(u) => Knows(u)'
  PROVE  AloneTells'
<1>1. \A g \in ConnIDs : Running(g)' = Running(g)
  BY DEF Running
<1>2. Present' = Present /\ Listed' = Listed
  BY DEF Listed, Present
<1>3. \A g \in ConnIDs : cast'[g].alone => cast'[g].stage = cast[g].stage
  BY DEF AloneTells, Running
<1> QED BY <1>1, <1>2, <1>3 DEF AloneTells

LEMMA AwareConnection ==
  ASSUME Base, Base', Aware, place = "lobby", NEW k \in ConnIDs,
         (\E u \in Users : Connect(k, u))
           \/ SocketFails(k) \/ Flush(k) \/ Unregister(k) \/ CloseSend(k)
  PROVE  AloneTells' /\ SettledTells'
<1>1. Plumbing /\ AloneTells /\ SettledTells /\ cast \in [ConnIDs -> CastType]
      /\ clients \in [Users -> ConnIDs \cup {NoConn}]
  BY DEF Base, Aware, Plumbing, Types
<1>2. \A u \in Present : u \in Users /\ clients[u] \in ConnIDs /\ conn[clients[u]].user = u
  BY <1>1 DEF Present, Plumbing, RegisteredIsUp
<1>3. CASE \E u \in Users : Connect(k, u)
  <2>1. cast' = StartCast(k, Disturb(cast))
    BY <1>3 DEF Connect
  <2>2. (\A g \in ConnIDs : ~cast'[g].alone) /\ cast'[k].stage = "due"
    BY <1>1, <2>1, DisturbIs, StartCastIs
  <2> QED BY <2>2 DEF AloneTells, SettledTells
<1>4. CASE SocketFails(k)
  <2>1. UNCHANGED <<clients, cast, deleted, settled, page>>
    BY <1>4 DEF SocketFails, lobbyVars
  <2>2. \A u \in Present : Knows(u) => Knows(u)'
    BY <1>1, <1>2, <1>4, <2>1, SocketFailsPlumbing, KnowsStep
  <2>3. AloneTells'
    BY <1>1, <2>1, <2>2, AloneStep
  <2>4. SettledTells'
    BY <1>1, <1>4, <2>1, <2>2, SocketFailsPlumbing DEF SettledTells, Present
  <2> QED BY <2>3, <2>4
<1>5. CASE Flush(k)
  <2>1. UNCHANGED <<clients, deleted, settled>> /\ cast' = StartCast(k, cast) /\ cast[k] = NoCast
    BY <1>5 DEF Flush, Reads
  <2>2. \A u \in Present : Knows(u) => Knows(u)'
    BY <1>1, <1>2, <1>5, <2>1, FlushPlumbing, KnowsStep
  <2>3. cast[k].stage = "idle" /\ ~cast[k].alone
    BY <2>1 DEF NoCast
  <2>4. AloneTells'
    BY <1>1, <2>1, <2>2, <2>3, StartCastIs, AloneStep
  <2>5. SettledTells'
    BY <1>1, <2>1, StartCastIs DEF SettledTells
  <2> QED BY <2>4, <2>5
<1>6. CASE Unregister(k)
  <2>1. (\A g \in ConnIDs : ~cast'[g].alone) /\ conn'[k].stage = "removed"
    BY <1>1, <1>6, UnregisterPlumbing, DisturbIs DEF Unregister
  <2> QED BY <2>1 DEF AloneTells, SettledTells
<1>7. CASE CloseSend(k)
  <2>1. UNCHANGED <<clients, page, deleted, settled>> /\ cast' = StartCast(k, cast) /\ cast[k] = NoCast
    BY <1>1, <1>7 DEF CloseSend, Plumbing, CastsAreServed
  <2>2. \A u \in Present : Knows(u) => Knows(u)'
    BY <1>1, <1>2, <1>7, <2>1, CloseSendPlumbing, KnowsStep
  <2>3. cast[k].stage = "idle" /\ ~cast[k].alone
    BY <2>1 DEF NoCast
  <2>4. AloneTells'
    BY <1>1, <2>1, <2>2, <2>3, StartCastIs, AloneStep
  <2>5. SettledTells'
    BY <1>1, <2>1, StartCastIs DEF SettledTells
  <2> QED BY <2>4, <2>5
<1> QED BY <1>3, <1>4, <1>5, <1>6, <1>7

LEMMA AwareReload ==
  ASSUME Base, Base', Aware, place = "lobby", NEW w \in Users, Reload(w)
  PROVE  AloneTells' /\ SettledTells'
<1>1. Plumbing /\ AloneTells /\ SettledTells /\ clients \in [Users -> ConnIDs \cup {NoConn}]
      /\ page \in [Users -> PageType]
  BY DEF Base, Aware, Plumbing, Types
<1>2. \A u \in Present : u \in Users /\ clients[u] \in ConnIDs /\ conn[clients[u]].user = u
  BY <1>1 DEF Present, Plumbing, RegisteredIsUp
<1>3. UNCHANGED <<clients, cast, deleted, settled>> /\ page' = [page EXCEPT ![w] = NewPage]
  BY DEF Reload, lobbyVars
<1>4. ASSUME NEW u \in Present, Knows(u)
      PROVE  Knows(u)'
  <2>1. conn'[clients[u]].open => conn[clients[u]].open /\ conn'[clients[u]].send = conn[clients[u]].send
                                   /\ clients[u] # page[w].ws
    BY <1>1, <1>2, ReloadPlumbing
  <2>2. conn[clients[u]].open => page[u].ws = clients[u]
    BY <1>1, <1>2 DEF Plumbing, OpenIsCurrent
  <2>3. conn'[clients[u]].open => page'[u] = page[u]
    BY <1>1, <1>2, <1>3, <2>1, <2>2
  <2>4. conn'[clients[u]].user = conn[clients[u]].user
    BY <1>1, <1>2, ReloadPlumbing
  <2> QED BY <1>3, <1>4, <2>1, <2>3, <2>4, KnowsStep
<1>5. AloneTells'
  BY <1>1, <1>3, <1>4, AloneStep
<1>6. SettledTells'
  BY <1>1, <1>3, <1>4, ReloadPlumbing DEF SettledTells, Present
<1> QED BY <1>5, <1>6

(* A message on its way counts as much as one that has arrived.            *)
LEMMA AwareDeliver ==
  ASSUME Base, Base', Aware, place = "lobby", NEW k \in ConnIDs, Deliver(k)
  PROVE  AloneTells' /\ SettledTells'
<1>1. Plumbing /\ AloneTells /\ SettledTells /\ clients \in [Users -> ConnIDs \cup {NoConn}]
  BY DEF Base, Aware, Plumbing, Types
<1>2. \A u \in Present : u \in Users /\ clients[u] \in ConnIDs /\ conn[clients[u]].user = u
  BY <1>1 DEF Present, Plumbing, RegisteredIsUp
<1>3. UNCHANGED <<clients, cast, deleted, settled>>
  BY DEF Deliver, lobbyVars
<1>4. ASSUME NEW u \in Present, Knows(u)
      PROVE  Knows(u)'
  <2>1. CASE clients[u] # k
    <3>1. conn[k].user # u
      <4>1. conn[k].open
        BY <1>1, DeliverPlumbing
      <4>2. clients[conn[k].user] = k
        BY <1>1, <4>1 DEF Plumbing, OpenIsCurrent
      <4> QED BY <2>1, <4>2
    <3> QED BY <1>1, <1>2, <1>3, <1>4, <2>1, <3>1, DeliverPlumbing, KnowsStep
  <2>2. CASE clients[u] = k
    <3> DEFINE s == conn[k].send
    <3>1. /\ s \in Seq(Message) /\ s # <<>> /\ conn[k].open /\ conn[k].user = u
          /\ conn'[k].send = Tail(s) /\ conn'[k].user = u /\ page'[u].list = Head(s)
      BY <1>1, <1>2, <2>2, DeliverPlumbing
    <3>2. s[Len(s)] = Listed
      BY <1>4, <2>2, <3>1 DEF Knows, Latest
    <3>3. /\ Tail(s) = <<>> => s[Len(s)] = Head(s)
          /\ Tail(s) # <<>> => Tail(s)[Len(Tail(s))] = s[Len(s)]
      BY <3>1, TailIs
    <3> HIDE DEF s
    <3> QED BY <1>3, <2>2, <3>1, <3>2, <3>3 DEF Knows, Latest, Listed, Present
  <2> QED BY <2>1, <2>2
<1>5. AloneTells'
  BY <1>1, <1>3, <1>4, AloneStep
<1>6. SettledTells'
  BY <1>1, <1>3, <1>4, DeliverPlumbing DEF SettledTells, Present
<1> QED BY <1>5, <1>6

LEMMA AwareBroadcast ==
  ASSUME Base, Base', Aware, place = "lobby", NEW g \in ConnIDs, Broadcast(g)
  PROVE  AloneTells' /\ SettledTells'
<1>1. Plumbing /\ AloneTells /\ SettledTells /\ clients \in [Users -> ConnIDs \cup {NoConn}]
      /\ cast \in [ConnIDs -> CastType]
  BY DEF Base, Aware, Plumbing, Types
<1>2. \A u \in Present : u \in Users /\ clients[u] \in ConnIDs /\ conn[clients[u]].user = u
  BY <1>1 DEF Present, Plumbing, RegisteredIsUp
<1>3. CASE ListPresent(g)
  <2>1. UNCHANGED <<conn, clients, page, deleted, settled>> /\ cast[g].stage = "due"
    BY <1>3 DEF ListPresent
  <2>2. /\ cast'[g].stage = "listed" /\ cast'[g].ids = Listed
        /\ cast'[g].alone <=> \A h \in ConnIDs : ~Running(h)
        /\ \A h \in ConnIDs \ {g} : ~cast'[h].alone /\ cast'[h].stage = cast[h].stage
    BY <1>1, <1>3, ListPlumbing, DisturbIs
  <2>3. SettledTells'
    BY <2>2 DEF SettledTells
  <2>4. Present' = Present /\ Listed' = Listed
    BY <2>1 DEF Listed, Present
  <2>5. \A h \in ConnIDs \ {g} : Running(h)' = Running(h)
    BY <2>2 DEF Running
  <2>6. Running(g)'
    BY <2>2 DEF Running
  <2>7. AloneTells'
    BY <2>2, <2>4, <2>5, <2>6 DEF AloneTells
  <2> QED BY <2>3, <2>7
<1>4. CASE SendList(g)
  <2>1. UNCHANGED <<conn, clients, page, deleted, settled>> /\ cast[g].stage = "listed"
    BY <1>4 DEF SendList
  <2>2. /\ cast'[g].stage = "sending" /\ cast'[g].left = {clients[u] : u \in Present}
        /\ cast'[g].ids \subseteq cast[g].ids /\ cast[g].ids \ deleted \subseteq cast'[g].ids
        /\ cast'[g].alone = cast[g].alone
        /\ \A h \in ConnIDs \ {g} : cast'[h] = cast[h]
    BY <1>1, <1>4, SendListPlumbing
  <2>3. SettledTells'
    BY <2>2 DEF SettledTells
  <2>4. Present' = Present /\ Listed' = Listed
    BY <2>1 DEF Listed, Present
  <2>5. (\A h \in ConnIDs : Running(h)' = Running(h)) /\ Running(g)
    BY <2>1, <2>2 DEF Running
  <2>6. \A h \in ConnIDs \ {g} : ~cast[h].alone
    BY <1>1, <2>5 DEF AloneTells
  <2>7. cast[g].alone => cast'[g].ids = Listed
    BY <1>1, <2>2 DEF AloneTells, Listed
  <2>8. AloneTells'
    BY <1>1, <2>1, <2>2, <2>4, <2>5, <2>6, <2>7 DEF AloneTells
  <2> QED BY <2>3, <2>8
<1>5. CASE SendOne(g)
  <2>1. UNCHANGED <<clients, page, deleted, settled>> /\ cast[g].stage = "sending"
    BY <1>5 DEF SendOne
  <2>2. PICK k \in cast[g].left :
          /\ conn' = Sent(k, cast[g].ids)
          /\ cast'[g].left = cast[g].left \ {k} /\ cast'[g].alone = (cast[g].alone /\ HasRoom(k))
    BY <1>1, <1>5, SendOnePlumbing
  <2>3. /\ cast'[g].stage = "sending" /\ cast'[g].ids = cast[g].ids
        /\ \A h \in ConnIDs \ {g} : cast'[h] = cast[h]
    BY <1>1, <1>5, SendOnePlumbing
  <2>4. SettledTells'
    BY <2>3 DEF SettledTells
  <2>5. Present' = Present /\ Listed' = Listed
    BY <2>1 DEF Listed, Present
  <2>6. (\A h \in ConnIDs : Running(h)' = Running(h)) /\ Running(g)
    BY <2>1, <2>3 DEF Running
  <2>7. \A h \in ConnIDs \ {g} : ~cast[h].alone
    BY <1>1, <2>6 DEF AloneTells
  <2>8. k \in ConnIDs /\ cast[g].ids \in Message
    BY <1>1 DEF CastType, Message
  <2>9. ASSUME cast'[g].alone, NEW u \in Present
        PROVE  clients[u] \in cast'[g].left \/ Knows(u)'
    <3>1. cast[g].alone /\ HasRoom(k) /\ cast[g].ids = Listed
      BY <1>1, <2>2, <2>9 DEF AloneTells
    <3>2. CASE clients[u] = k
      <4>1. ASSUME conn[k].open
            PROVE  /\ conn'[k].send # <<>>
                   /\ conn'[k].send[Len(conn'[k].send)] = cast[g].ids
        <5>1. conn'[k].send = Append(conn[k].send, cast[g].ids) /\ conn[k].send \in Seq(Message)
          BY <1>1, <2>2, <2>8, <3>1, <4>1, SentIs DEF Plumbing, Types, ConnType
        <5>2. \A s \in Seq(Message) : \A m \in Message :
                Append(s, m) # <<>> /\ Append(s, m)[Len(Append(s, m))] = m
          BY AppendProperties
        <5> QED BY <2>8, <5>1, <5>2
      <4>2. conn'[k].open = conn[k].open
        BY <1>1, <2>2, <2>8, SentIs
      <4> QED BY <2>1, <2>5, <3>1, <3>2, <4>1, <4>2 DEF Knows, Latest
    <3>3. CASE clients[u] # k
      <4>1. clients[u] \in cast[g].left \/ Knows(u)
        BY <1>1, <2>1, <3>1 DEF AloneTells
      <4>2. /\ conn'[clients[u]].send = conn[clients[u]].send
            /\ conn'[clients[u]].open = conn[clients[u]].open
            /\ conn'[clients[u]].user = conn[clients[u]].user
        BY <1>1, <1>2, <2>2, <2>8, <3>3, SentIs
      <4>3. Knows(u) => Knows(u)'
        BY <2>1, <4>2, KnowsStep
      <4> QED BY <2>2, <3>3, <4>1, <4>3
    <3> QED BY <3>2, <3>3
  <2>10. AloneTells'
    BY <1>1, <2>1, <2>2, <2>3, <2>5, <2>6, <2>7, <2>9 DEF AloneTells
  <2> QED BY <2>4, <2>10
<1>6. CASE EndCast(g)
  <2>1. /\ UNCHANGED <<conn, clients, page, deleted>> /\ cast[g].stage = "sending" /\ cast[g].left = {}
        /\ cast' = [cast EXCEPT ![g] = NoCast] /\ settled' = cast[g].alone
    BY <1>6 DEF EndCast
  <2>2. ~cast'[g].alone /\ \A h \in ConnIDs \ {g} : cast'[h] = cast[h]
    BY <1>1, <2>1 DEF NoCast
  <2>3. Running(g)
    BY <2>1 DEF Running
  <2>4. \A h \in ConnIDs : ~cast'[h].alone
    BY <1>1, <2>2, <2>3 DEF AloneTells
  <2>5. cast[g].alone => \A u \in Present : Knows(u)
    BY <1>1, <2>1 DEF AloneTells
  <2>6. SettledTells'
    BY <2>1, <2>5 DEF SettledTells, Knows, Latest, Listed, Present
  <2> QED BY <2>4, <2>6 DEF AloneTells
<1> QED BY <1>3, <1>4, <1>5, <1>6 DEF Broadcast

(* A deletion disturbs whatever is going on.                               *)
LEMMA AwareDeletion ==
  ASSUME Base, NEW u \in Users, DeleteAccount(u)
  PROVE  AloneTells' /\ SettledTells'
<1>1. cast' = Disturb(cast) /\ settled' = FALSE
  BY DEF DeleteAccount
<1>2. \A g \in ConnIDs : ~cast'[g].alone
  BY <1>1, DisturbIs DEF Base
<1> QED BY <1>1, <1>2 DEF AloneTells, SettledTells

LEMMA PlaceStays == Next => UNCHANGED place
<1>1. RoomProceeds => UNCHANGED place
  BY DEF RoomProceeds, TellState, StartMatch, BeginStealing, BeginGuessing, ResolveGuess, AdvanceRound, Advance,
     Scored, HandleLeave, HandleResync, RoomOnly
<1>2. TakeEvent \/ LookUp \/ Send => UNCHANGED place
  BY DEF TakeEvent, LookUp, Send, DrainOnly
<1>3. \A g \in ConnIDs : Broadcast(g) => UNCHANGED place
  BY DEF Broadcast, ListPresent, SendList, SendOne, EndCast
<1> QED BY <1>1, <1>2, <1>3 DEF Next, DeleteAccount, Connect, SocketFails, Flush, Deliver, Unregister, CloseSend, Reload

LEMMA InitAware == Init => Aware
BY DEF Init, Aware, AloneTells, SettledTells, NoCast

LEMMA NextAware == Base /\ Base' /\ Aware /\ [Next]_vars => Aware'
<1> SUFFICES ASSUME Base, Base', Aware, [Next]_vars, place' = "lobby"
             PROVE  AloneTells' /\ SettledTells'
  BY DEF Aware
<1>1. CASE Next
  <2>1. place = "lobby"
    BY <1>1, PlaceStays
  <2> QED BY <1>1, <2>1, AwareConnection, AwareDeliver, AwareReload, AwareBroadcast, AwareDeletion DEF Next
<1>2. CASE UNCHANGED vars
  BY <1>2 DEF vars, lobbyVars, Aware, AloneTells, SettledTells, Running, Knows, Latest, Listed, Present
<1> QED BY <1>1, <1>2

(* Once everything is quiet, every connected page of the lobby lists who is*)
(* connected and has an account, if the last broadcast was not disturbed:  *)
(* for any set of users, any number of connections, whichever accounts are *)
(* deleted, and whatever was on its way meanwhile.                         *)
THEOREM SpecPresenceSettles == Spec => []PresenceSettles
<1>1. Base /\ Aware => PresenceSettles
  <2> SUFFICES ASSUME Base, Aware, LobbyIsQuiet, settled, NEW u \in Users, Connected(u)
               PROVE  page[u].list = Listed
    BY DEF PresenceSettles, Listed
  <2> DEFINE k == page[u].ws
  <2>1. /\ k \in ConnIDs /\ conn[k].user = u /\ conn[k].open
    BY DEF Connected, Base, Plumbing, Types, PageType, SocketsAreUsed
  <2>2. clients[u] = k
    BY <2>1 DEF Base, Plumbing, OpenIsCurrent
  <2>3. u \in Present
    BY <2>1, <2>2, ConstantFacts DEF Present
  <2>4. conn[k].send = <<>> /\ \A g \in ConnIDs : cast[g].stage = "idle"
    BY <2>1 DEF LobbyIsQuiet, NoCast
  <2>5. \A g \in ConnIDs : conn[g].stage # "removed"
    <3>1. ASSUME NEW g \in ConnIDs, conn[g].open
          PROVE  conn[g].stage = "up"
      <4>1. clients[conn[g].user] = g /\ conn[g].user \in Users
        BY <3>1 DEF Base, Plumbing, OpenIsCurrent, Types, ConnType
      <4> QED BY <4>1, ConstantFacts DEF Base, Plumbing, RegisteredIsUp
    <3> QED BY <3>1 DEF LobbyIsQuiet
  <2>6. Knows(u)
    BY <2>3, <2>4, <2>5 DEF Aware, SettledTells, LobbyIsQuiet
  <2> QED BY <2>1, <2>2, <2>4, <2>6 DEF Knows, Latest
<1>2. Spec => []Aware
  <2>1. Init /\ []Base /\ [][Next]_vars => []Aware
    BY InitAware, NextAware, PTL
  <2> QED BY <2>1, SpecBase, PTL DEF Spec
<1> QED BY <1>1, <1>2, SpecBase, PTL

-----------------------------------------------------------------------------
(* The order of what the page of a player is sent.                         *)

(* q is what is left of r after some of it has been dropped.               *)
Within(q, r) ==
  \E f \in [1 .. Len(q) -> 1 .. Len(r)] :
    /\ \A i, j \in 1 .. Len(q) : i < j => f[i] < f[j]
    /\ \A i \in 1 .. Len(q) : q[i] = r[f[i]]

LEMMA WithinItself ==
  ASSUME NEW S, NEW q \in Seq(S)
  PROVE  Within(q, q)
<1> DEFINE f == [i \in 1 .. Len(q) |-> i]
<1>1. f \in [1 .. Len(q) -> 1 .. Len(q)] /\ \A i \in 1 .. Len(q) : f[i] = i
  OBVIOUS
<1> QED BY <1>1 DEF Within

(* A middle part is dropped.                                               *)
LEMMA WithinMiddle ==
  ASSUME NEW S, NEW a \in Seq(S), NEW b \in Seq(S), NEW c \in Seq(S)
  PROVE  Within(a \o c, (a \o b) \o c)
<1> DEFINE f == [i \in 1 .. Len(a \o c) |-> IF i <= Len(a) THEN i ELSE i + Len(b)]
           q == a \o c
           r == (a \o b) \o c
<1>1. Len(a) \in Nat /\ Len(b) \in Nat /\ Len(c) \in Nat
  BY LenProperties
<1>2. /\ Len(q) = Len(a) + Len(c)
      /\ \A i \in 1 .. Len(q) : q[i] = IF i <= Len(a) THEN a[i] ELSE c[i - Len(a)]
  BY ConcatProperties
<1>3. /\ (a \o b) \in Seq(S) /\ Len(a \o b) = Len(a) + Len(b)
      /\ \A i \in 1 .. Len(a) + Len(b) : (a \o b)[i] = IF i <= Len(a) THEN a[i] ELSE b[i - Len(a)]
  BY ConcatProperties
<1>4. /\ Len(r) = Len(a) + Len(b) + Len(c)
      /\ \A i \in 1 .. Len(r) : r[i] = IF i <= Len(a) + Len(b) THEN (a \o b)[i]
                                       ELSE c[i - (Len(a) + Len(b))]
  BY <1>1, <1>3, ConcatProperties
<1>5. f \in [1 .. Len(q) -> 1 .. Len(r)]
  BY <1>1, <1>2, <1>4
<1>6. \A i, j \in 1 .. Len(q) : i < j => f[i] < f[j]
  BY <1>1, <1>2
<1>7. \A i \in 1 .. Len(q) : q[i] = r[f[i]]
  <2> TAKE i \in 1 .. Len(q)
  <2>1. CASE i <= Len(a)
    <3>1. f[i] = i /\ i \in 1 .. Len(a) + Len(b) /\ i \in 1 .. Len(r)
      BY <1>1, <1>2, <1>4, <2>1
    <3> HIDE DEF f, q, r
    <3> QED BY <1>1, <1>2, <1>3, <1>4, <2>1, <3>1
  <2>2. CASE i > Len(a)
    <3>1. f[i] = i + Len(b) /\ i + Len(b) \in 1 .. Len(r) /\ ~(i + Len(b) <= Len(a) + Len(b))
          /\ (i + Len(b)) - (Len(a) + Len(b)) = i - Len(a) /\ ~(i <= Len(a))
      BY <1>1, <1>2, <1>4, <2>2
    <3> HIDE DEF f, q, r
    <3> QED BY <1>1, <1>2, <1>4, <3>1
  <2> QED BY <1>1, <1>2, <2>1, <2>2
<1> HIDE DEF f, q, r
<1>8. Within(q, r)
  BY <1>5, <1>6, <1>7 DEF Within
<1> QED BY <1>8 DEF q, r

(* One of the first two parts is dropped, or both.                         *)
LEMMA WithinParts ==
  ASSUME NEW S, NEW a \in Seq(S), NEW b \in Seq(S), NEW c \in Seq(S),
         NEW x \in {a, <<>>}, NEW y \in {b, <<>>}
  PROVE  Within((x \o y) \o c, (a \o b) \o c)
<1>1. /\ <<>> \in Seq(S) /\ a \o b \in Seq(S) /\ b \o c \in Seq(S)
      /\ (a \o b) \o c \in Seq(S)
  BY ConcatProperties, EmptySeq
<1>2. CASE x = a /\ y = b
  BY <1>1, <1>2, WithinItself
<1>3. CASE x = a /\ y = <<>>
  BY <1>1, <1>3, WithinMiddle, ConcatEmptySeq
<1>4. CASE x = <<>> /\ y = b
  <2>1. Within(<<>> \o (b \o c), (<<>> \o a) \o (b \o c))
    BY <1>1, WithinMiddle
  <2>2. <<>> \o (b \o c) = (<<>> \o b) \o c /\ (<<>> \o a) \o (b \o c) = (a \o b) \o c
    BY <1>1, ConcatEmptySeq, ConcatAssociative
  <2> QED BY <1>4, <2>1, <2>2
<1>5. CASE x = <<>> /\ y = <<>>
  <2>1. Within(<<>> \o c, (<<>> \o (a \o b)) \o c)
    BY <1>1, WithinMiddle
  <2>2. <<>> \o (a \o b) = a \o b /\ <<>> \o <<>> = <<>>
    BY <1>1, ConcatEmptySeq
  <2> QED BY <1>5, <2>1, <2>2
<1> QED BY <1>2, <1>3, <1>4, <1>5

LEMMA RankIsNat == \A ph : Rank(ph) \in 0 .. 6
BY DEF Rank

LEMMA LaterIsRank ==
  ASSUME NEW p, NEW q
  PROVE  Later(p, q) <=> Rank(q) > 0 /\ Rank(p) > Rank(q)
BY DEF Later

(* x may be followed by y.                                                 *)
Precedes(x, y) == x.round <= y.round /\ (x.round = y.round => ~Later(x.phase, y.phase))

LEMMA PrecedesIs ==
  ASSUME NEW x, NEW y
  PROVE  Precedes(x, y) <=>
           /\ x.round <= y.round
           /\ x.round = y.round => Rank(y.phase) = 0 \/ Rank(x.phase) <= Rank(y.phase)
BY LaterIsRank, RankIsNat DEF Precedes

LEMMA PrecedesTransitive ==
  ASSUME NEW x, NEW y, NEW z, x.round \in Nat, y.round \in Nat, z.round \in Nat,
         Rank(y.phase) > 0, Precedes(x, y), Precedes(y, z)
  PROVE  Precedes(x, z)
<1>1. Rank(x.phase) \in 0 .. 6 /\ Rank(y.phase) \in 0 .. 6 /\ Rank(z.phase) \in 0 .. 6
  BY RankIsNat
<1> QED BY <1>1, PrecedesIs

(* All that is on its way to the player's page, the first to come first:   *)
(* in the connection's channel, in the drain's hands, in the room's buffer.*)
Wire == IF page[Player].ws = NoConn THEN <<>> ELSE conn[page[Player].ws].send
InHand == IF drain.stage = "encode" \/ (drain.stage = "send" /\ drain.conn = page[Player].ws)
          THEN <<drain.event>> ELSE <<>>
Queue == (Wire \o InHand) \o events

LEMMA QueueTypes ==
  ASSUME Base, place = "room"
  PROVE  /\ Wire \in Seq(Event) /\ InHand \in Seq(Event) /\ events \in Seq(Event)
         /\ Queue \in Seq(Event)
         /\ page[Player] \in PageType /\ room \in [phase : RoomPhases, round : Nat]
         /\ drain \in DrainType
<1>1. /\ page[Player] \in PageType /\ room \in [phase : RoomPhases, round : Nat]
      /\ drain \in DrainType /\ events \in Seq(Event)
  BY ConstantFacts DEF Base, Plumbing, Types, RoomTypes
<1>2. Wire \in Seq(Event)
  <2>1. <<>> \in Seq(Event)
    BY EmptySeq
  <2>2. page[Player].ws # NoConn => conn[page[Player].ws].send \in Seq(Event)
    BY <1>1 DEF Base, Plumbing, Types, ConnType, Message, PageType
  <2> QED BY <2>1, <2>2 DEF Wire
<1>3. InHand \in Seq(Event)
  <2>1. drain.event \in Event
    BY <1>1 DEF DrainType
  <2> QED BY <2>1 DEF InHand
<1>4. Queue \in Seq(Event)
  BY <1>1, <1>2, <1>3, ConcatProperties DEF Queue
<1> QED BY <1>1, <1>2, <1>3, <1>4

(* The same page, as far as the room is concerned.                         *)
SamePage(p, q) == p.phase = q.phase /\ p.round = q.round /\ p.knowsRoom = q.knowsRoom

(* Steps that put nothing new on its way: nothing changes for a page that  *)
(* has lost nothing.                                                       *)
Keeps ==
  /\ UNCHANGED room
  /\ Within(Queue', Queue)
  /\ SamePage(page'[Player], page[Player]) \/ page'[Player] = NewPage
  /\ \/ behind'
     \/ ~Connected(Player)'
     \/ /\ Queue' = Queue /\ Connected(Player) /\ behind' = behind
        /\ SamePage(page'[Player], page[Player])

(* The first thing on its way arrives.                                     *)
Arrives ==
  /\ UNCHANGED <<room, behind>>
  /\ Connected(Player)
  /\ Len(Queue) \in Nat \ {0} /\ Len(Queue') = Len(Queue) - 1
  /\ \A i \in 1 .. Len(Queue') : Queue'[i] = Queue[i + 1]
  /\ page'[Player] = Shows(page[Player], Queue[1])

(* The room puts something on its way, as much of it as fits.              *)
Adds(evs) ==
  /\ evs \in Seq(Event)
  /\ \E n \in 0 .. Len(evs) :
       /\ Len(Queue') = Len(Queue) + n
       /\ \A i \in 1 .. Len(Queue) : Queue'[i] = Queue[i]
       /\ \A i \in 1 .. n : Queue'[Len(Queue) + i] = evs[i]
       /\ n < Len(evs) => behind'
  /\ UNCHANGED page
  /\ Connected(Player)' = Connected(Player)

LEMMA EventsAssociative ==
  ASSUME NEW a \in Seq(Event), NEW b \in Seq(Event), NEW c \in Seq(Event)
  PROVE  (a \o b) \o c = a \o (b \o c)
<1> DEFINE S == Event
<1> HIDE DEF S
<1>1. a \in Seq(S) /\ b \in Seq(S) /\ c \in Seq(S) => (a \o b) \o c = a \o (b \o c)
  BY ConcatAssociative
<1> QED BY <1>1 DEF S

LEMMA AddsIs ==
  ASSUME Base, Base', place = "room", RoomOnly, NEW evs \in Seq(Event),
         events' = events \o SubSeq(evs, 1, Fitting(evs)),
         Fitting(evs) < Len(evs) => behind'
  PROVE  Adds(evs)
<1> DEFINE kept == SubSeq(evs, 1, Fitting(evs))
           old == Wire \o InHand
<1>1. /\ Fitting(evs) \in 0 .. Len(evs) /\ kept \in Seq(Event) /\ Len(kept) = Fitting(evs)
      /\ \A i \in 1 .. Fitting(evs) : kept[i] = evs[i]
  BY FittingIs DEF Base
<1>2. old \in Seq(Event) /\ events \in Seq(Event) /\ Queue \in Seq(Event)
  BY QueueTypes, ConcatProperties
<1>3. UNCHANGED <<conn, page, drain>>
  BY DEF RoomOnly
<1>4. Wire' = Wire /\ InHand' = InHand
  BY <1>3 DEF Wire, InHand
<1>5. Queue' = old \o (events \o kept)
  BY <1>4 DEF Queue
<1>0. Queue = old \o events
  BY DEF Queue
<1> HIDE DEF kept, old
<1>6. Queue' = Queue \o kept
  <2>1. (old \o events) \o kept = old \o (events \o kept)
    BY <1>1, <1>2, EventsAssociative, ZenonT(60)
  <2> QED BY <1>0, <1>5, <2>1
<1>7. /\ Len(Queue') = Len(Queue) + Fitting(evs)
      /\ \A i \in 1 .. Len(Queue) + Fitting(evs) :
           Queue'[i] = IF i <= Len(Queue) THEN Queue[i] ELSE kept[i - Len(Queue)]
  <2>1. /\ Len(Queue \o kept) = Len(Queue) + Len(kept)
        /\ \A i \in 1 .. Len(Queue) + Len(kept) :
             (Queue \o kept)[i] = IF i <= Len(Queue) THEN Queue[i] ELSE kept[i - Len(Queue)]
    BY <1>1, <1>2, ConcatProperties
  <2>2. Len(kept) = Fitting(evs)
    BY <1>1
  <2> QED BY <1>6, <2>1, <2>2
<1>8. Len(Queue) \in Nat /\ Fitting(evs) \in Nat
  BY <1>1, <1>2, LenProperties
<1>9. /\ \A i \in 1 .. Len(Queue) : Queue'[i] = Queue[i]
      /\ \A i \in 1 .. Fitting(evs) : Queue'[Len(Queue) + i] = evs[i]
  <2>1. \A i \in 1 .. Len(Queue) : Queue'[i] = Queue[i]
    BY <1>7, <1>8
  <2>2. ASSUME NEW i \in 1 .. Fitting(evs)
        PROVE  Queue'[Len(Queue) + i] = evs[i]
    <3>1. /\ Len(Queue) + i \in 1 .. Len(Queue) + Fitting(evs)
          /\ ~(Len(Queue) + i <= Len(Queue)) /\ (Len(Queue) + i) - Len(Queue) = i
      BY <1>8
    <3> QED BY <1>1, <1>7, <3>1
  <2> QED BY <2>1, <2>2
<1>10. Connected(Player)' = Connected(Player)
  BY <1>3 DEF Connected
<1> QED BY <1>1, <1>3, <1>7, <1>9, <1>10 DEF Adds

LEMMA ArrivesIs ==
  ASSUME Base, Base', place = "room", NEW k \in ConnIDs, Deliver(k)
  PROVE  Arrives
<1> DEFINE s == conn[k].send
           rest == InHand \o events
<1>1. /\ s \in Seq(Message) /\ s # <<>> /\ conn[k].open /\ conn[k].user = Player
      /\ page[Player].ws = k /\ page'[Player].ws = k
      /\ conn'[k].send = Tail(s)
      /\ page'[Player] = Shows(page[Player], Head(s))
  BY DeliverPlumbing, ConstantFacts DEF Base, Plumbing, RoomIsPlayers
<1>2. Message = Event
  BY DEF Message
<1>3. UNCHANGED <<room, resync, events, drain, behind>>
  BY DEF Deliver, roomVars
<1>4. Wire = s /\ Wire' = Tail(s) /\ InHand' = InHand
  BY <1>1, <1>3, ConstantFacts DEF Wire, InHand
<1>5. /\ s \in Seq(Event) /\ Tail(s) \in Seq(Event)
      /\ InHand \in Seq(Event) /\ events \in Seq(Event) /\ rest \in Seq(Event)
  BY <1>1, <1>2, TailIs, QueueTypes, ConcatProperties
<1>6. Queue = s \o rest /\ Queue' = Tail(s) \o rest
  <2>1. Queue = (s \o InHand) \o events /\ Queue' = (Tail(s) \o InHand) \o events
    BY <1>3, <1>4 DEF Queue
  <2>2. /\ (s \o InHand) \o events = s \o (InHand \o events)
        /\ (Tail(s) \o InHand) \o events = Tail(s) \o (InHand \o events)
    <3>1. (s \o InHand) \o events = s \o (InHand \o events)
      BY <1>5, EventsAssociative, ZenonT(60)
    <3>2. (Tail(s) \o InHand) \o events = Tail(s) \o (InHand \o events)
      BY <1>5, EventsAssociative, ZenonT(60)
    <3> QED BY <3>1, <3>2
  <2> QED BY <2>1, <2>2
<1>7. /\ Head(s) = s[1] /\ Len(s) \in Nat \ {0} /\ Len(Tail(s)) = Len(s) - 1 /\ Len(rest) \in Nat
      /\ \A i \in 1 .. Len(Tail(s)) : Tail(s)[i] = s[i + 1]
  BY <1>1, <1>5, TailIs, LenProperties
<1> HIDE DEF s, rest
<1>8. /\ Len(Queue) = Len(s) + Len(rest)
      /\ \A i \in 1 .. Len(s) + Len(rest) : Queue[i] = IF i <= Len(s) THEN s[i] ELSE rest[i - Len(s)]
  BY <1>5, <1>6, ConcatProperties
<1>9. /\ Len(Queue') = Len(Tail(s)) + Len(rest)
      /\ \A i \in 1 .. Len(Tail(s)) + Len(rest) :
           Queue'[i] = IF i <= Len(Tail(s)) THEN Tail(s)[i] ELSE rest[i - Len(Tail(s))]
  BY <1>5, <1>6, ConcatProperties
<1>10. \A i \in 1 .. Len(Queue') : Queue'[i] = Queue[i + 1]
  <2> TAKE i \in 1 .. Len(Queue')
  <2>1. CASE i <= Len(Tail(s))
    BY <1>7, <1>8, <1>9, <2>1
  <2>2. CASE i > Len(Tail(s))
    <3>1. i - Len(Tail(s)) = (i + 1) - Len(s) /\ ~(i + 1 <= Len(s)) /\ i + 1 \in 1 .. Len(s) + Len(rest)
          /\ ~(i <= Len(Tail(s))) /\ i \in 1 .. Len(Tail(s)) + Len(rest)
      BY <1>7, <1>8, <1>9, <2>2
    <3> QED BY <1>8, <1>9, <3>1
  <2> QED BY <1>7, <1>9, <2>1, <2>2
<1>11. Queue[1] = Head(s) /\ Len(Queue) \in Nat \ {0} /\ Len(Queue') = Len(Queue) - 1
  BY <1>7, <1>8, <1>9
<1>12. Connected(Player)
  BY <1>1, ConstantFacts DEF Connected
<1> QED BY <1>1, <1>3, <1>10, <1>11, <1>12 DEF Arrives

LEMMA ShrinkIs ==
  ASSUME Base, place = "room", UNCHANGED events,
         Wire' \in {Wire, <<>>}, InHand' \in {InHand, <<>>}
  PROVE  Within(Queue', Queue)
<1>1. Wire \in Seq(Event) /\ InHand \in Seq(Event) /\ events \in Seq(Event)
  BY QueueTypes
<1>2. Queue' = (Wire' \o InHand') \o events
  BY DEF Queue
<1>3. Within((Wire' \o InHand') \o events, (Wire \o InHand) \o events)
  BY <1>1, WithinParts
<1> QED BY <1>2, <1>3 DEF Queue

(* If the queue is the same, so is everything a page follows.              *)
LEMMA SameIs ==
  ASSUME Base, place = "room", UNCHANGED <<room, behind>>, Queue' = Queue,
         SamePage(page'[Player], page[Player]), Connected(Player)' => Connected(Player)
  PROVE  Keeps
<1>1. Queue \in Seq(Event)
  BY QueueTypes
<1>2. Within(Queue', Queue)
  BY <1>1, WithinItself
<1> QED BY <1>2 DEF Keeps

LEMMA KeepsConnection ==
  ASSUME Base, Base', place = "room", NEW k \in ConnIDs,
         (\E u \in Users : Connect(k, u)) \/ SocketFails(k) \/ Flush(k) \/ Unregister(k) \/ CloseSend(k)
  PROVE  Keeps
<1>1. Plumbing /\ page \in [Users -> PageType] /\ Player \in Users
      /\ page[Player].ws \in ConnIDs \cup {NoConn}
  BY ConstantFacts DEF Base, Plumbing, Types, PageType
<1>2. CASE \E u \in Users : Connect(k, u)
  <2>1. PICK u \in Users : Connect(k, u)
    BY <1>2
  <2>2. /\ UNCHANGED <<room, events, drain>> /\ behind'
    BY <2>1 DEF Connect
  <2>3. /\ u \in Visitors /\ ~Connected(u) /\ page' = [page EXCEPT ![u].ws = k]
        /\ conn[k].stage = "none" /\ conn'[k].send = <<>>
    BY <1>1, <2>1, ConnectIs
  <2>4. u = Player
    BY <2>3 DEF Visitors
  <2>5. page'[Player] = [page[Player] EXCEPT !.ws = k] /\ page[Player] \in PageType
    BY <1>1, <2>3, <2>4
  <2>6. page'[Player].ws = k /\ SamePage(page'[Player], page[Player])
    BY <2>5 DEF PageType, SamePage
  <2>7. Wire' = <<>>
    BY <2>3, <2>6, ConstantFacts DEF Wire
  <2>8. InHand' \in {InHand, <<>>}
    BY <2>2, <2>3, <2>6 DEF InHand, Base, SocketsAreUsed
  <2>9. Within(Queue', Queue)
    BY <2>2, <2>7, <2>8, ShrinkIs
  <2> QED BY <2>2, <2>6, <2>9 DEF Keeps
<1>3. CASE SocketFails(k)
  <2>1. UNCHANGED <<page, room, events, drain>> /\ behind'
    BY <1>3 DEF SocketFails
  <2>2. Wire' \in {Wire, <<>>} /\ InHand' = InHand
    BY <1>1, <1>3, <2>1, SocketFailsPlumbing DEF Wire, InHand
  <2>3. Within(Queue', Queue)
    BY <2>1, <2>2, ShrinkIs
  <2> QED BY <2>1, <2>3 DEF Keeps, SamePage
<1>4. CASE Flush(k)
  <2>1. UNCHANGED <<conn, room, events, drain, behind>>
    BY <1>4 DEF Flush
  <2>2. page'[Player].ws = page[Player].ws /\ SamePage(page'[Player], page[Player])
    BY <1>1, <1>4, FlushPlumbing DEF SamePage
  <2>3. Queue' = Queue /\ Connected(Player)' = Connected(Player)
    BY <2>1, <2>2 DEF Queue, Wire, InHand, Connected
  <2> QED BY <2>1, <2>2, <2>3, SameIs
<1>5. CASE Unregister(k) \/ CloseSend(k)
  <2>1. UNCHANGED <<page, room, events, drain, behind>>
    BY <1>5 DEF Unregister, CloseSend, roomVars
  <2>2. \A j \in ConnIDs : conn'[j].send = conn[j].send /\ conn'[j].open = conn[j].open
    BY <1>1, <1>5, UnregisterPlumbing, CloseSendPlumbing
  <2>3. Queue' = Queue
    <3>1. Wire' = Wire /\ InHand' = InHand
      BY <1>1, <2>1, <2>2 DEF Wire, InHand
    <3> QED BY <2>1, <3>1 DEF Queue
  <2>4. Connected(Player)' => Connected(Player)
    BY <1>1, <2>1, <2>2 DEF Connected
  <2> QED BY <2>1, <2>3, <2>4, SameIs DEF SamePage
<1> QED BY <1>2, <1>3, <1>4, <1>5

LEMMA KeepsReload ==
  ASSUME Base, Base', place = "room", NEW u \in Users, Reload(u)
  PROVE  Keeps
<1>1. Plumbing /\ page \in [Users -> PageType] /\ Player \in Users
      /\ page[Player].ws \in ConnIDs \cup {NoConn}
  BY ConstantFacts DEF Base, Plumbing, Types, PageType
<1>2. UNCHANGED <<room, events, drain>> /\ behind' /\ page' = [page EXCEPT ![u] = NewPage]
  BY DEF Reload
<1>3. page'[Player] = NewPage \/ page'[Player] = page[Player]
  BY <1>1, <1>2
<1>4. \A j \in ConnIDs : conn'[j].send \in {conn[j].send, <<>>}
  BY <1>1, ReloadPlumbing
<1>5. NewPage.ws = NoConn
  BY DEF NewPage
<1>6. Wire' \in {Wire, <<>>}
  BY <1>1, <1>3, <1>4, <1>5 DEF Wire
<1>7. InHand' \in {InHand, <<>>}
  <2>1. drain.stage = "send" => drain.conn # NoConn
    BY ConstantFacts DEF Base, RoomTypes
  <2> QED BY <1>2, <1>3, <1>5, <2>1 DEF InHand
<1>8. Within(Queue', Queue)
  BY <1>2, <1>6, <1>7, ShrinkIs
<1> QED BY <1>2, <1>3, <1>8 DEF Keeps, SamePage

LEMMA KeepsDrain ==
  ASSUME Base, Base', place = "room", TakeEvent \/ LookUp \/ Send
  PROVE  Keeps
<1>1. Plumbing /\ RoomTypes /\ Player \in Users /\ page[Player].ws \in ConnIDs \cup {NoConn}
      /\ drain \in DrainType /\ events \in Seq(Event) /\ Wire \in Seq(Event) /\ InHand \in Seq(Event)
  BY ConstantFacts, QueueTypes DEF Base, Plumbing, Types, PageType
<1>2. UNCHANGED <<page, clients, room>> /\ SamePage(page'[Player], page[Player])
  BY DEF TakeEvent, LookUp, Send, DrainOnly, SamePage
<1>3. CASE TakeEvent
  <2>1. /\ UNCHANGED <<conn, behind>> /\ drain.stage = "idle" /\ events # <<>>
        /\ drain'.stage = "encode" /\ drain'.event = Head(events) /\ events' = Tail(events)
    BY <1>3 DEF TakeEvent
  <2>2. Wire' = Wire /\ InHand = <<>> /\ InHand' = <<Head(events)>>
    BY <1>2, <2>1 DEF Wire, InHand
  <2>3. events = <<Head(events)>> \o Tail(events)
    BY <1>1, <2>1
  <2>4. Head(events) \in Event /\ Tail(events) \in Seq(Event) /\ <<Head(events)>> \in Seq(Event)
    BY <1>1, <2>1, TailIs
  <2>5. Wire \o <<>> = Wire
    BY <1>1, ConcatEmptySeq
  <2>6. Queue' = Queue
    <3>1. Queue' = (Wire \o <<Head(events)>>) \o Tail(events)
      BY <2>1, <2>2 DEF Queue
    <3>2. Queue = Wire \o events
      BY <2>2, <2>5 DEF Queue
    <3>3. (Wire \o <<Head(events)>>) \o Tail(events) = Wire \o (<<Head(events)>> \o Tail(events))
      BY <1>1, <2>4, EventsAssociative, ZenonT(60)
    <3> QED BY <2>3, <3>1, <3>2, <3>3
  <2>7. Connected(Player)' = Connected(Player)
    BY <1>2, <2>1 DEF Connected
  <2> QED BY <1>2, <2>1, <2>6, <2>7, SameIs
<1>4. CASE LookUp
  <2>1. UNCHANGED <<conn, events>> /\ drain.stage = "encode"
    BY <1>4 DEF LookUp
  <2>2. Wire' = Wire /\ InHand = <<drain.event>>
    BY <1>2, <2>1 DEF Wire, InHand
  <2>3. CASE clients[Player] = NoConn
    <3>1. drain'.stage = "idle" /\ behind'
      BY <1>4, <2>3 DEF LookUp, NotDraining
    <3>2. InHand' = <<>>
      BY <3>1 DEF InHand
    <3>3. Within(Queue', Queue)
      BY <2>1, <2>2, <3>2, ShrinkIs
    <3> QED BY <1>2, <3>1, <3>3 DEF Keeps
  <2>4. CASE clients[Player] # NoConn
    <3>1. /\ drain' = [drain EXCEPT !.stage = "send", !.conn = clients[Player]] /\ UNCHANGED behind
      BY <1>4, <2>4 DEF LookUp
    <3>2. drain'.stage = "send" /\ drain'.conn = clients[Player] /\ drain'.event = drain.event
      BY <1>1, <3>1 DEF DrainType
    <3>3. InHand' = IF clients[Player] = page[Player].ws THEN InHand ELSE <<>>
      BY <1>2, <2>2, <3>2 DEF InHand
    <3>4. CASE clients[Player] = page[Player].ws
      <4>1. Queue' = Queue /\ Connected(Player)' = Connected(Player)
        BY <1>2, <2>1, <2>2, <3>3, <3>4 DEF Queue, Connected
      <4> QED BY <1>2, <3>1, <4>1, SameIs
    <3>5. CASE clients[Player] # page[Player].ws
      <4>1. ~Connected(Player)
        <5>1. ASSUME Connected(Player) PROVE FALSE
          <6>1. page[Player].ws \in ConnIDs /\ conn[page[Player].ws].open
                /\ conn[page[Player].ws].user = Player
            BY <1>1, <5>1 DEF Connected, Base, SocketsAreUsed
          <6> QED BY <1>1, <3>5, <6>1 DEF Plumbing, OpenIsCurrent
        <5> QED BY <5>1
      <4>2. ~Connected(Player)'
        BY <1>2, <2>1, <4>1 DEF Connected
      <4>3. Within(Queue', Queue)
        BY <2>1, <2>2, <3>3, <3>5, ShrinkIs
      <4> QED BY <1>2, <4>2, <4>3 DEF Keeps
    <3> QED BY <3>4, <3>5
  <2> QED BY <2>3, <2>4
<1>5. CASE Send
  <2> DEFINE c == drain.conn
             e == drain.event
  <2>1. /\ UNCHANGED events /\ drain.stage = "send" /\ drain'.stage = "idle"
        /\ conn' = Sent(c, e) /\ behind' = (behind \/ ~HasRoom(c)) /\ c \in ConnIDs /\ e \in Message
    BY <1>1, <1>5, SendEventPlumbing DEF Send, NotDraining
  <2>2. /\ \A j \in ConnIDs :
             /\ conn'[j].open = conn[j].open
             /\ conn'[j].send = IF j = c /\ HasRoom(c) /\ conn[c].open
                                THEN Append(conn[j].send, e) ELSE conn[j].send
    BY <1>1, <2>1, SentIs
  <2>3. InHand' = <<>>
    BY <2>1 DEF InHand
  <2>4. Connected(Player)' = Connected(Player)
    BY <1>1, <1>2, <2>2 DEF Connected
  <2>5. CASE page[Player].ws = c /\ HasRoom(c) /\ conn[c].open
    <3>1. Wire = conn[c].send /\ Wire' = Append(conn[c].send, e) /\ InHand = <<e>>
      <4>1. c # NoConn /\ page'[Player].ws = c
        BY <1>2, <2>1, <2>5, ConstantFacts
      <4>2. conn'[c].send = Append(conn[c].send, e)
        BY <2>1, <2>2, <2>5
      <4>3. Wire = conn[c].send /\ Wire' = conn'[c].send
        BY <2>5, <4>1 DEF Wire
      <4>4. InHand = <<e>>
        BY <2>1, <2>5 DEF InHand
      <4> QED BY <4>2, <4>3, <4>4
    <3>2. Append(Wire, e) = Wire \o <<e>> /\ Append(Wire, e) \in Seq(Event) /\ e \in Event
      <4>1. e \in Event
        BY <1>1 DEF DrainType
      <4> QED BY <1>1, <4>1, AppendIsConcat, AppendProperties
    <3>3. Append(Wire, e) \o <<>> = Append(Wire, e)
      BY <3>2, ConcatEmptySeq
    <3>4. Queue' = Queue
      BY <2>1, <2>3, <3>1, <3>2, <3>3 DEF Queue
    <3>5. behind' = behind
      BY <1>1, <2>1, <2>5 DEF RoomTypes
    <3> QED BY <1>2, <2>4, <3>4, <3>5, SameIs
  <2>6. CASE ~(page[Player].ws = c /\ HasRoom(c) /\ conn[c].open)
    <3>1. Wire' = Wire
      BY <1>1, <1>2, <2>2, <2>6 DEF Wire
    <3>2. Within(Queue', Queue)
      BY <2>1, <2>3, <3>1, ShrinkIs
    <3>3. CASE ~HasRoom(c)
      BY <1>2, <2>1, <3>2, <3>3 DEF Keeps
    <3>4. CASE HasRoom(c) /\ page[Player].ws = c
      <4>1. ~Connected(Player)
        BY <2>6, <3>4 DEF Connected
      <4> QED BY <1>2, <2>4, <3>2, <4>1 DEF Keeps
    <3>5. CASE HasRoom(c) /\ page[Player].ws # c
      <4>1. InHand = <<>> /\ behind' = behind
        BY <1>1, <2>1, <3>5 DEF InHand, RoomTypes
      <4>2. Queue' = Queue
        BY <2>1, <2>3, <3>1, <4>1 DEF Queue
      <4> QED BY <1>2, <2>4, <4>1, <4>2, SameIs
    <3> QED BY <3>3, <3>4, <3>5
  <2> QED BY <2>5, <2>6
<1> QED BY <1>3, <1>4, <1>5

(* What is on its way comes in the order of the rounds and their phases,   *)
(* nothing of it is behind the page, and nothing ahead of the room.        *)
Ordered ==
  /\ \A i, j \in 1 .. Len(Queue) :
       i < j /\ Effective(Queue[i]) /\ Effective(Queue[j]) => Precedes(Queue[i], Queue[j])
  /\ \A i \in 1 .. Len(Queue) : Effective(Queue[i]) =>
       Precedes(page[Player], Queue[i]) /\ Precedes(Queue[i], room)
  /\ Precedes(page[Player], room)
  /\ room.phase = "waiting" => room.round = 0

LEMMA QueueItems ==
  ASSUME Base, place = "room"
  PROVE  /\ Len(Queue) \in Nat
         /\ \A i \in 1 .. Len(Queue) : Queue[i] \in Event /\ Queue[i].round \in Nat
         /\ page[Player].round \in Nat /\ room.round \in Nat
<1>1. Queue \in Seq(Event) /\ page[Player] \in PageType /\ room \in [phase : RoomPhases, round : Nat]
  BY QueueTypes
<1>2. Len(Queue) \in Nat /\ \A i \in 1 .. Len(Queue) : Queue[i] \in Event
  BY <1>1, ElementOfSeq, LenProperties
<1> QED BY <1>1, <1>2 DEF Event, PageType

LEMMA NewPagePrecedes ==
  ASSUME NEW x, x.round \in Nat
  PROVE  Precedes(NewPage, x)
<1>1. NewPage.round = 0 /\ NewPage.phase = "blank" /\ Rank("blank") = 0
  BY DEF NewPage, Rank
<1> QED BY <1>1, RankIsNat, PrecedesIs

LEMMA KeepsOrdered ==
  ASSUME Base, Base', place = "room", place' = "room", Ordered, Keeps
  PROVE  Ordered'
<1>1. PICK f \in [1 .. Len(Queue') -> 1 .. Len(Queue)] :
        /\ \A i, j \in 1 .. Len(Queue') : i < j => f[i] < f[j]
        /\ \A i \in 1 .. Len(Queue') : Queue'[i] = Queue[f[i]]
  BY DEF Keeps, Within
<1>2. UNCHANGED room /\ (SamePage(page'[Player], page[Player]) \/ page'[Player] = NewPage)
  BY DEF Keeps
<1>3. ASSUME NEW x, x.round \in Nat, Precedes(page[Player], x)
      PROVE  Precedes(page'[Player], x)
  BY <1>2, <1>3, NewPagePrecedes DEF SamePage, Precedes
<1>4. /\ \A i \in 1 .. Len(Queue) : Queue[i].round \in Nat
      /\ room.round \in Nat
  BY QueueItems
<1>5. \A i \in 1 .. Len(Queue') : Effective(Queue'[i]) =>
        Precedes(page'[Player], Queue'[i]) /\ Precedes(Queue'[i], room)
  BY <1>1, <1>3, <1>4 DEF Ordered
<1>6. \A i, j \in 1 .. Len(Queue') :
        i < j /\ Effective(Queue'[i]) /\ Effective(Queue'[j]) => Precedes(Queue'[i], Queue'[j])
  BY <1>1 DEF Ordered
<1>7. Precedes(page'[Player], room)
  BY <1>3, <1>4 DEF Ordered
<1> QED BY <1>2, <1>5, <1>6, <1>7 DEF Ordered, Precedes

(* A page does not go back when an event that it does not precede arrives. *)
LEMMA ShowsPrecedes ==
  ASSUME NEW p \in PageType, NEW e \in Event, NEW x, x.round \in Nat,
         IF Effective(e) THEN Precedes(e, x) ELSE Precedes(p, x)
  PROVE  Precedes(Shows(p, e), x)
<1>1. CASE ~Effective(e)
  BY <1>1, ShowsIs DEF Precedes
<1>2. CASE Effective(e)
  <2>1. /\ Shows(p, e).round = e.round
        /\ Shows(p, e).phase = "blank" \/ Shows(p, e).phase = e.phase
    BY <1>2, ShowsIs
  <2>2. Rank("blank") = 0
    BY DEF Rank
  <2> QED BY <1>2, <2>1, <2>2, PrecedesIs, RankIsNat
<1> QED BY <1>1, <1>2

LEMMA ArrivesOrdered ==
  ASSUME Base, Base', place = "room", place' = "room", Ordered, Arrives
  PROVE  Ordered'
<1>1. /\ UNCHANGED room
      /\ Len(Queue) \in Nat \ {0} /\ Len(Queue') = Len(Queue) - 1
      /\ \A i \in 1 .. Len(Queue') : Queue'[i] = Queue[i + 1]
      /\ page'[Player] = Shows(page[Player], Queue[1])
  BY DEF Arrives
<1>2. /\ \A i \in 1 .. Len(Queue) : Queue[i] \in Event /\ Queue[i].round \in Nat
      /\ room.round \in Nat /\ page[Player] \in PageType
  BY QueueItems, QueueTypes
<1>3. 1 \in 1 .. Len(Queue) /\ \A i \in 1 .. Len(Queue') : i + 1 \in 1 .. Len(Queue) /\ 1 < i + 1
  BY <1>1
<1>4. \A i \in 1 .. Len(Queue') : Effective(Queue'[i]) =>
        Precedes(page'[Player], Queue'[i]) /\ Precedes(Queue'[i], room)
  BY <1>1, <1>2, <1>3, ShowsPrecedes DEF Ordered
<1>5. Precedes(page'[Player], room)
  BY <1>1, <1>2, <1>3, ShowsPrecedes DEF Ordered
<1>6. \A i, j \in 1 .. Len(Queue') :
        i < j /\ Effective(Queue'[i]) /\ Effective(Queue'[j]) => Precedes(Queue'[i], Queue'[j])
  <2> TAKE i, j \in 1 .. Len(Queue')
  <2>1. i + 1 \in 1 .. Len(Queue) /\ j + 1 \in 1 .. Len(Queue) /\ (i < j => i + 1 < j + 1)
    BY <1>1
  <2> QED BY <1>1, <2>1 DEF Ordered
<1> QED BY <1>1, <1>4, <1>5, <1>6 DEF Ordered, Precedes

LEMMA AddsOrdered ==
  ASSUME Base, Base', place = "room", place' = "room", Ordered, NEW evs, Adds(evs),
         Rank(room.phase) > 0, Precedes(room, room'), room'.phase = "waiting" => room'.round = 0,
         \A i \in 1 .. Len(evs) : Effective(evs[i]) => Precedes(room, evs[i]) /\ Precedes(evs[i], room'),
         \A i, j \in 1 .. Len(evs) :
           i < j /\ Effective(evs[i]) /\ Effective(evs[j]) => Precedes(evs[i], evs[j])
  PROVE  Ordered'
<1>1. PICK n \in 0 .. Len(evs) :
        /\ Len(Queue') = Len(Queue) + n
        /\ \A i \in 1 .. Len(Queue) : Queue'[i] = Queue[i]
        /\ \A i \in 1 .. n : Queue'[Len(Queue) + i] = evs[i]
  BY DEF Adds
<1>2. UNCHANGED page /\ evs \in Seq(Event)
  BY DEF Adds
<1>3. /\ Len(Queue) \in Nat /\ Len(evs) \in Nat
      /\ \A i \in 1 .. Len(Queue) : Queue[i].round \in Nat
      /\ \A i \in 1 .. Len(evs) : evs[i].round \in Nat
      /\ page[Player].round \in Nat /\ room.round \in Nat /\ room'.round \in Nat
  <2>1. \A i \in 1 .. Len(evs) : evs[i] \in Event
    BY <1>2, ElementOfSeq
  <2>2. room'.round \in Nat
    BY DEF Base, RoomTypes
  <2> QED BY <1>2, <2>1, <2>2, QueueItems, LenProperties DEF Event
<1>4. \A i \in 1 .. Len(Queue') :
        \/ i \in 1 .. Len(Queue) /\ Queue'[i] = Queue[i]
        \/ \E k \in 1 .. Len(evs) : i = Len(Queue) + k /\ Queue'[i] = evs[k]
  <2> TAKE i \in 1 .. Len(Queue')
  <2>1. CASE i <= Len(Queue)
    BY <1>1, <1>3, <2>1
  <2>2. CASE i > Len(Queue)
    <3>1. i - Len(Queue) \in 1 .. n /\ i - Len(Queue) \in 1 .. Len(evs) /\ i = Len(Queue) + (i - Len(Queue))
      BY <1>1, <1>3, <2>2
    <3> QED BY <1>1, <3>1
  <2> QED BY <1>1, <1>3, <2>1, <2>2
<1>5. ASSUME NEW x, x.round \in Nat, Precedes(x, room)
      PROVE  /\ Precedes(x, room')
             /\ \A i \in 1 .. Len(evs) : Effective(evs[i]) => Precedes(x, evs[i])
  BY <1>3, <1>5, PrecedesTransitive
<1>6. Precedes(page[Player], room')
  BY <1>3, <1>5 DEF Ordered
<1>7. ASSUME NEW i \in 1 .. Len(Queue'), Effective(Queue'[i])
      PROVE  Precedes(page[Player], Queue'[i]) /\ Precedes(Queue'[i], room')
  <2>1. CASE i \in 1 .. Len(Queue) /\ Queue'[i] = Queue[i]
    BY <1>3, <1>5, <1>7, <2>1 DEF Ordered
  <2>2. CASE \E k \in 1 .. Len(evs) : i = Len(Queue) + k /\ Queue'[i] = evs[k]
    BY <1>3, <1>5, <1>7, <2>2 DEF Ordered
  <2> QED BY <1>4, <2>1, <2>2
<1>8. ASSUME NEW i \in 1 .. Len(Queue'), NEW j \in 1 .. Len(Queue'), i < j,
             Effective(Queue'[i]), Effective(Queue'[j])
      PROVE  Precedes(Queue'[i], Queue'[j])
  <2>1. CASE j \in 1 .. Len(Queue) /\ Queue'[j] = Queue[j]
    <3>1. i \in 1 .. Len(Queue) /\ Queue'[i] = Queue[i]
      BY <1>1, <1>3, <1>8, <2>1
    <3> QED BY <1>8, <2>1, <3>1 DEF Ordered
  <2>2. CASE \E k \in 1 .. Len(evs) : j = Len(Queue) + k /\ Queue'[j] = evs[k]
    <3>1. PICK k \in 1 .. Len(evs) : j = Len(Queue) + k /\ Queue'[j] = evs[k]
      BY <2>2
    <3>2. CASE i \in 1 .. Len(Queue) /\ Queue'[i] = Queue[i]
      BY <1>3, <1>5, <1>8, <3>1, <3>2 DEF Ordered
    <3>3. CASE \E l \in 1 .. Len(evs) : i = Len(Queue) + l /\ Queue'[i] = evs[l]
      <4>1. PICK l \in 1 .. Len(evs) : i = Len(Queue) + l /\ Queue'[i] = evs[l]
        BY <3>3
      <4>2. l < k
        BY <1>3, <1>8, <3>1, <4>1
      <4> QED BY <1>8, <3>1, <4>1, <4>2
    <3> QED BY <1>4, <3>2, <3>3
  <2> QED BY <1>4, <2>1, <2>2
<1> QED BY <1>2, <1>6, <1>7, <1>8 DEF Ordered, Precedes

(* What a step of the room puts on its way.                                *)
LEMMA RoomStepAdds ==
  ASSUME Base, Base', place = "room", NEW ph, NEW rd, NEW evs, RoomStep(ph, rd, evs)
  PROVE  Adds(evs) /\ room'.phase = ph /\ room'.round = rd /\ (~behind' => ~behind)
<1>1. /\ evs \in Seq(Event) /\ Emit(evs) /\ RoomOnly /\ room'.phase = ph /\ room'.round = rd
  BY DEF RoomStep
<1>2. /\ events' = events \o SubSeq(evs, 1, Fitting(evs))
      /\ behind' = (behind \/ Fitting(evs) < Len(evs))
  BY <1>1 DEF Emit
<1>3. behind \in BOOLEAN
  BY DEF Base, RoomTypes
<1> QED BY <1>1, <1>2, <1>3, AddsIs

LEMMA ResyncAdds ==
  ASSUME Base, Base', place = "room", HandleResync
  PROVE  /\ Adds(Answer) /\ UNCHANGED room
         /\ room.phase \notin {"completed", "abandoned"}
         /\ room.phase = "round_result" => (~behind' => ~behind)
         /\ Len(Answer) = IF room.phase = "waiting" THEN 1 ELSE 2
         /\ Answer[1].phase = (IF room.phase = "waiting" THEN "waiting" ELSE "started")
         /\ Answer[1].round = 0
         /\ room.phase # "waiting" =>
              /\ Answer[2].phase = (IF room.phase = "round_result" THEN "ignored" ELSE room.phase)
              /\ Answer[2].round = room.round
<1>1. /\ Answer \in Seq(Event) /\ events' = events \o SubSeq(Answer, 1, Fitting(Answer))
      /\ UNCHANGED room /\ RoomOnly
  BY ResyncIs DEF Base
<1>2. /\ Fitting(Answer) < Len(Answer) => behind'
      /\ room.phase = "round_result" => (~behind' => ~behind)
      /\ Alive
  BY DEF HandleResync
<1>3. Adds(Answer)
  BY <1>1, <1>2, AddsIs
<1>4. room.phase \in RoomPhases \ {"completed", "abandoned"} /\ room.round \in Nat /\ room'.round = room.round
  BY <1>1, <1>2, QueueTypes DEF Alive
<1>5. CASE room.phase = "waiting"
  <2>1. Answer = <<RoomState>>
    BY <1>5 DEF Answer
  <2> QED BY <1>1, <1>2, <1>3, <1>4, <1>5, <2>1, RoomStateIs
<1>6. CASE room.phase # "waiting"
  <2>1. Answer = <<RoomState, Told(CurrentPhase)>>
    BY <1>6 DEF Answer
  <2>2. CurrentPhase = (IF room.phase = "round_result" THEN "ignored" ELSE room.phase)
    BY <1>4, <1>6 DEF CurrentPhase, RoomPhases
  <2>3. CurrentPhase \in Phases
    BY DEF CurrentPhase, Phases
  <2>4. Told(CurrentPhase).phase = CurrentPhase /\ Told(CurrentPhase).round = room.round
    BY <1>4, <2>3, ToldIs
  <2>5. Len(Answer) = 2 /\ Answer[1] = RoomState /\ Answer[2] = Told(CurrentPhase)
    BY <2>1
  <2> QED BY <1>1, <1>2, <1>3, <1>4, <1>6, <2>2, <2>4, <2>5, RoomStateIs
<1> QED BY <1>5, <1>6

LEMMA RankOfPhases ==
  /\ Rank("waiting") = 1 /\ Rank("memorization") = 2 /\ Rank("stealing") = 3 /\ Rank("guessing") = 4
  /\ Rank("round_result") = 5 /\ Rank("completed") = 6 /\ Rank("abandoned") = 0
BY DEF Rank

LEMMA RoomOrdered ==
  ASSUME Base, Base', place = "room", place' = "room", Ordered, RoomProceeds
  PROVE  Ordered'
<1>1. /\ room.phase \in RoomPhases /\ room.round \in Nat /\ room'.phase \in RoomPhases
      /\ room'.round \in Nat /\ RoomTypes /\ Plumbing
      /\ room.phase = "waiting" => room.round = 0
  BY DEF Base, RoomTypes, Ordered
<1>2. CASE room.phase = "waiting" /\ RoomStep("memorization", 1, <<RoomState, Told("memorization")>>)
  <2> DEFINE evs == <<RoomState, Told("memorization")>>
  <2>1. Adds(evs) /\ room'.phase = "memorization" /\ room'.round = 1
    BY <1>2, RoomStepAdds
  <2>2. /\ RoomState.phase = "waiting" /\ RoomState.round = 0
        /\ Told("memorization").phase = "memorization" /\ Told("memorization").round = 1
    BY <1>2, <2>1, RoomStateIs, ToldIs DEF Phases
  <2>3. /\ Len(evs) = 2
        /\ evs[1].phase = "waiting" /\ evs[1].round = 0
        /\ evs[2].phase = "memorization" /\ evs[2].round = 1
    BY <2>2
  <2> HIDE DEF evs
  <2>4. \A i \in 1 .. Len(evs) : i = 1 \/ i = 2
    BY <2>3
  <2>5. \A i \in 1 .. Len(evs) : Precedes(room, evs[i]) /\ Precedes(evs[i], room')
    BY <1>1, <1>2, <2>1, <2>3, <2>4, PrecedesIs, RankOfPhases
  <2>6. \A i, j \in 1 .. Len(evs) : i < j => Precedes(evs[i], evs[j])
    BY <2>3, <2>4, PrecedesIs
  <2>7. Precedes(room, room') /\ Rank(room.phase) > 0
    BY <1>1, <1>2, <2>1, PrecedesIs, RankOfPhases
  <2> QED BY <2>1, <2>5, <2>6, <2>7, AddsOrdered
<1>3. CASE Follows(room, room') /\ RoomStep(room'.phase, room'.round, <<Told(room'.phase)>>)
  <2> DEFINE evs == <<Told(room'.phase)>>
  <2>1. Adds(evs)
    BY <1>3, RoomStepAdds
  <2>2. Told(room'.phase).phase = room'.phase /\ Told(room'.phase).round = room'.round
    BY <1>1, ToldIs DEF Phases, RoomPhases
  <2>3. Len(evs) = 1 /\ evs[1].phase = room'.phase /\ evs[1].round = room'.round
    BY <2>2
  <2> HIDE DEF evs
  <2>4. Precedes(room, room') /\ Rank(room.phase) > 0 /\ room'.phase # "waiting"
    BY <1>1, <1>3, PrecedesIs, RankOfPhases DEF Follows, RoomPhases
  <2>5. \A i \in 1 .. Len(evs) : Precedes(room, evs[i]) /\ Precedes(evs[i], room')
    <3>1. Precedes(room, evs[1])
      BY <2>3, <2>4 DEF Precedes
    <3>2. Precedes(evs[1], room')
      BY <1>1, <2>3, PrecedesIs, RankIsNat
    <3>3. \A i \in 1 .. Len(evs) : i = 1
      BY <2>3
    <3> QED BY <3>1, <3>2, <3>3
  <2>6. \A i, j \in 1 .. Len(evs) : ~(i < j)
    BY <2>3
  <2> QED BY <2>1, <2>4, <2>5, <2>6, AddsOrdered
<1>4. CASE /\ room.phase = "waiting" /\ room' = [room EXCEPT !.phase = "abandoned"]
           /\ RoomOnly /\ UNCHANGED events
  <2>1. UNCHANGED <<conn, page, drain, events>>
    BY <1>4 DEF RoomOnly
  <2>2. Queue' = Queue
    BY <2>1 DEF Queue, Wire, InHand
  <2>3. room'.phase = "abandoned" /\ room'.round = room.round
    BY <1>1, <1>4, QueueTypes
  <2>4. \A x : Precedes(x, room) => Precedes(x, room')
    BY <2>3, PrecedesIs, RankOfPhases
  <2> QED BY <2>1, <2>2, <2>3, <2>4 DEF Ordered, Precedes
<1>5. CASE HandleResync
  <2>1. /\ Adds(Answer) /\ room' = room
        /\ room.phase \notin {"completed", "abandoned"}
        /\ Len(Answer) = IF room.phase = "waiting" THEN 1 ELSE 2
        /\ Answer[1].phase = (IF room.phase = "waiting" THEN "waiting" ELSE "started")
        /\ Answer[1].round = 0
        /\ room.phase # "waiting" =>
             /\ Answer[2].phase = (IF room.phase = "round_result" THEN "ignored" ELSE room.phase)
             /\ Answer[2].round = room.round
    BY <1>5, ResyncAdds
  <2>2. Rank(room.phase) > 0
    BY <1>1, <2>1, RankOfPhases DEF RoomPhases
  <2>3. \A i \in 1 .. Len(Answer) : Effective(Answer[i]) =>
          Answer[i].phase = room.phase /\ Answer[i].round = room.round
    <3>1. \A i \in 1 .. Len(Answer) : i = 1 \/ (i = 2 /\ room.phase # "waiting")
      BY <2>1
    <3> QED BY <1>1, <2>1, <3>1 DEF Effective
  <2>4. Precedes(room, room)
    BY <1>1, PrecedesIs, RankIsNat
  <2>5. \A i \in 1 .. Len(Answer) : Effective(Answer[i]) =>
          Precedes(room, Answer[i]) /\ Precedes(Answer[i], room')
    BY <2>1, <2>3, <2>4 DEF Precedes
  <2>6. \A i, j \in 1 .. Len(Answer) :
          i < j /\ Effective(Answer[i]) /\ Effective(Answer[j]) => Precedes(Answer[i], Answer[j])
    BY <2>3, <2>4 DEF Precedes
  <2> QED BY <1>1, <2>1, <2>2, <2>4, <2>5, <2>6, AddsOrdered
<1>6. CASE Alive /\ UNCHANGED room /\ RoomStep(room.phase, room.round, <<RoomState>>)
  <2> DEFINE evs == <<RoomState>>
  <2>1. Adds(evs)
    BY <1>6, RoomStepAdds
  <2>2. \A i \in 1 .. Len(evs) : i = 1 /\ evs[i] = RoomState
    OBVIOUS
  <2>3. Rank(room.phase) > 0
    BY <1>1, <1>6, RankOfPhases DEF RoomPhases, Alive
  <2>4. Precedes(room, room)
    BY <1>1, PrecedesIs, RankIsNat
  <2>5. Effective(RoomState) => RoomState.phase = room.phase /\ RoomState.round = room.round
    BY <1>1, RoomStateIs DEF Effective
  <2> HIDE DEF evs
  <2>6. \A i \in 1 .. Len(evs) : Effective(evs[i]) => Precedes(room, evs[i]) /\ Precedes(evs[i], room')
    BY <1>6, <2>2, <2>4, <2>5 DEF Precedes
  <2>7. \A i, j \in 1 .. Len(evs) : ~(i < j)
    BY <2>2
  <2> QED BY <1>1, <1>6, <2>1, <2>3, <2>4, <2>6, <2>7, AddsOrdered
<1> QED BY <1>1, <1>2, <1>3, <1>4, <1>5, <1>6, RoomSteps

LEMMA InitOrdered == Init /\ place = "room" => Ordered
<1> SUFFICES ASSUME Init PROVE Ordered
  OBVIOUS
<1>1. Queue = <<>> \o <<>> \o <<>> /\ page[Player] = NewPage /\ room.round = 0
  BY ConstantFacts DEF Init, Queue, Wire, InHand, NewPage, NotDraining
<1>2. Len(Queue) = 0
  BY <1>1
<1>3. Precedes(page[Player], room)
  BY <1>1, NewPagePrecedes
<1> QED BY <1>1, <1>2, <1>3 DEF Ordered

(* The steps there are in a room.                                          *)
LEMMA RoomCases ==
  ASSUME Base, Base', place = "room", [Next]_vars
  PROVE  (Keeps \/ Arrives \/ RoomProceeds) /\ place' = "room"
<1>1. CASE Next
  <2>1. place' = place
    BY <1>1, PlaceStays
  <2> QED BY <1>1, <2>1, KeepsConnection, KeepsReload, KeepsDrain, ArrivesIs DEF Next
<1>2. CASE UNCHANGED vars
  <2>1. UNCHANGED <<place, conn, page, room, events, drain, behind>>
    BY <1>2 DEF vars, roomVars, lobbyVars
  <2>2. Queue' = Queue /\ Connected(Player)' = Connected(Player)
    BY <2>1 DEF Queue, Wire, InHand, Connected
  <2> QED BY <2>1, <2>2, SameIs DEF SamePage
<1> QED BY <1>1, <1>2

(* A page that has lost nothing shows, or is going to show, what the room  *)
(* is in: the last thing on its way that it makes anything of says so, and *)
(* it knows the room by then.                                              *)
Matches(x) == x.phase = room.phase /\ x.round = room.round

Settles(j) ==
  /\ Matches(Queue[j])
  /\ \A i \in 1 .. Len(Queue) : i > j => ~Effective(Queue[i])
  /\ NeedsRoom(Queue[j]) =>
       page[Player].knowsRoom \/ \E i \in 1 .. Len(Queue) : i < j /\ TellsRoom(Queue[i])

LearnsRoom == page[Player].knowsRoom \/ \E i \in 1 .. Len(Queue) : TellsRoom(Queue[i])

UpToDate ==
  ~behind /\ Connected(Player) /\ room.phase # "abandoned" =>
    /\ LearnsRoom
    /\ \/ (\A i \in 1 .. Len(Queue) : ~Effective(Queue[i])) /\ Matches(page[Player])
       \/ \E j \in 1 .. Len(Queue) : Settles(j)

LEMMA KeepsUpToDate ==
  ASSUME Base, place = "room", UpToDate, Keeps
  PROVE  UpToDate'
<1> SUFFICES ASSUME ~behind', Connected(Player)'
             PROVE  UpToDate'
  BY DEF UpToDate
<1>1. /\ Queue' = Queue /\ Connected(Player) /\ behind' = behind /\ UNCHANGED room
      /\ SamePage(page'[Player], page[Player])
  BY DEF Keeps
<1>2. LearnsRoom' = LearnsRoom
  BY <1>1 DEF LearnsRoom, SamePage
<1>3. \A j \in 1 .. Len(Queue) : Settles(j) => Settles(j)'
  BY <1>1 DEF Settles, Matches, SamePage
<1>4. Matches(page[Player]) => Matches(page[Player])'
  BY <1>1 DEF Matches, SamePage
<1> QED BY <1>1, <1>2, <1>3, <1>4 DEF UpToDate

LEMMA ArrivesUpToDate ==
  ASSUME Base, Base', place = "room", UpToDate, Arrives
  PROVE  UpToDate'
<1> SUFFICES ASSUME ~behind', room'.phase # "abandoned"
             PROVE  UpToDate'
  BY DEF UpToDate
<1>1. /\ UNCHANGED <<room, behind>> /\ Connected(Player)
      /\ Len(Queue) \in Nat \ {0} /\ Len(Queue') = Len(Queue) - 1
      /\ \A i \in 1 .. Len(Queue') : Queue'[i] = Queue[i + 1]
      /\ page'[Player] = Shows(page[Player], Queue[1])
  BY DEF Arrives
<1>2. /\ LearnsRoom
      /\ \/ (\A i \in 1 .. Len(Queue) : ~Effective(Queue[i])) /\ Matches(page[Player])
         \/ \E j \in 1 .. Len(Queue) : Settles(j)
  BY <1>1 DEF UpToDate
<1>3. Queue[1] \in Event /\ page[Player] \in PageType
  BY <1>1, QueueItems, QueueTypes
<1>4. page'[Player].knowsRoom = (page[Player].knowsRoom \/ TellsRoom(Queue[1]))
  BY <1>1, <1>3, ShowsIs
<1>5. \A i \in 1 .. Len(Queue) : i = 1 \/ (i - 1 \in 1 .. Len(Queue') /\ Queue'[i - 1] = Queue[i])
  <2> TAKE i \in 1 .. Len(Queue)
  <2>1. i # 1 => i - 1 \in 1 .. Len(Queue') /\ (i - 1) + 1 = i
    BY <1>1
  <2> QED BY <1>1, <2>1
<1>6. \A n \in 1 .. Len(Queue) + 1 :
        (page[Player].knowsRoom \/ \E i \in 1 .. Len(Queue) : i < n /\ TellsRoom(Queue[i])) =>
          page'[Player].knowsRoom \/ \E i \in 1 .. Len(Queue') : i < n - 1 /\ TellsRoom(Queue'[i])
  <2> TAKE n \in 1 .. Len(Queue) + 1
  <2>1. CASE page[Player].knowsRoom
    BY <1>4, <2>1
  <2>2. ASSUME NEW i \in 1 .. Len(Queue), i < n, TellsRoom(Queue[i])
        PROVE  page'[Player].knowsRoom \/ \E l \in 1 .. Len(Queue') : l < n - 1 /\ TellsRoom(Queue'[l])
    <3>1. CASE i = 1
      BY <1>4, <2>2, <3>1
    <3>2. CASE i - 1 \in 1 .. Len(Queue') /\ Queue'[i - 1] = Queue[i]
      <4>1. i - 1 < n - 1
        BY <1>1, <2>2
      <4> QED BY <2>2, <3>2, <4>1
    <3> QED BY <1>5, <3>1, <3>2
  <2> QED BY <2>1, <2>2
<1>7. LearnsRoom'
  <2>1. Len(Queue) + 1 \in 1 .. Len(Queue) + 1 /\ \A i \in 1 .. Len(Queue) : i < Len(Queue) + 1
    BY <1>1
  <2> QED BY <1>2, <1>6, <2>1 DEF LearnsRoom
<1>8. CASE (\A i \in 1 .. Len(Queue) : ~Effective(Queue[i])) /\ Matches(page[Player])
  <2>1. ~Effective(Queue[1]) /\ 1 \in 1 .. Len(Queue)
    BY <1>1, <1>8
  <2>2. Matches(page[Player])'
    BY <1>1, <1>3, <1>8, <2>1, ShowsIs DEF Matches
  <2>3. \A i \in 1 .. Len(Queue') : ~Effective(Queue'[i])
    <3> TAKE i \in 1 .. Len(Queue')
    <3>1. i + 1 \in 1 .. Len(Queue)
      BY <1>1
    <3> QED BY <1>1, <1>8, <3>1
  <2> QED BY <1>7, <2>2, <2>3 DEF UpToDate
<1>9. ASSUME NEW j \in 1 .. Len(Queue), Settles(j)
      PROVE  UpToDate'
  <2>1. CASE j = 1
    <3>1. /\ Matches(Queue[1]) /\ \A i \in 1 .. Len(Queue) : i > 1 => ~Effective(Queue[i])
          /\ NeedsRoom(Queue[1]) => page[Player].knowsRoom
      BY <1>9, <2>1 DEF Settles
    <3>2. Effective(Queue[1])
      <4>1. room.phase \in RoomPhases
        BY QueueTypes
      <4> QED BY <3>1, <4>1 DEF Matches, Effective, RoomPhases
    <3>3. Matches(page[Player])'
      BY <1>1, <1>3, <3>1, <3>2, ShowsIs DEF Matches
    <3>4. \A i \in 1 .. Len(Queue') : ~Effective(Queue'[i])
      <4> TAKE i \in 1 .. Len(Queue')
      <4>1. i + 1 \in 1 .. Len(Queue) /\ i + 1 > 1
        BY <1>1
      <4> QED BY <1>1, <3>1, <4>1
    <3> QED BY <1>7, <3>3, <3>4 DEF UpToDate
  <2>2. CASE j # 1
    <3>1. j - 1 \in 1 .. Len(Queue') /\ Queue'[j - 1] = Queue[j] /\ j \in 1 .. Len(Queue) + 1
      BY <1>1, <1>5, <2>2
    <3>2. /\ Matches(Queue[j]) /\ \A i \in 1 .. Len(Queue) : i > j => ~Effective(Queue[i])
          /\ NeedsRoom(Queue[j]) =>
               page[Player].knowsRoom \/ \E i \in 1 .. Len(Queue) : i < j /\ TellsRoom(Queue[i])
      BY <1>9 DEF Settles
    <3>3. \A i \in 1 .. Len(Queue') : i > j - 1 => ~Effective(Queue'[i])
      <4> TAKE i \in 1 .. Len(Queue')
      <4>1. i + 1 \in 1 .. Len(Queue) /\ (i > j - 1 => i + 1 > j)
        BY <1>1
      <4> QED BY <1>1, <3>2, <4>1
    <3>4. NeedsRoom(Queue'[j - 1]) =>
            page'[Player].knowsRoom \/ \E i \in 1 .. Len(Queue') : i < j - 1 /\ TellsRoom(Queue'[i])
      BY <1>6, <3>1, <3>2
    <3>5. Queue'[j - 1].phase = room'.phase /\ Queue'[j - 1].round = room'.round
      BY <1>1, <3>1, <3>2 DEF Matches
    <3>6. \E n \in 1 .. Len(Queue') : Settles(n)'
      BY <3>1, <3>3, <3>4, <3>5 DEF Settles, Matches
    <3> QED BY <1>7, <3>6 DEF UpToDate
  <2> QED BY <2>1, <2>2
<1> QED BY <1>2, <1>8, <1>9

(* Everything that was put on its way fits, and the last of it says what   *)
(* the room is in.                                                         *)
LEMMA AddsUpToDate ==
  ASSUME Base, Base', place = "room", NEW evs, Adds(evs), ~behind',
         NEW m \in 1 .. Len(evs), m = Len(evs),
         evs[m].phase = room'.phase, evs[m].round = room'.round,
         LearnsRoom \/ evs[m].phase = "waiting" \/ \E i \in 1 .. Len(evs) : i < m /\ TellsRoom(evs[i])
  PROVE  UpToDate'
<1>1. /\ Len(evs) \in Nat /\ Len(Queue) \in Nat
  BY QueueItems, LenProperties DEF Adds
<1>2. /\ Len(Queue') = Len(Queue) + Len(evs)
      /\ \A i \in 1 .. Len(Queue) : Queue'[i] = Queue[i]
      /\ \A i \in 1 .. Len(evs) : Queue'[Len(Queue) + i] = evs[i]
      /\ UNCHANGED page
  <2>1. PICK n \in 0 .. Len(evs) :
          /\ Len(Queue') = Len(Queue) + n
          /\ \A i \in 1 .. Len(Queue) : Queue'[i] = Queue[i]
          /\ \A i \in 1 .. n : Queue'[Len(Queue) + i] = evs[i]
          /\ n < Len(evs) => behind'
    BY DEF Adds
  <2>2. n = Len(evs)
    BY <1>1, <2>1
  <2> QED BY <2>1, <2>2 DEF Adds
<1>0. PICK j \in Nat : j = Len(Queue) + m
  BY <1>1
<1>3. /\ j \in 1 .. Len(Queue') /\ j = Len(Queue') /\ Queue'[j] = evs[m]
      /\ \A i \in 1 .. Len(Queue) : i \in 1 .. Len(Queue') /\ i < j
      /\ \A i \in 1 .. Len(evs) : Len(Queue) + i \in 1 .. Len(Queue') /\ (i < m => Len(Queue) + i < j)
      /\ \A i \in 1 .. Len(Queue') : ~(i > j)
  BY <1>0, <1>1, <1>2
<1>4. evs[m].phase # "waiting" =>
        page'[Player].knowsRoom \/ \E i \in 1 .. Len(Queue') : i < j /\ TellsRoom(Queue'[i])
  BY <1>2, <1>3 DEF LearnsRoom
<1>5. LearnsRoom'
  BY <1>2, <1>3, <1>4 DEF LearnsRoom, TellsRoom
<1>6. Settles(j)'
  BY <1>2, <1>3, <1>4 DEF Settles, Matches, NeedsRoom
<1> QED BY <1>3, <1>5, <1>6 DEF UpToDate

(* Nor does it matter what a page makes nothing of.                        *)
LEMMA IdleAddsUpToDate ==
  ASSUME Base, Base', place = "room", UpToDate, ~behind, room.phase # "abandoned", UNCHANGED room,
         NEW evs, Adds(evs), \A i \in 1 .. Len(evs) : ~Effective(evs[i])
  PROVE  UpToDate'
<1> SUFFICES ASSUME Connected(Player)'
             PROVE  UpToDate'
  BY DEF UpToDate
<1>1. PICK n \in 0 .. Len(evs) :
        /\ Len(Queue') = Len(Queue) + n
        /\ \A i \in 1 .. Len(Queue) : Queue'[i] = Queue[i]
        /\ \A i \in 1 .. n : Queue'[Len(Queue) + i] = evs[i]
  BY DEF Adds
<1>2. Len(Queue) \in Nat /\ UNCHANGED page /\ Connected(Player) /\ Len(evs) \in Nat
  BY QueueItems, LenProperties DEF Adds
<1>3. \A i \in 1 .. n : ~Effective(evs[i])
  BY <1>2
<1>4. \A i \in 1 .. Len(Queue') : i > Len(Queue) => ~Effective(Queue'[i])
  <2> TAKE i \in 1 .. Len(Queue')
  <2>1. i > Len(Queue) => i - Len(Queue) \in 1 .. n /\ i = Len(Queue) + (i - Len(Queue))
    BY <1>1, <1>2
  <2> QED BY <1>1, <1>3, <2>1
<1>5. \A i \in 1 .. Len(Queue) : i \in 1 .. Len(Queue') /\ Queue'[i] = Queue[i]
  BY <1>1, <1>2
<1>6. /\ LearnsRoom
      /\ \/ (\A i \in 1 .. Len(Queue) : ~Effective(Queue[i])) /\ Matches(page[Player])
         \/ \E j \in 1 .. Len(Queue) : Settles(j)
  BY <1>2 DEF UpToDate
<1>7. LearnsRoom'
  BY <1>2, <1>5, <1>6 DEF LearnsRoom
<1>8. \A i \in 1 .. Len(Queue') : i > Len(Queue) \/ i \in 1 .. Len(Queue)
  BY <1>1, <1>2
<1>9. CASE (\A i \in 1 .. Len(Queue) : ~Effective(Queue[i])) /\ Matches(page[Player])
  <2>1. \A i \in 1 .. Len(Queue') : ~Effective(Queue'[i])
    BY <1>4, <1>5, <1>8, <1>9
  <2>2. Matches(page[Player])'
    BY <1>2, <1>9 DEF Matches
  <2> QED BY <1>7, <2>1, <2>2 DEF UpToDate
<1>10. ASSUME NEW j \in 1 .. Len(Queue), Settles(j)
       PROVE  UpToDate'
  <2>1. \A i \in 1 .. Len(Queue') : i > j => ~Effective(Queue'[i])
    BY <1>4, <1>5, <1>8, <1>10 DEF Settles
  <2>2. Settles(j)'
    BY <1>2, <1>5, <1>10, <2>1 DEF Settles, Matches
  <2> QED BY <1>5, <1>7, <2>2 DEF UpToDate
<1> QED BY <1>6, <1>9, <1>10

LEMMA RoomUpToDate ==
  ASSUME Base, Base', place = "room", UpToDate, Ordered, RoomProceeds
  PROVE  UpToDate'
<1> SUFFICES ASSUME ~behind', Connected(Player)', room'.phase # "abandoned"
             PROVE  UpToDate'
  BY DEF UpToDate
<1>1. RoomTypes /\ Plumbing /\ room.phase \in RoomPhases /\ room'.phase \in RoomPhases
      /\ room'.round \in Nat /\ (room.phase = "waiting" => room.round = 0)
  BY DEF Base, RoomTypes, Ordered
<1>2. ASSUME NEW evs, Adds(evs), ~behind, room.phase # "abandoned"
      PROVE  LearnsRoom
  BY <1>2 DEF Adds, UpToDate
<1>3. CASE room.phase = "waiting" /\ RoomStep("memorization", 1, <<RoomState, Told("memorization")>>)
  <2> DEFINE evs == <<RoomState, Told("memorization")>>
  <2>1. Adds(evs) /\ room'.phase = "memorization" /\ room'.round = 1 /\ ~behind
    BY <1>3, RoomStepAdds
  <2>2. Told("memorization").phase = "memorization" /\ Told("memorization").round = 1
    BY <2>1, ToldIs DEF Phases
  <2>3. Len(evs) = 2 /\ evs[2].phase = "memorization" /\ evs[2].round = 1
    BY <2>2
  <2> HIDE DEF evs
  <2>4. LearnsRoom
    BY <1>2, <1>3, <2>1
  <2>5. 2 \in 1 .. Len(evs)
    BY <2>3
  <2> QED BY <2>1, <2>3, <2>4, <2>5, AddsUpToDate
<1>4. CASE Follows(room, room') /\ RoomStep(room'.phase, room'.round, <<Told(room'.phase)>>)
  <2> DEFINE evs == <<Told(room'.phase)>>
  <2>1. Adds(evs) /\ ~behind
    BY <1>4, RoomStepAdds
  <2>2. Told(room'.phase).phase = room'.phase /\ Told(room'.phase).round = room'.round
    BY <1>1, ToldIs DEF Phases, RoomPhases
  <2>3. Len(evs) = 1 /\ evs[1].phase = room'.phase /\ evs[1].round = room'.round
    BY <2>2
  <2> HIDE DEF evs
  <2>4. room.phase # "abandoned"
    BY <1>4 DEF Follows
  <2>5. LearnsRoom
    BY <1>2, <2>1, <2>4
  <2>6. 1 \in 1 .. Len(evs)
    BY <2>3
  <2> QED BY <2>1, <2>3, <2>5, <2>6, AddsUpToDate
<1>5. CASE room.phase = "waiting" /\ room' = [room EXCEPT !.phase = "abandoned"]
  <2>1. room'.phase = "abandoned"
    BY <1>5, QueueTypes
  <2> QED BY <2>1
<1>6. CASE HandleResync
  <2>1. /\ Adds(Answer) /\ room' = room
        /\ room.phase \notin {"completed", "abandoned"}
        /\ room.phase = "round_result" => ~behind
        /\ Len(Answer) = IF room.phase = "waiting" THEN 1 ELSE 2
        /\ Answer[1].phase = (IF room.phase = "waiting" THEN "waiting" ELSE "started")
        /\ Answer[1].round = 0
        /\ room.phase # "waiting" =>
             /\ Answer[2].phase = (IF room.phase = "round_result" THEN "ignored" ELSE room.phase)
             /\ Answer[2].round = room.round
    BY <1>6, ResyncAdds
  <2>2. CASE room.phase = "waiting"
    <3>1. 1 \in 1 .. Len(Answer) /\ 1 = Len(Answer)
      BY <2>1, <2>2
    <3> QED BY <1>1, <2>1, <2>2, <3>1, AddsUpToDate
  <2>3. CASE room.phase \notin {"waiting", "round_result"}
    <3>1. 2 \in 1 .. Len(Answer) /\ 1 \in 1 .. Len(Answer) /\ 2 = Len(Answer) /\ 1 < 2
      BY <2>1, <2>3
    <3>2. TellsRoom(Answer[1])
      BY <2>1, <2>3 DEF TellsRoom
    <3>3. Answer[2].phase = room'.phase /\ Answer[2].round = room'.round
      BY <2>1, <2>3
    <3> QED BY <2>1, <3>1, <3>2, <3>3, AddsUpToDate
  <2>4. CASE room.phase = "round_result"
    <3>1. \A i \in 1 .. Len(Answer) : i = 1 \/ i = 2
      BY <2>1, <2>4
    <3>2. \A i \in 1 .. Len(Answer) : ~Effective(Answer[i])
      BY <2>1, <2>4, <3>1 DEF Effective
    <3> QED BY <2>1, <2>4, <3>2, IdleAddsUpToDate
  <2> QED BY <2>2, <2>3, <2>4
<1>7. CASE Alive /\ UNCHANGED room /\ RoomStep(room.phase, room.round, <<RoomState>>)
  <2> DEFINE evs == <<RoomState>>
  <2>1. Adds(evs) /\ ~behind
    BY <1>7, RoomStepAdds
  <2>2. Len(evs) = 1 /\ evs[1] = RoomState
    OBVIOUS
  <2> HIDE DEF evs
  <2>3. 1 \in 1 .. Len(evs) /\ \A i \in 1 .. Len(evs) : i = 1
    BY <2>2
  <2>4. CASE room.phase = "waiting"
    BY <1>1, <1>7, <2>1, <2>2, <2>3, <2>4, RoomStateIs, AddsUpToDate
  <2>5. CASE room.phase # "waiting"
    <3>1. ~Effective(RoomState)
      BY <2>5, RoomStateIs DEF Effective
    <3> QED BY <1>7, <2>1, <2>2, <2>3, <3>1, IdleAddsUpToDate DEF Alive
  <2>6. room.phase = "waiting" \/ room.phase # "waiting"
    OBVIOUS
  <2> QED BY <2>4, <2>5, <2>6
<1> QED BY <1>1, <1>3, <1>4, <1>5, <1>6, <1>7, RoomSteps

LEMMA SpecRoom == Spec => [](place = "room" => Ordered /\ UpToDate)
<1> DEFINE Inv == place = "room" => Ordered /\ UpToDate
<1>1. Init => Inv
  <2>1. Init => behind
    BY DEF Init
  <2> QED BY <2>1, InitOrdered DEF UpToDate
<1>2. Base /\ Base' /\ Inv /\ [Next]_vars => Inv'
  <2> SUFFICES ASSUME Base, Base', Inv, [Next]_vars, place' = "room" PROVE Ordered' /\ UpToDate'
    OBVIOUS
  <2>1. place = "room"
    <3>1. CASE Next
      BY <3>1, PlaceStays
    <3>2. CASE UNCHANGED vars
      BY <3>2 DEF vars
    <3> QED BY <3>1, <3>2
  <2> QED BY <2>1, RoomCases, KeepsOrdered, KeepsUpToDate, ArrivesOrdered, ArrivesUpToDate,
             RoomOrdered, RoomUpToDate
<1> HIDE DEF Inv
<1>3. Spec => []Inv
  <2>1. Init /\ []Base /\ [][Next]_vars => []Inv
    BY <1>1, <1>2, PTL
  <2> QED BY <2>1, SpecBase, PTL DEF Spec
<1> QED BY <1>3 DEF Inv

(* A page that has lost nothing since it was last answered shows, once     *)
(* everything has arrived, the phase and round the room is in: for any     *)
(* number of connections and rounds, and buffers of any size.              *)
THEOREM SpecPageFollowsRoom == Spec => []PageFollowsRoom
<1>1. Base /\ (place = "room" => Ordered /\ UpToDate) => PageFollowsRoom
  <2> SUFFICES ASSUME Base, place = "room", UpToDate, RoomIsQuiet, ~behind
               PROVE  Matches(page[Player])
    BY DEF PageFollowsRoom, RoomIsQuiet, Matches
  <2>1. Connected(Player) /\ room.phase # "abandoned" /\ events = <<>> /\ drain.stage = "idle"
        /\ conn[page[Player].ws].send = <<>>
    BY DEF RoomIsQuiet
  <2>2. Queue = <<>> \o <<>> \o <<>>
    BY <2>1 DEF Queue, Wire, InHand
  <2>3. Len(Queue) = 0
    BY <2>2
  <2> QED BY <2>1, <2>3 DEF UpToDate
<1> QED BY <1>1, SpecBase, SpecRoom, PTL

(* What a page shows only goes forward, from one phase and round to a later*)
(* one, over any number of connections and resyncs, unless the page is     *)
(* loaded again.                                                           *)
THEOREM SpecPageNeverGoesBack == Spec => PageNeverGoesBack
<1> DEFINE Forward(p, q) == q.round >= p.round /\ (q.round = p.round => ~Later(p.phase, q.phase))
           Step == \A u \in Users : page'[u] = NewPage \/ Forward(page[u], page'[u])
<1>1. ASSUME Base, Base', place = "room" => Ordered, [Next]_vars
      PROVE  Step
  <2>1. /\ \A u \in Users : page[u].round \in Nat
        /\ place \in {"lobby", "room"} /\ Player \in Users
        /\ Plumbing /\ page \in [Users -> PageType]
    <3>1. page \in [Users -> PageType] /\ place \in {"lobby", "room"} /\ Plumbing
      BY <1>1 DEF Base, Plumbing, Types
    <3>2. \A u \in Users : page[u].round \in Nat
      BY <3>1 DEF PageType
    <3> HIDE DEF Step
    <3> QED BY <3>1, <3>2, ConstantFacts
  <2>2. \A p, q : p.round \in Nat /\ q.phase = p.phase /\ q.round = p.round => Forward(p, q)
    BY LaterIsRank, RankIsNat
  <2>3. ASSUME NEW u \in Users, Reload(u)
        PROVE  Step
    BY <2>1, <2>2, <2>3 DEF Reload
  <2>4. ASSUME NEW k \in ConnIDs, NEW u \in Users, Connect(k, u)
        PROVE  Step
    <3>1. page' = [page EXCEPT ![u].ws = k]
      BY <2>4 DEF Connect
    <3>2. \A v \in Users : page'[v].phase = page[v].phase /\ page'[v].round = page[v].round
      BY <2>1, <3>1 DEF PageType
    <3> QED BY <2>1, <2>2, <3>2
  <2>5. ASSUME NEW k \in ConnIDs, Flush(k)
        PROVE  Step
    BY <2>1, <2>2, <2>5, FlushPlumbing
  <2>6. ASSUME NEW k \in ConnIDs, Deliver(k)
        PROVE  Step
    <3> DEFINE u == conn[k].user
    <3>1. /\ u \in Users /\ \A v \in Users : v # u => page'[v] = page[v]
          /\ place = "lobby" => page'[u].phase = page[u].phase /\ page'[u].round = page[u].round
      BY <2>1, <2>6, DeliverPlumbing DEF Plumbing, Types, ConnType
    <3>2. CASE place = "lobby"
      BY <2>1, <2>2, <3>1, <3>2
    <3>3. CASE place = "room"
      <4>1. Ordered /\ Arrives /\ u = Player
        BY <1>1, <2>1, <2>6, <3>3, ArrivesIs DEF Plumbing, RoomIsPlayers
      <4>2. Len(Queue) \in Nat \ {0} /\ page'[Player] = Shows(page[Player], Queue[1])
        BY <4>1 DEF Arrives
      <4>3. Queue[1] \in Event /\ page[Player] \in PageType
        <5>1. 1 \in 1 .. Len(Queue)
          BY <4>2
        <5> HIDE DEF Step, Forward
        <5> QED BY <1>1, <3>3, <5>1, QueueItems, QueueTypes
      <4>4. CASE ~Effective(Queue[1])
        BY <2>1, <2>2, <3>1, <4>1, <4>2, <4>3, <4>4, ShowsIs
      <4>5. CASE Effective(Queue[1])
        <5>1. Precedes(page[Player], Queue[1])
          BY <4>1, <4>2, <4>5 DEF Ordered
        <5>2. /\ page'[Player].round = Queue[1].round
              /\ page'[Player].phase = "blank" \/ page'[Player].phase = Queue[1].phase
          BY <4>2, <4>3, <4>5, ShowsIs
        <5>3. Queue[1].round \in Nat /\ Rank("blank") = 0
          BY <4>3 DEF Event, Rank
        <5>4. Precedes(page[Player], page'[Player])
          BY <5>1, <5>2, <5>3, PrecedesIs, RankIsNat
        <5>5. Forward(page[Player], page'[Player])
          BY <2>1, <5>2, <5>3, <5>4 DEF Precedes
        <5> QED BY <2>1, <2>2, <3>1, <4>1, <5>5
      <4> QED BY <4>4, <4>5
    <3> QED BY <2>1, <3>2, <3>3
  <2>7. UNCHANGED page => Step
    BY <2>1, <2>2
  <2>8. ASSUME NEW k \in ConnIDs, SocketFails(k) \/ Unregister(k) \/ CloseSend(k)
        PROVE  UNCHANGED page
    BY <2>8 DEF SocketFails, Unregister, CloseSend
  <2>9. ASSUME NEW g \in ConnIDs, Broadcast(g)
        PROVE  UNCHANGED page
    BY <2>9 DEF Broadcast, ListPresent, SendList, SendOne, EndCast
  <2>10. RoomProceeds => UNCHANGED page
    BY DEF RoomProceeds, TellState, StartMatch, BeginStealing, BeginGuessing, ResolveGuess, AdvanceRound, Advance,
       Scored, HandleLeave, HandleResync, RoomOnly
  <2>11. TakeEvent \/ LookUp \/ Send => UNCHANGED page
    BY DEF TakeEvent, LookUp, Send, DrainOnly
  <2>12. (\E u \in Users : DeleteAccount(u)) \/ UNCHANGED vars => UNCHANGED page
    BY DEF DeleteAccount, vars
  <2> HIDE DEF Step
  <2> QED BY <1>1, <2>3, <2>4, <2>5, <2>6, <2>7, <2>8, <2>9, <2>10, <2>11, <2>12 DEF Next
<1>2. Base /\ Base' /\ (place = "room" => Ordered /\ UpToDate) /\ [Next]_vars =>
        [\A u \in Users :
           LET old == page[u]
               new == page'[u]
           IN  \/ new = NewPage
               \/ /\ new.round >= old.round
                  /\ new.round = old.round => ~Later(old.phase, new.phase)]_vars
  BY <1>1
<1>3. Spec => []Base /\ [](place = "room" => Ordered /\ UpToDate) /\ [][Next]_vars
  BY SpecBase, SpecRoom DEF Spec
<1> QED BY <1>2, <1>3, PTL DEF PageNeverGoesBack

=============================================================================
