------------------------------ MODULE Delivery ------------------------------
(***************************************************************************)
(* What clients are sent, and what their pages show of it: broadcastPre-   *)
(* sence, drainRoomEvents, sendTo and the pumps of internal/ws/hub.go, the *)
(* buffered events of a room (emit in room.go), the socket wrapper         *)
(* web/static/js/wsclient.js, and the handlers of lobby.html and room.html.*)
(*                                                                         *)
(* A user has one page; it may be reloaded, and its socket may fail and be *)
(* opened again.  Either the users are in the lobby (place), or Player is  *)
(* in a room, and the events are those Player is sent: what the opponent is*)
(* sent depends on nothing but the opponent's connections, and the time it *)
(* takes shows as a pause.  The lobby's page handles presence only, the    *)
(* room's page handles room events only, so that each place leaves the     *)
(* other's traffic out.                                                    *)
(*                                                                         *)
(* Abstractions: of the room its phase and round, with the events of each  *)
(* change (GameRoom has the rest).  An event's role, objects, deadline and *)
(* scores are left out (but not that it shares the scores), and so are the *)
(* events after which a page shows the phase it would show without them:   *)
(* match_starting, the announcement of sudden death (a memorization update *)
(* follows it at once), the update after a wrong guess, and errors.  A room*)
(* takes its actions in any order; Hub has the channel.                    *)
(*                                                                         *)
(* A definition headed "Mutant" is a plausible mistake in the definition it*)
(* names, for a property to catch; it is no part of the specification.     *)
(***************************************************************************)
EXTENDS Naturals, Sequences, FiniteSetsExt

CONSTANTS Users,
          Player,     \* the user whose page is followed in a room
          ConnIDs,    \* bound: connections ever made
          NoConn,
          SendCap,    \* make(chan []byte, 32)
          EventsCap,  \* make(chan Event, 64)
          MaxRounds,  \* bound: rounds played
          Deleters,   \* bound: who may delete their account
          TellCap     \* bound: events waiting when a room_state is sent by itself

ASSUME UsersAssumption == Player \in Users /\ NoConn \notin ConnIDs
ASSUME CapsAssumption == {SendCap, EventsCap, MaxRounds} \subseteq Nat \ {0}

VARIABLES place,    \* "lobby" or "room"
          conn,     \* the connections: Client and the goroutine that serves it
          clients,  \* h.clients
          cast,     \* the broadcastPresence a connection's goroutine is in
          deleted,  \* the users who have deleted their account
          settled,  \* history: the broadcast that ended last ran undisturbed
          page,     \* what each user's browser has
          room,     \* r.State, as far as it is kept here
          resync,   \* there is a resync in r.Actions
          events,   \* r.Events
          drain,    \* where drainRoomEvents is
          behind,   \* history: the player's page has lost something since it was last up to date
          died      \* the process has panicked

lobbyVars == <<cast, deleted, settled>>
roomVars == <<room, resync, events, drain, behind>>
vars == <<place, conn, clients, page, lobbyVars, roomVars, died>>

(* Who has a page here.                                                    *)
Visitors == IF place = "lobby" THEN Users ELSE {Player}

NoConnection == [user |-> Player, stage |-> "none", open |-> FALSE, send |-> <<>>]
NoCast == [stage |-> "idle", ids |-> {}, left |-> {}, alone |-> FALSE]
NoEvent == [phase |-> "none", round |-> 0]
NotDraining == [stage |-> "idle", event |-> NoEvent, conn |-> NoConn]
(* A page that has just been loaded has one message in its queue: join_lobby*)
(* or resync.                                                              *)
NewPage == [ws |-> NoConn, queued |-> TRUE, list |-> {}, knowsRoom |-> FALSE,
            phase |-> "blank", round |-> 0]

Present == {u \in Users : clients[u] # NoConn}
SendOpen(k) == conn[k].stage \in {"up", "removed"}
Connected(u) == page[u].ws # NoConn /\ conn[page[u].ws].open
Reads(k) == conn[k].stage = "up" /\ cast[k] = NoCast

-----------------------------------------------------------------------------
(* Buffers.                                                                *)

HasRoom(k) == Len(conn[k].send) < SendCap

(* A send that does not find room drops the message.  What a closed socket *)
(* was to be sent is lost whether or not it is in the buffer: it is empty. *)
Sent(k, m) == IF HasRoom(k) /\ conn[k].open THEN [conn EXCEPT ![k].send = Append(@, m)] ELSE conn
Closed(c) == [c EXCEPT !.open = FALSE, !.send = <<>>]

(* emit, for several events: those that do not fit are dropped.            *)
Fitting(evs) == Min({Len(evs), EventsCap - Len(events)})
Emit(evs) == /\ events' = events \o SubSeq(evs, 1, Fitting(evs))
             /\ behind' = (behind \/ Fitting(evs) < Len(evs))

-----------------------------------------------------------------------------
(* Presence: broadcastPresence reads the map, lets go of the lock, and     *)
(* takes it again to send.                                                 *)

Running(g) == cast[g].stage \in {"listed", "sending"}

(* Mutant of Unlocked: broadcastAll sends without the lock.                *)
NeverLocked == TRUE

(* Whether h.mu can be taken for writing.                                  *)
Unlocked == \A g \in ConnIDs : cast[g].stage # "sending"

(* Something happens that a broadcast under way does not know of.          *)
Disturb(c) == [g \in ConnIDs |-> [c[g] EXCEPT !.alone = FALSE]]

(* Mutant of StartCast: only who stays is told.                            *)
CastOnConnect(k, c) == IF conn[k].stage = "none" THEN [c EXCEPT ![k].stage = "due"] ELSE c

StartCast(k, c) == IF place = "lobby" THEN [c EXCEPT ![k].stage = "due"] ELSE c

(* Mutant of Listed: deleted accounts are listed.                          *)
ListAll == Present

(* Who passes the test of broadcastPresence.                               *)
Listed == Present \ deleted

(* The first section under the read lock; the accounts are looked up after *)
(* it, one by one, and of those deleted meanwhile some may be (SendList).  *)
ListPresent(g) ==
  /\ cast[g].stage = "due"
  /\ cast' = [Disturb(cast) EXCEPT ![g] = [stage |-> "listed", ids |-> Listed, left |-> {},
                                           alone |-> \A h \in ConnIDs : ~Running(h)]]
  /\ UNCHANGED <<place, conn, clients, page, deleted, settled, roomVars, died>>

(* broadcastAll takes the read lock, which others may hold as well.        *)
SendList(g) ==
  /\ cast[g].stage = "listed"
  /\ \E seen \in SUBSET (cast[g].ids \cap deleted) :
       cast' = [cast EXCEPT ![g].stage = "sending", ![g].ids = @ \ seen,
                            ![g].left = {clients[u] : u \in Present}]
  /\ UNCHANGED <<place, conn, clients, page, deleted, settled, roomVars, died>>

(* One turn of its loop; the map's order is arbitrary.                     *)
SendOne(g) ==
  /\ cast[g].stage = "sending"
  /\ \E k \in cast[g].left :
       /\ died' = ~SendOpen(k)
       /\ conn' = Sent(k, cast[g].ids)
       /\ cast' = [cast EXCEPT ![g].left = @ \ {k}, ![g].alone = @ /\ HasRoom(k)]
  /\ UNCHANGED <<place, clients, page, deleted, settled, roomVars>>

EndCast(g) ==
  /\ cast[g].stage = "sending"
  /\ cast[g].left = {}
  /\ cast' = [cast EXCEPT ![g] = NoCast]
  /\ settled' = cast[g].alone
  /\ UNCHANGED <<place, conn, clients, page, deleted, roomVars, died>>

(* DeleteMe closes no socket and tells nobody.  (In a room it would only   *)
(* keep Player from connecting again.)  Bound: only Deleters do it.        *)
DeleteAccount(u) ==
  /\ u \in Deleters \ deleted
  /\ deleted' = deleted \cup {u}
  /\ cast' = Disturb(cast)
  /\ settled' = FALSE
  /\ UNCHANGED <<place, conn, clients, page, roomVars, died>>

-----------------------------------------------------------------------------
(* Connections.                                                            *)

Alive == room.phase \notin {"completed", "abandoned"}
AskResync == resync' = (resync \/ (place = "room" /\ Alive))

(* wsclient.js _connect and ServeWS: the page opens a socket, for the first*)
(* time or two seconds after the last one closed.  Outside the lobby the   *)
(* connection is put into the room, and the server itself asks for a resync*)
(* (Hub has that path with its locks and its channel).  The session was    *)
(* looked at before: a handshake under way when the account is deleted     *)
(* still connects (how many are under way is not kept).                    *)
Connect(k, u) ==
  /\ conn[k] = NoConnection
  /\ u \in Visitors /\ ~Connected(u)
  /\ Unlocked
  /\ conn' = [j \in ConnIDs |->
                IF j = k THEN [NoConnection EXCEPT !.user = u, !.stage = "up", !.open = TRUE]
                ELSE IF j = clients[u] THEN Closed(conn[j]) ELSE conn[j]]
  /\ clients' = [clients EXCEPT ![u] = k]
  /\ page' = [page EXCEPT ![u].ws = k]
  /\ cast' = StartCast(k, Disturb(cast))
  /\ AskResync
  /\ behind' = TRUE
  /\ UNCHANGED <<place, deleted, settled, room, events, drain, died>>

(* Bound: in a room the last connection that can be made is not lost.      *)
MayLose == place = "lobby" \/ \E k \in ConnIDs : conn[k] = NoConnection

(* The network fails, or the read deadline passes.                         *)
SocketFails(k) ==
  /\ MayLose
  /\ conn[k].open
  /\ conn' = [conn EXCEPT ![k] = Closed(@)]
  /\ behind' = TRUE
  /\ UNCHANGED <<place, clients, page, lobbyVars, room, resync, events, drain, died>>

(* The user loads the page again; the browser closes the socket.           *)
Reload(u) ==
  /\ MayLose
  /\ page[u] # NewPage
  /\ conn' = [k \in ConnIDs |-> IF k = page[u].ws THEN Closed(conn[k]) ELSE conn[k]]
  /\ page' = [page EXCEPT ![u] = NewPage]
  /\ behind' = TRUE
  /\ UNCHANGED <<place, clients, lobbyVars, room, resync, events, drain, died>>

(* onopen sends what is queued, and dispatch gets it.                      *)
Flush(k) ==
  /\ Reads(k)
  /\ conn[k].open
  /\ LET u == conn[k].user
     IN  /\ page[u].ws = k
         /\ page[u].queued
         /\ page' = [page EXCEPT ![u].queued = FALSE]
         /\ AskResync
  /\ cast' = StartCast(k, cast)
  /\ UNCHANGED <<place, conn, clients, deleted, settled, room, events, drain, behind, died>>

(* readPump has returned; removeClient deletes the entry if it is its own. *)
Unregister(k) ==
  /\ Reads(k)
  /\ ~conn[k].open
  /\ Unlocked
  /\ clients' = IF clients[conn[k].user] = k THEN [clients EXCEPT ![conn[k].user] = NoConn]
                ELSE clients
  /\ conn' = [conn EXCEPT ![k].stage = "removed"]
  /\ cast' = Disturb(cast)
  /\ UNCHANGED <<place, page, deleted, settled, roomVars, died>>

(* The rest of removeClient, and of readPump's deferred function.          *)
CloseSend(k) ==
  /\ conn[k].stage = "removed"
  /\ conn' = [conn EXCEPT ![k].stage = "closed"]
  /\ cast' = StartCast(k, cast)
  /\ UNCHANGED <<place, clients, page, deleted, settled, roomVars, died>>

-----------------------------------------------------------------------------
(* The room.  An event is told by the phase it makes a page show: "waiting"*)
(* and "started" are room_state in its two meanings for the page, "ignored"*)
(* a phase_update the page has no use for.                                 *)

Told(ph) == [phase |-> ph, round |-> room'.round]

(* Mutant of RoomState: its status is not the room's.                      *)
NeverStarted == [phase |-> "waiting", round |-> 0]

(* roomStatePayload, which says nothing of rounds.                         *)
RoomState == [phase |-> IF room.phase = "waiting" THEN "waiting" ELSE "started", round |-> 0]
(* The scores map is not copied: event and state share it.                 *)
CarriesScores(e) == e.phase \in {"memorization", "round_result", "completed"}
ScoresRace == drain.stage = "encode" /\ CarriesScores(drain.event)

RoomOnly == UNCHANGED <<place, conn, clients, page, lobbyVars, drain>>

(* A handler after which the room is in phase ph of round rd.              *)
Advance(ph, rd, evs) ==
  /\ room' = [room EXCEPT !.phase = ph, !.round = rd]
  /\ Emit(evs)
  /\ RoomOnly /\ UNCHANGED <<resync, died>>

(* The room_state of a set_ready that does not start the match, and of the *)
(* opponent's resync, the rest of whose answer is not for Player.  Bound:  *)
(* only with fewer than TellCap events waiting.                            *)
TellState ==
  /\ Alive
  /\ Len(events) < TellCap
  /\ Emit(<<RoomState>>)
  /\ RoomOnly /\ UNCHANGED <<room, resync, died>>

(* ActionSetReady of the second player to be ready, Player's having come   *)
(* over a connection; its room_state is sent before the match is started.  *)
StartMatch ==
  /\ room.phase = "waiting"
  /\ \E k \in ConnIDs : conn[k] # NoConnection
  /\ Advance("memorization", 1, <<RoomState, Told("memorization")>>)

(* When the time to memorize is over.                                      *)
BeginStealing == room.phase = "memorization" /\ Advance("stealing", room.round, <<Told("stealing")>>)

(* applySteal, by the stealer or for them.                                 *)
BeginGuessing == room.phase = "stealing" /\ Advance("guessing", room.round, <<Told("guessing")>>)

(* A write to the scores while they are being encoded kills the process, if*)
(* the runtime notices.                                                    *)
Scored(ph) ==
  /\ room' = [room EXCEPT !.phase = ph]
  /\ Emit(<<Told(ph)>>)
  /\ died' \in {FALSE, ScoresRace}
  /\ RoomOnly

ResolveGuess == room.phase = "guessing" /\ Scored("round_result") /\ UNCHANGED resync

(* advanceRound; finishMatch only reads the scores.                        *)
AdvanceRound ==
  /\ room.phase = "round_result"
  /\ IF room.round < MaxRounds
     THEN Advance("memorization", room.round + 1, <<Told("memorization")>>)
     ELSE Advance("completed", room.round, <<Told("completed")>>)

(* handleLeave, of Player or of the opponent.  A leave_room may be in the  *)
(* channel at any time: the opponent clicks, and every connection's end    *)
(* sends one, the end of a replaced connection included (see Hub).         *)
HandleLeave ==
  /\ Alive
  /\ resync' = FALSE  \* nobody answers any more
  /\ IF room.phase = "waiting"
     THEN /\ room' = [room EXCEPT !.phase = "abandoned"]
          /\ RoomOnly /\ UNCHANGED <<events, behind, died>>
     ELSE Scored("completed")

(* sendCurrentPhase.                                                       *)
CurrentPhase ==
  IF room.phase \in {"memorization", "stealing", "guessing"} THEN room.phase ELSE "ignored"

(* Mutant of Answer: what sendCurrentPhase sends is forgotten.             *)
StateOnly == <<RoomState>>

Answer == IF room.phase = "waiting" THEN <<RoomState>> ELSE <<RoomState, Told(CurrentPhase)>>

(* ActionResync.  If the whole answer is sent, and the page has a use for  *)
(* it, the page is up to date when it gets there.                          *)
HandleResync ==
  /\ Alive /\ resync
  /\ resync' = FALSE
  /\ UNCHANGED room
  /\ events' = events \o SubSeq(Answer, 1, Fitting(Answer))
  /\ behind' = \/ Fitting(Answer) < Len(Answer)
               \/ behind /\ room.phase = "round_result"
  /\ RoomOnly /\ UNCHANGED died

-----------------------------------------------------------------------------
(* drainRoomEvents and sendTo.  The write pump, the network and the page's *)
(* handler are one step (Deliver).                                         *)

DrainOnly == UNCHANGED <<place, clients, page, lobbyVars, room, resync>>

TakeEvent ==
  /\ drain.stage = "idle" /\ events # <<>>
  /\ drain' = [stage |-> "encode", event |-> Head(events), conn |-> NoConn]
  /\ events' = Tail(events)
  /\ DrainOnly /\ UNCHANGED <<conn, behind, died>>

(* encodeEnvelope has run over the payload, with the scores as they are    *)
(* now, and the receiver is looked up in the map.                          *)
LookUp ==
  /\ drain.stage = "encode"
  /\ IF clients[Player] = NoConn
     THEN drain' = NotDraining /\ behind' = TRUE
     ELSE /\ drain' = [drain EXCEPT !.stage = "send", !.conn = clients[Player]]
          /\ UNCHANGED behind
  /\ DrainOnly /\ UNCHANGED <<conn, events, died>>

(* The lock is no longer held: the channel may have been closed.           *)
Send ==
  /\ drain.stage = "send"
  /\ drain' = NotDraining
  /\ died' = ~SendOpen(drain.conn)
  /\ conn' = Sent(drain.conn, drain.event)
  /\ behind' = (behind \/ ~HasRoom(drain.conn))
  /\ DrainOnly /\ UNCHANGED events

-----------------------------------------------------------------------------
(* The page.                                                               *)

(* What room.html makes of a message: the scores are laid out with the help*)
(* of the room's state, without which the handler fails on an empty page;  *)
(* room_state is shown in the waiting room only.                           *)
Shows(p, e) ==
  CASE e.phase = "waiting" ->
         [p EXCEPT !.knowsRoom = TRUE, !.phase = "waiting", !.round = e.round]
    [] e.phase = "started" -> [p EXCEPT !.knowsRoom = TRUE]
    [] e.phase = "ignored" -> p
    [] e.phase \in {"memorization", "completed"} /\ ~p.knowsRoom ->
         [p EXCEPT !.phase = "blank", !.round = e.round]
    [] OTHER -> [p EXCEPT !.phase = e.phase, !.round = e.round]

(* A write pump that has given up on an error, with the connection left    *)
(* open and registered, is one from which nothing is delivered any more.   *)
Deliver(k) ==
  /\ conn[k].send # <<>>
  /\ LET u == conn[k].user
         m == Head(conn[k].send)
     IN  page' = [page EXCEPT ![u] = IF place = "lobby" THEN [@ EXCEPT !.list = m] ELSE Shows(@, m)]
  /\ conn' = [conn EXCEPT ![k].send = Tail(@)]
  /\ UNCHANGED <<place, clients, lobbyVars, roomVars, died>>

-----------------------------------------------------------------------------

Init ==
  /\ place \in {"lobby", "room"}
  /\ conn = [k \in ConnIDs |-> NoConnection]
  /\ clients = [u \in Users |-> NoConn]
  /\ cast = [k \in ConnIDs |-> NoCast]
  /\ deleted = {}
  /\ settled = FALSE
  /\ page = [u \in Users |-> NewPage]
  /\ room = [phase |-> "waiting", round |-> 0]
  /\ resync = FALSE
  /\ events = <<>>
  /\ drain = NotDraining
  /\ behind = TRUE
  /\ died = FALSE

Broadcast(g) == ListPresent(g) \/ SendList(g) \/ SendOne(g) \/ EndCast(g)

RoomProceeds == \/ TellState \/ StartMatch \/ BeginStealing \/ BeginGuessing \/ ResolveGuess \/ AdvanceRound
                \/ HandleLeave \/ HandleResync

Next ==
  /\ ~died
  /\ \/ \E k \in ConnIDs :
          \/ \E u \in Users : Connect(k, u)
          \/ SocketFails(k) \/ Flush(k) \/ Deliver(k) \/ Unregister(k) \/ CloseSend(k)
     \/ \E u \in Users : Reload(u)
     \/ place = "lobby" /\ \E g \in ConnIDs : Broadcast(g)
     \/ place = "lobby" /\ \E u \in Users : DeleteAccount(u)
     \/ place = "room" /\ RoomProceeds
     \/ place = "room" /\ (TakeEvent \/ LookUp \/ Send)

Spec == Init /\ [][Next]_vars

-----------------------------------------------------------------------------
(* Properties.                                                             *)

(* broadcastAll never sends on a channel that was closed: every connection *)
(* still to be sent to was registered when the lock was taken, and none can*)
(* be removed, and its channel closed after that, until the lock is let go.*)
BroadcastsAreSafe ==
  \A g \in ConnIDs : \A k \in cast[g].left : SendOpen(k)

LobbyIsQuiet ==
  /\ place = "lobby"
  /\ \A k \in ConnIDs : /\ cast[k] = NoCast /\ conn[k].send = <<>>
                        /\ conn[k].open \/ conn[k].stage \in {"none", "closed"}

(* broadcastPresence on connect and on disconnect (progress.md:54): when   *)
(* nothing is under way any more, and the last broadcast to end found room *)
(* and was not overlapped by another, by a connection, a disconnection, or *)
(* the deletion of an account, nor followed by a deletion, every connected *)
(* page lists exactly the users who are connected and have an account.     *)
PresenceSettles ==
  LobbyIsQuiet /\ settled => \A u \in Users : Connected(u) => page[u].list = Present \ deleted

RoomIsQuiet ==
  /\ place = "room" /\ room.phase # "abandoned"
  /\ events = <<>> /\ drain.stage = "idle"
  /\ Connected(Player) /\ conn[page[Player].ws].send = <<>>

(* A page that has lost nothing since it was last answered a resync shows, *)
(* once everything has been delivered, the phase and round the room is in. *)
PageFollowsRoom ==
  RoomIsQuiet /\ ~behind =>
    page[Player].phase = room.phase /\ page[Player].round = room.round

(* The place of a phase in a round, 0 for what is no phase.                *)
Rank(ph) ==
  CASE ph = "waiting" -> 1
    [] ph = "memorization" -> 2
    [] ph = "stealing" -> 3
    [] ph = "guessing" -> 4
    [] ph = "round_result" -> 5
    [] ph = "completed" -> 6
    [] OTHER -> 0
Later(p, q) == Rank(q) > 0 /\ Rank(p) > Rank(q)

(* What a page shows never goes back to an earlier phase or round, although*)
(* messages reach it over one connection after another and resyncs repeat  *)
(* what was sent: only loading it again clears it.                         *)
PageNeverGoesBack ==
  [][\A u \in Users :
       LET old == page[u]
           new == page'[u]
       IN  \/ new = NewPage
           \/ /\ new.round >= old.round
              /\ new.round = old.round => ~Later(old.phase, new.phase)]_vars
=============================================================================
