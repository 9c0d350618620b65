# A verification project for SHIFT

SHIFT (`src/`) is a two-player "steal and guess" game: a Go 1.22 server (standard
library only) and a small JavaScript client.  This directory holds TLA+ models of
the server's stateful parts and of what the client's pages keep, TLC configurations
that check them on small instances, and proofs, checked by TLAPS, about every one of
the models.

Every definition is translated from the source; `PROJECT.json` ("map") gives the
lines each one stands for.

## 1. Inventory

| Component | State | Operations | Talks to |
|---|---|---|---|
| Room actor, `game/room.go`, `game/state.go` | status, ready flags, phase, round, roles, objects, stolen object, attempts, scores, history, timer | five actions, four timeouts | hub (action channel of 16, event channel of 64), store |
| Rules, `game/config.go` | none | rank, level, win rate, difficulty tables | room |
| Store, `store/store.go` | users, matches, catalog, the JSON file | create, read a copy, write a copy back, report a match, list the ranking, draw objects, save | everybody |
| Accounts and sessions, `auth/`, `api/routes.go` | session secret in each user, signed cookies | register, recover, log out, update, delete | store |
| Rate limiter, `auth/ratelimit.go` | attempts per address | Allow | recover |
| Leaderboard, `store.go`, `routes.go`, `leaderboard.html` | rows shown, cursor, calls that wait | load more, answer, show | store |
| Challenge manager, `lobby/challenges.go` | map of challenges | create, respond, sweep | hub |
| Hub, `ws/hub.go` | connected clients, rooms, each connection's room and send buffer | connect, dispatch, create a room, take a connection down, broadcast presence, deliver events | all of the above |
| WebSocket, `ws/websocket.go` | per connection: buffer of a fragmented message, deadlines | read a message, ping, close | hub |
| Client socket and pages, `wsclient.js`, `lobby.html`, `room.html` | queue of unsent messages, presence list, phase shown | connect again after 2 s, send, show an event | hub |
| Practice game, `web/static/js/ai.js` | round, scores, objects, attempts | the page's callbacks | catalog API |
| Set-up, templates, catalog seed, SQL | none at run time | | |

The hard behaviours, and what makes each component correct:

* **Room actor.** One goroutine selects between messages, which players may send in
  any phase and order, and a timer.  In Go 1.22 an expired timer leaves a tick in a
  channel that `Stop` and `Reset` do not empty, so a tick may arrive in a later phase.
  Correct means: roles alternate, every round is worth one point, attempts are
  accounted, no match hangs, ends level or is reported twice, and no player is shown
  the other's objects before they may see them.
* **Accounts.** Handlers and rooms read a user, change the copy and write it back
  whole, under separate locks; saves may fail and the process may restart.  Correct
  means: names unique, records consistent, every result counted, saved means durable.
* **Challenges.** Answers race with the sweep.  Correct means: one outcome, no expiry
  announced of a challenge that can still be answered, none open for ever.
* **Hub.** One goroutine per connection; a user who reconnects has two for a while.
  Correct means: presence is exactly the open connections, rooms belong to the players
  who agreed, who are both put into them however often they connect anew meanwhile, and
  reconnecting keeps the match.
* **Delivery.** Every buffer drops what it has no place for, maps are read under one
  lock and used under the next or none, accounts are deleted while they are connected,
  and sockets fail and come back.  Correct means: nothing is sent on a closed channel,
  lists of users settle on who is there and has an account, and a page follows its room
  and never goes back.
* **Connection.** Messages come in fragments with control frames between them, and a
  silent peer has to be noticed while an idle one is kept.
* **Rate limiter.** The window slides; correct means the limit holds for every window,
  and nobody else is refused.
* **Leaderboard.** The ranking changes between two pages, and requests overlap.
* **Practice game.** A chain of timers and clicks.

`PROJECT.json` lists the hazards at their lines.

## 2. Modules

| Module | Models | Used by |
|---|---|---|
| `MatchScore` | what a match promises, without phases, timers or objects | refined by `GameRoom` and by `VsComputer` |
| `RoomLife` | what the hub takes a room to be: a life cycle and a channel | `Hub` builds its rooms of it; refined by `GameRoom` |
| `GameRoom` | the room actor | `MCGameRoom` |
| `Accounts` | store, registration, sessions, account requests, reporting of results | `MCAccounts` |
| `Challenges` | the challenge manager | `MCChallenges`, `Hub` |
| `Hub` | connections, presence, dispatch, creation of rooms; an instance of `Challenges` | `MCHub` |
| `Delivery` | what clients are sent and what their pages make of it | `MCDelivery` |
| `Connection` | one WebSocket: frames, `ReadMessage`, heartbeat, read deadline | run as it is |
| `RateLimiter`, `Leaderboard`, `VsComputer` | three parts that share no state with others | `MCStandalone` |
| `GameRoomProofs`, `RoundProofs` | theorems about `GameRoom` | |
| `AccountsProofs`, `ChallengesProofs`, `HubProofs`, `DeliveryProofs`, `ConnectionProofs` | theorems about the module each is named for | |
| `StandaloneProofs` | theorems about `RateLimiter`, `VsComputer` and `Leaderboard` | |

The `MC...` modules supply model values and symmetry only; `MCStandalone` also puts its
three parts side by side, each behaviour being of one of them.  Definitions headed
"Mutant" are plausible mistakes used to see that a property can fail; no
specification uses them.

### GameRoom

A variable for each field of `Room` and `GameState` that matters.  `actions` is the
buffer of `r.Actions`; `armed` and `tick` are the timer and the place in its channel;
`out` holds the events of the latest handler in order; `reported` the rows handed to
`ReportMatchResult`.  Each arm of `Run`'s select is one step: `Handle...` takes the
oldest action and does the whole of `handleAction`, `MemorizationOver`, `StealTimeout`,
`GuessTimeout` and `ResultShown` are `handleTimeout`.  `TimerFires` is the Go runtime,
`Submit` the hub's non-blocking send; one that finds the buffer full changes nothing.
The timer may run out in the middle of a handler too.  While an action is handled that is
the same as just before it.  While a tick is handled (`Expire`) it is a case of its own:
if the tick was left over by an earlier phase, the present phase's timer still runs, and
may put another tick in the channel before `armTimer` stops it.

Object lists are sets; a draw is any set of `ObjectCount` objects outside the excluded
ones.  The category only selects the pool.  Deadlines are the timer's.  A failing draw
gives an empty list as in the code, which `PoolAssumption` (50 objects per category,
at most two draws of 25) rules out.  Branches no state reaches have no action of their
own: `NO_ATTEMPTS_LEFT` answers like `NOT_YOUR_TURN`, a timeout with no state, and
`PhaseSuddenDeath`, which is announced but never current.

### Accounts

A step is one call of the store, which holds its lock throughout.  `work[g]` is what
goroutine `g` is in the middle of, with the copies it has read.  `Save` may fail, which
leaves the file as it was and memory changed.  `Restart` reads the file; cookies of the
old server key verify no more.  Of a user the statistics, name, session secret and
deleted mark are kept; the fields a settings update sets are not, since what matters
about it is everything it writes back.  Win rates are integers in tenths of a percent.
The name of a deleted account (`deleted_` and a piece of its random id) is taken to be
nobody else's.

### Challenges, Hub and RoomLife

Expired challenges stay in `challenges` with that status instead of leaving the map.
Age matters only as being past the minute.

`conn[k].stage` is where the goroutine of connection `k` is: `starting` and `reading`
are `ServeWS` and `readPump`; `challenging` is between the look at the target and
`Create`; `creating` and `attaching` the two locked sections of `createRoom`;
`unregistering`, `closing` and `leaving` the deferred function of
`readPump`, with `removeClient` split where it lets go of the lock.  Ended connections
stay in the model, ended rooms stay in `rooms` as they do in the program
(`drainRoomEvents` ranges over a channel nobody closes).  A connection that was closed or
replaced still dispatches what it has read.

The hub's rooms are records of `RoomLife`: who has to get ready, the status, and the
actions in the channel.  `GameRoom` is shown to implement the same module, so that what
`Hub` assumes of a room is what a room does.

### Delivery

The direction from the server to the pages.  `ListPresent`, `SendList`, `SendOne` and
`EndCast` are `broadcastPresence` with the two sections in which it holds the lock;
`TakeEvent`, `LookUp` and `Send` are `drainRoomEvents` and `sendTo`, with the lock let go
between the last two; `Connect`, `Unregister` and `CloseSend` are `ServeWS` and
`removeClient`.  `Connect`, `Flush`, `Reload` and `Deliver` are the browser: the socket
that opens again after two seconds with what was queued, a page that is loaded anew,
and the handlers that show a message.  The room is its phase and round; each of its
actions emits what `room.go` emits.  `Scored` has the data race on the scores map, which
events share with the state (`ScoresRace`): the runtime may end the process, as a send on
a closed channel does (`died`).  `TellState` is a broadcast of the room's state that the
opponent causes.

`broadcastPresence` skips deleted accounts (`Listed`), and `DeleteAccount` closes no socket
and tells nobody.  The accounts are looked up one by one between the two locked sections:
one deleted meanwhile may or may not be on the list (`SendList`).  That a stale copy of the
user, written back, undoes the deletion is left to `Accounts`.

A behaviour is either of a lobby with its users or of one player's page in a room: the
lobby's page handles presence only, the room's page room events only.  `behind` is a
history variable: the page has lost something since it was last up to date.

A write pump that returns on an error (`hub.go:180-188`) leaves the connection open and
registered with nobody writing to it.  It has no action of its own: such a connection is
one from which nothing is delivered any more, which the safety properties allow.  That
the page is not told, and is right about nothing until its socket closes, follows, and is
among the disagreements below.

### Connection

Time passes in heartbeats of 15 s.  `late` remembers whether a heartbeat ever found a
ping unanswered or a frame unread, that is whether the peer was anything but attentive.
The byte layout of frames is left out.

### RateLimiter, Leaderboard, VsComputer

`RateLimiter`: time is a number of ticks; `Accept` and `Refuse` are the two ways through
`Allow`, which holds the lock throughout.  `allowed` remembers what was let through.

`Leaderboard`: the sort is by the comparison of the code, in which no two accounts are
equal: an account comes after those `Above` it (`Place`).  `Page` is `ListLeaderboard`'s
slice of that ranking as it is then; `LoadMore`
and `Show` are the two halves of `loadMore`, before and after its `await`, so that several
calls may wait.  Accounts win, register, lose a win to an outdated copy, and are deleted.

`VsComputer`: a step is a timer of the page or a click, with the fetches it waits for.
That these may fail, which leaves the page where it is, is left out.

## 3. Runs

`delivery` takes two to three minutes, every other run about one or less.  Deadlock
checking is off everywhere, because everything here may stop: an actor returns, or a bound
on messages, connections or ids is used up.

| Run | Shows |
|---|---|
| `room_play` | A ranked match of two rounds and sudden death: types, alternating roles, scores that are the history, no tie, one report, a timeout always ahead, attempts accounted, walkovers, left-over ticks that come of late answers only, refinement of `MatchScore` and of `RoomLife`; a started match ends |
| `room_objects` | A casual match with two objects each, ids outside the pool, two queued actions: fair rounds, no event with objects a player may not see; the invariant of the proofs, which includes that a casual match is never reported |
| `accounts` | Two users, two goroutines, a ranked result, updates, logouts, deletions, failing saves, restarts: consistent records, no invented results, durability, no account created with a name in use |
| `challenges` | One outcome each, expiries announced in order, none open for ever |
| `hub` | Three connections of three users, one room: the registry is the open connections, rooms are as agreed, and both players' connections get their room, whatever connects or ends while it is being made |
| `delivery` | Broadcasts never reach a closed channel, presence lists settle on who is connected and not deleted, a room's page follows the room, or knows of a loss, and never goes back |
| `connection_messages` | Two messages of up to three fragments with control frames: whole, in order, none lost; a peer that is gone is noticed |
| `standalone` | The rate limiter keeps its limit in every window and refuses nobody else; a practice game ends on a winner and a guess can always be made; the leaderboard's pages fit together |

Runs that end in a violation show where the program does not do what a document or
comment of the repository says:

| Run | What the counterexample shows |
|---|---|
| `room_stale_tick` | The steal timer expires while `submit_steal` is being handled; its tick ends the guessing phase at once, as an AFK forfeit (`room.go:143`) |
| `accounts_lost_result` | A settings update writes statistics from before a match back (`store.go:179`, `routes.go:107`) |
| `hub_reconnect` | The replaced connection sends `leave_room` for a player who is back (`hub.go:200`).  Going from the lobby to the room page is such a reconnection; the smoke test, which keeps one socket throughout, never makes it |
| `connection_heartbeat` | A browser that answers every ping is timed out for having sent no message (`websocket.go:157`) |

Some properties hold only with a condition that names what is not so.  Reading
the code for the models showed these disagreements, which no run pins down by itself:

* a guesser who has guessed wrong and then runs out of time is reported with
  `afkForfeit`, which the comment at `room.go:377` reserves to one who never acted;
* a settings update under way during a logout writes the old session secret back
  (`routes.go:107` against `session.go:22-24`), and one under way during a deletion
  writes the old name back, which may be taken by then (`store.go:128`);
* a tick that a late steal or guess has left over is taken as the next phase's timeout;
  if that phase's timer runs out while the handler draws objects under the store's lock,
  a tick waits when memorizing begins, and cuts it short (`room.go:127-145`, `231-248`; `Expire`);
* a deleted account stays connected, may play on, and stays on the others' lists until
  the next broadcast (`routes.go:115-130` tells nobody); from then on it is connected but
  on no list (`hub.go:127`);
* a write pump that fails leaves its connection registered with nobody writing to it
  (`hub.go:180-188`); it counts as present, and its messages fill the buffer and are
  dropped, until the read deadline passes, which the user's own messages put off;
* `ServeWS` resyncs into any room of the user, a finished one included (`hub.go:72`
  against the comment at `hub.go:70`), and waits for ever if that room's channel is
  full (`hub.go:83`; `StartReading` in `Hub` has that guard);
* presence is broadcast on every connect and disconnect (`progress.md:54`), but two
  broadcasts that overlap may arrive in the wrong order, and the older list stays
  (`hub.go:121-162`; hence `settled` in `PresenceSettles`);
* `sendTo` lets go of the lock before it sends (`hub.go:164`): the channel may have been
  closed, and the panic ends the process (`Send`);
* the scores map of the state is put in events as it is (`room.go:413`) and encoded by
  another goroutine, though only the actor is to touch the state (`room.go:35-36`);
* `emit` drops events when 64 are waiting (`room.go:86-88`) although the hub may only be
  slow, and nothing asks for a resync then (`behind`);
* a page that is loaded while a result is shown stays empty until the next phase, since
  the answer to its resync is an update it has no use for (`room.go:559`);
* the "Ready Up" button is always disabled: `room.html:41` passes `disabled: false` to
  `el()`, which sets the attribute all the same (`common.js:37`);
* two tabs of one user replace each other every two seconds (`wsclient.js:22`), and a
  message sent while the socket is closing, before `onclose`, is lost
  (`wsclient.js:44`);
* `/api/register` is not rate-limited, as `progress.md:105` says it is: only `Recover`
  calls `Allow` (`handlers.go:108`);
* a deletion, or a win lost as in `accounts_lost_result`, makes the leaderboard skip a row
  between two pages, and a double click shows rows twice (hence the conditions of
  `NobodyIsSkipped` and `ShowsTheRanking`); a negative cursor makes `ListLeaderboard`
  panic (`store.go:157`), but the page sends none;
* in the practice game the computer steals from its own objects, which are never among
  the cards one guesses from (`ai.js:89`), so that no guess is right; `CanGoOnGuessing`,
  about attempts and cards, holds all the same; and objects are fetched each round, not once
  (`ai.js:35` against `ai.js:1-2`).

### Bounds

* *GameRoom.*  Two rounds are the fewest with a swap of roles, a level score before the
  last round and a sudden death after it; one object per player makes every guess right
  or, with the opponent's object, wrong, and two attempts give a wrong guess that does
  not end the round.  A channel of one or two actions is full often, while sixteen
  would differ only in how long it takes.  `room_objects` adds what needs two objects.
* *Accounts.*  Two users and two goroutines are what a stale write needs.
  `Thresholds` is `<<0, 1>>` so that one win changes the rank.
* *Hub.*  Three users and three connections let a user reconnect while the opponent
  stays, or a third one look on; one challenge makes one room; a channel of one action
  fills at once, where the code's takes sixteen page loads.
* *Delivery.*  Two connections: an old one being taken down beside its successor, or two
  users.  A send buffer of one message and two waiting events are full often; two rounds
  let a page go back to an earlier one.  `MayLose` keeps the last connection of a room's
  page, since a page that is never connected again shows nothing.  One of the two users
  may delete the account (`Deleters`): the other is the one left with a list that may be
  wrong.  A `room_state` by itself is sent while no other event waits (`TellCap`); behind
  others it would be dropped or come late, as the events of the phases do.
* *Connection.*  The deadline is the code's three heartbeats.
* *RateLimiter.*  Two addresses, a window of three ticks, two attempts, and five ticks of
  time: attempts leave the window one by one.
* *Leaderboard.*  Three accounts and pages of one row give three pages, two calls may
  wait, one win passes another account; losses happen once (`MaySink`).
* *VsComputer.*  Four rounds may end level, as the code's ten may.  Five objects, two a
  side, so that a draw may repeat or change.

### Fairness

`room_play`: the runtime fires running timers, and the actor's goroutine keeps
selecting; select picks at random among ready arms, so a waiting tick is taken some
time.  The players owe nothing.  `challenges`: time passes and the sweeping goroutine
runs; nobody has to answer.  `connection_messages`: time passes, deadlines are kept, what
has arrived is read.  The other runs check safety and assume no fairness.

## 4. Proofs

Each theorem holds for every value of the constants that satisfies the assumptions named
in its module, which TLC evaluates in the runs.  `PROJECT.json` lists the theorems with
the property each one states.  Hardly any of them is inductive by itself; the
inductive invariants are these.

* **`GameRoomProofs`** (`TypeCorrect`, `NeverATie`, `NeverStuck`, `RoundsAreFair`,
  `OneReport`, `LeavingLoses`, `EndsForGood`, `Refinement`).  That no match ends level
  needs to know that sudden death is the one round after the last, that it is entered
  level, and that its point is given exactly when its result is shown
  (`SuddenDeathIsLast`); that in turn needs the status and the phase to move together
  (`Lifecycle`) and the roles to be the two players (`Roles`).  One report needs that
  nothing is reported before the end.  `IInv` is the conjunction; TLC checks it in
  `room_objects`.  The lemmas follow the code: what a draw returns, what each helper
  establishes, then one step for each action.  The refinement maps a room's phase to "the
  point of this round has been given"; each handler is a step of `MatchScore` or a stutter.
* **`RoundProofs`** (`TurnsAlternate`, `EveryPointOnce`, `AttemptsAddUp`,
  `OnlyTheStealerLooks`, `LeftOverTicksComeOfLateAnswers`).  `StepKinds` sorts the
  handlers into five kinds of step by what they do to the books; with `IInv`, the
  conjunction `Books` of `RolesAlternate`, `ScoreIsHistory` and "no history before the
  match" is then inductive.  For the tick: a step that
  leaves a tick of an earlier phase beside a running timer began either with the timer
  run out and an answer that ends the phase (`LateAnswer`), or with such a tick already
  (`LeftByLateAnswers`, one case for each handler).  The same module
  has `RoomLivesAsTheHubExpects`: the mapping keeps the status, the players who are ready
  and the channel, of which `RoomLife` sees only type and sender.  The one fact beyond
  `IInv`: a waiting room still waits for somebody.
  Three more theorems are about how a match goes on.  `NobodyHoldsItUp`: `TimeLeft` counts
  two steps of the clock for each phase that is left, the timer fires and its tick is
  taken; no step of anybody raises it while the match runs, and each step of the clock
  lowers it (`ClockKinds` sorts the steps).  It uses `FairRound`, since a room with
  nothing to steal would take its tick and stay where it is.  `RoomMovesAsDelivered`: phases come in
  one order, which are the moves that `Delivery` gives its room.  `BothHearOfEveryPhase`:
  what such a move tells each player last is the new phase, as `Delivery` has it too.
* **`ChallengesProofs`** (`TypeCorrect`, `OneOutcome`, `AnnouncedIsExpired`,
  `EveryExpiryIsToldOnce`).  An action changes the status of a pending challenge only; what
  the sweep has put aside to notify is expired, and stays so.  Hence nothing is put aside
  a second time, and since a sweep leaves nothing overdue, nothing is left out.
* **`HubProofs`** (`TypeCorrect`, `OneConnectionEach`, `RoomsComeFromChallenges`,
  `NobodyIsLeftOutside`), for any
  number of users, connections, challenges and rooms.  `Presence`: connections are taken
  apart in one order, so that the registered one of each user is the only open one.
  `Agreement`: a challenge has a room only once it is accepted, no two have the same one,
  and the channel of a room that has not been made is empty.  `NobodyIsLeftOutside` rests
  on both: the goroutine that has made a room is about to attach it (`Awaited`), and a
  connection registered from then on finds the room in the map.
  The composition: every step of the hub is one of `Challenges` or leaves it alone
  (`ManagerKeepsItsSpec`), so that the theorems of `ChallengesProofs` hold of the manager
  inside the hub (`ChallengesInTheHub`, by instantiating that module of proofs); and each
  room is made once, in the initial state of `RoomLife`, and then takes only steps of
  `RoomLife` (`RoomsLive`), which with `RoomLivesAsTheHubExpects` joins `Hub` to `GameRoom`.
  It needs that an accepted challenge whose room is not made yet is in the hands of one
  goroutine (`RoomsMadeOnce`, `NothingBefore`).  `ConnectionsEndOnce`: after `removeClient`
  a connection keeps its user and room, is never registered again, and goes through the
  rest of its end once (`AcceptedIsARoom`: a goroutine that makes a room has one to make).
* **`DeliveryProofs`** (`SpecBroadcastsAreSafe`, `SpecPresenceSettles`,
  `SpecPageFollowsRoom`, `SpecPageNeverGoesBack`), for any set of users and of
  connections, whoever may delete an account, any buffers, any number of rounds and any
  `TellCap`.  `Base` says who may be sent to: the
  connections left in a broadcast are registered while its lock is held, and who is
  registered has a channel that is open.  *Presence:* the last message sent to a page is
  the list it will have (`Latest`).  `Aware` says of a broadcast that runs by itself, and
  that no connection was made or taken down and no account deleted during, that it tells
  who is present and has an account (`Listed`), and
  that only those left in it do not know; it is the last one that leaves everybody
  knowing.  *The room:* what is on its way to the player's page is one queue (`Queue`),
  the connection's channel, then what the drain has in its hands, then the room's
  buffer.  Every step then keeps the queue or loses some of it (`Keeps`), takes its first
  element to the page (`Arrives`) or adds what fits at its end (`Adds`).  `Ordered`,
  the queue lies between the page and the room in the order of rounds and phases,
  survives all losses and gives `PageNeverGoesBack`; an event the drain has already
  encoded counts only if it is for the connection the page has (`InHand`).  `UpToDate`, the last
  effective element of the queue is what the room is in and the page knows the
  room by then, holds until something is lost, and gives `PageFollowsRoom` when the queue
  is empty.
* **`AccountsProofs`** (`TypeCorrect`, `RecordsAlwaysAgree`, `SavedSurvives`,
  `NamesAreFree`, `NoResultInvented`, `NothingSavedIsLost`, `ProfilesAddUp`).  `Held`: whatever a goroutine holds is a record that
  agrees with itself, and every account of the file is in memory.  That a rank is one of
  the table's for any number of wins (`RankIsInTheTable`) is that a set of places has a
  last one (`LastPlace`), which comes from the order of the naturals being well-founded.  `Backed`: the log bears
  out the wins and losses of every copy held and of every record in memory, and the
  file's log those of the file.  The argument is about records, not the order of writes.
  `NothingSavedIsLost` is about crashes: the file's log begins memory's (`LogFollows`), so
  a restart takes back only the end of it, and what the file has it keeps.
  `ProfilesAddUp` adds the arithmetic: since played is wins and losses, the rounded
  quotient of `WinRate` stays within 0 and 1000 (`QuotientAtMost`, `QuotientAtLeast`).
* **`ConnectionProofs`** (`WholeMessages`, `NoneIsLost`, `GoneRunsOut`).  A cursor along the wire: the
  part sent last when the frames before a place had been sent.  It starts at what the
  server has in its buffer and ends at what the browser sent last; a data frame moves
  it by one part, a control frame not at all.  `GoneRunsOut`: without a browser the wire
  only gets shorter, and between two frames at most `Deadline` heartbeats pass.
* **`StandaloneProofs`**, one invariant for each of the three parts; the run puts them
  side by side, and `PartsKeepTheirPromises` is that each keeps its specification there.
  *The limiter* (`WindowBound`, `RefusalsAreDeserved`, `TypeCorrect`) remembers every attempt
  it allowed that is younger than the window (`Remembers`), so that what it counts is the
  window that ends now; a window that ended earlier was counted then.  *Practice*
  (`PracticeEndsOnAWinner`, `PracticeCanGoOn`): the cards marked wrong are those the attempts
  went on (`GuessesCounted`), and there are no fewer cards than attempts (`CardsDealt`).
  `PracticeScoresLikeAMatch`: the browser's game refines `MatchScore`, as the room does; the
  one fact beyond the invariant ties the turn and a level score to the round
  (`TurnsAndTies`).
  *The leaderboard* (`NobodySkipped`, `RankingIsShown`): an account's place is the number
  of those before it, so that places are a bijection with the ranking
  (`RankingIsByPlace`), and nobody's place shrinks who stays as they are while others win
  or register (`PlacesGrow`).  `NoneMissing`: whoever has a place before a cursor, the
  page's or that of a call under way, is shown or in its answer.  `PiecesFit`: while
  nothing changes and one call waits at a time, the answer begins where the rows end.

Model-checked only: liveness under fairness (`MatchEnds`, `EventuallySettled`,
`GoneIsNoticed`), for which TLAPS has no rules.  What the liveness properties need of safety is proved: `NobodyHoldsItUp` with
`NeverStuck`, `EveryExpiryIsToldOnce`, and `GoneRunsOut` say that every fair step brings the
end nearer and that no other step puts it off; that fair steps are taken is what remains for
TLC.  Every other property of the passing runs is a theorem.  The inductive
invariants, and the theorems that state no property of a run, were checked by TLC, on the
instances of the runs or ones like them, before they were proved; `IInv` is one of the runs' properties.  No module uses a `RECURSIVE` operator.

## 5. Not modelled, and the plan

What would come next, in this order:

1. An abstract specification of presence that `Hub` and `Delivery` both implement; and an
   instance of `Delivery` with a coarser `GameRoom` in place of its phases, where by now two
   theorems about `GameRoom` say that its moves and its last events are the ones assumed.
2. Several rooms of one user (`hub.go:72`), with a finished one beside the running one,
   and that every connection whose room still runs gets through to its end: a liveness
   property of `Hub`, which needs an instance small enough without symmetry.

Left out for good: hashing (pure), route wiring and templates (no state), the catalog
data and SQL (generated or unused), the smoke test (a driver), the layout of pages, the
byte layout of frames, the format checks of names and secrets.
