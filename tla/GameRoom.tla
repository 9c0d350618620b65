------------------------------ MODULE GameRoom ------------------------------
(***************************************************************************)
(* The room actor of internal/game/room.go: one goroutine owns the state   *)
(* of a match between two players and takes, one at a time, the actions    *)
(* that sockets put on its bounded channel and the expiries of its timer.  *)
(*                                                                         *)
(* The timer is the one of the Go 1.22 toolchain the program is built with *)
(* (go.mod, Dockerfile): expiring puts a tick in a one-place channel, and  *)
(* Stop and Reset leave a tick that is already there where it is.          *)
(*                                                                         *)
(* Abstractions: the object list of a player is a set, the category only   *)
(* selects the pool objects are drawn from, deadlines are the timer's, and *)
(* an event carries the fields of its payload that a property speaks of.   *)
(*                                                                         *)
(* A definition headed "Mutant" is no part of the specification: it is a   *)
(* plausible mistake in the definition it names, and a property has to     *)
(* catch it when it takes that definition's place.                         *)
(***************************************************************************)
EXTENDS Integers, Sequences, FiniteSets

CONSTANTS PlayerA, PlayerB,  \* the two participants
          NoPlayer,          \* "nobody", where the code has no player yet
          NoObject,          \* StolenObjectID == nil, or no object in a message
          Pool,              \* the objects of the category drawn
          ForeignIDs,        \* ids a client may send that are not in the pool
          ObjectCount,       \* cfg.Objects
          GuessAttempts,     \* cfg.GuessAttempts
          TotalRounds,
          Ranked,            \* whether the room reports its result
          ActionsCap         \* make(chan Action, 16)

ASSUME PlayersAssumption == PlayerA # PlayerB /\ NoPlayer \notin {PlayerA, PlayerB}
ASSUME ObjectsAssumption == NoObject \notin Pool
ASSUME NumbersAssumption == /\ ObjectCount \in Nat \ {0}
                            /\ GuessAttempts \in Nat \ {0}
                            /\ TotalRounds \in Nat \ {0}
                            /\ ActionsCap \in Nat \ {0}
                            /\ Ranked \in BOOLEAN
(* The seeded catalog has 50 objects per category, two draws of at most 25. *)
ASSUME PoolAssumption == IsFiniteSet(Pool) /\ Cardinality(Pool) >= 2 * ObjectCount

VARIABLES
  status,           \* r.Status
  ready,            \* the players whose ReadyA / ReadyB is set
  phase,            \* r.State.Phase, "none" while r.State == nil
  round, stealer, guesser, scores, suddenDeath, roundHistory,
  objects,          \* r.State.Objects
  stolen,           \* r.State.StolenObjectID
  guessesRemaining, guessedWrong,
  actions,          \* the buffer of r.Actions
  armed,            \* r.timer is running
  tick,             \* a value sits in r.timer.C
  out,              \* the events the latest handler emitted, in order
  reported          \* the rows given to ReportMatchResult

roundVars == <<round, stealer, guesser, suddenDeath, objects>>
guessVars == <<stolen, guessesRemaining, guessedWrong>>
vars == <<status, ready, phase, roundVars, scores, roundHistory, guessVars,
          actions, armed, tick, out, reported>>

Players == {PlayerA, PlayerB}
ObjectIDs == Pool \cup ForeignIDs
Opponent(p) == IF p = PlayerA THEN PlayerB ELSE PlayerA

(* Mutant of Running: Run returns only when the room is abandoned.         *)
OutlivesCompletion == status # "abandoned"

Running == status \notin {"completed", "abandoned"}

-----------------------------------------------------------------------------
(* Types.                                                                  *)

Phases == {"none", "memorization", "stealing", "guessing", "round_result", "completed"}
ActionTypes == {"set_ready", "leave_room", "submit_steal", "submit_guess", "resync"}
(* Only a steal and a guess name an object.                                *)
Payloads(t) == IF t \in {"submit_steal", "submit_guess"} THEN ObjectIDs ELSE {NoObject}
Action == UNION {[from : Players, type : {t}, object : Payloads(t)] : t \in ActionTypes}
RoundResult == [roundNumber : Nat, stealer : Players, guesser : Players,
                stolen : Pool, correct : BOOLEAN, pointTo : Players]
MatchRow == [winner : Players, loser : Players, score : [Players -> Nat]]

-----------------------------------------------------------------------------
(* Events.  to is the set of players an event is delivered to, shown the   *)
(* objects its payload names, favours the player given a point or the win. *)

Event(type, to) ==
  [type |-> type, to |-> to, phase |-> "none", shown |-> {}, afk |-> FALSE, favours |-> NoPlayer]
RoomState == Event("room_state", Players)
Refusal(p) == Event("error", {p})
PhaseUpdate(p, ph, shown) == [Event("phase_update", {p}) EXCEPT !.phase = ph, !.shown = shown]
-----------------------------------------------------------------------------
(* Rounds.                                                                 *)

(* Mutant of Draws: exclude is ignored.                                    *)
DrawsFromAll(exclude) == {S \in SUBSET Pool : Cardinality(S) = ObjectCount}

(* What RandomObjects may return: any ObjectCount objects outside exclude, *)
(* and the empty list (err) when fewer than that are left.                 *)
Draws(exclude) ==
  LET available == Pool \ exclude
  IN  IF Cardinality(available) < ObjectCount
      THEN {{}}
      ELSE {S \in SUBSET available : Cardinality(S) = ObjectCount}

(* Two disjoint draws, the first one for the stealer.                      *)
DrawRoundObjects(st) ==
  \E first \in Draws({}) : \E second \in Draws(first) :
     objects' = [p \in Players |-> IF p = st THEN first ELSE second]

(* Mutant of ArmTimer: the Reset is missing.                               *)
StopOnly == armed' = FALSE

(* armTimer: Stop, then Reset; neither of them empties the tick channel.   *)
ArmTimer == armed' = TRUE

MemorizationUpdates == <<PhaseUpdate(PlayerA, "memorization", objects'[PlayerA]),
                         PhaseUpdate(PlayerB, "memorization", objects'[PlayerB])>>

(* Draw and memorize: the common tail of startMatch and advanceRound.      *)
BeginMemorization(st, announcement) ==
  /\ stealer' = st
  /\ guesser' = Opponent(st)
  /\ DrawRoundObjects(st)
  /\ phase' = "memorization"
  /\ stolen' = NoObject
  /\ ArmTimer
  /\ out' = announcement \o MemorizationUpdates

StartMatch(announcement) ==
  /\ status' = "in_progress"
  /\ round' = 1
  /\ \E first \in Players :
        BeginMemorization(first, Append(announcement, Event("match_starting", Players)))
  /\ UNCHANGED <<scores, suddenDeath, roundHistory, guessesRemaining, guessedWrong, reported>>

BeginStealing ==
  /\ phase' = "stealing"
  /\ ArmTimer
  /\ out' = <<PhaseUpdate(stealer, "stealing", objects[guesser]),
              PhaseUpdate(guesser, "stealing", {})>>
  /\ UNCHANGED <<status, roundVars, scores, roundHistory, guessVars, reported>>

(* Mutant of ClearWrongGuesses: the list of an earlier round is kept.      *)
KeepWrongGuesses == UNCHANGED guessedWrong

ClearWrongGuesses == guessedWrong' = [guessedWrong EXCEPT ![guesser] = <<>>]

(* Mutant of FreshAttempts: attempts left over from an earlier round count.*)
AttemptsCarriedOver == guessesRemaining' = [guessesRemaining EXCEPT ![guesser] = @ + GuessAttempts]

FreshAttempts == guessesRemaining' = [guessesRemaining EXCEPT ![guesser] = GuessAttempts]

(* applySteal and beginGuessing.                                           *)
ApplySteal(o) ==
  /\ stolen' = o
  /\ FreshAttempts
  /\ ClearWrongGuesses
  /\ phase' = "guessing"
  /\ ArmTimer
  /\ out' = <<PhaseUpdate(guesser, "guessing", objects[guesser]),
              PhaseUpdate(stealer, "guessing", {})>>
  /\ UNCHANGED <<status, roundVars, scores, roundHistory, reported>>

(* Mutant of WithPoint: the point is the stealer's, however the guess went.*)
PointToStealer(p) == [scores EXCEPT ![stealer] = @ + 1]

WithPoint(p) == [scores EXCEPT ![p] = @ + 1]

(* The round ends; afk is the afkForfeit flag of the round_result event.   *)
ResolveGuess(correct, afk) ==
  LET pointTo == IF correct THEN guesser ELSE stealer
  IN  /\ scores' = WithPoint(pointTo)
      /\ roundHistory' = Append(roundHistory,
            [roundNumber |-> round, stealer |-> stealer, guesser |-> guesser,
             stolen |-> stolen, correct |-> correct, pointTo |-> pointTo])
      /\ phase' = "round_result"
      /\ ArmTimer
      /\ out' = <<[Event("round_result", Players) EXCEPT
                      !.shown = {stolen}, !.afk = afk, !.favours = pointTo]>>
      /\ UNCHANGED <<status, roundVars, stolen, reported>>

MatchWon(winner, final) == [winner |-> winner, loser |-> Opponent(winner), score |-> final]

(* Mutant of Report: casual matches are reported as well.                  *)
ReportAll(winner, final) == reported' = Append(reported, MatchWon(winner, final))

(* A casual match is not reported.                                         *)
Report(winner, final) ==
  reported' = IF Ranked THEN Append(reported, MatchWon(winner, final)) ELSE reported

(* finishMatch.                                                            *)
FinishMatch(final) ==
  LET winner == IF final[PlayerB] > final[PlayerA] THEN PlayerB ELSE PlayerA
  IN  /\ phase' = "completed"
      /\ status' = "completed"
      /\ armed' = FALSE
      /\ scores' = final
      /\ Report(winner, final)
      /\ out' = <<[Event("match_complete", Players) EXCEPT !.favours = winner]>>
      /\ UNCHANGED <<roundVars, roundHistory, guessVars>>

(* Mutant of NextRound: the roles are not swapped.                         *)
SameRoles(announcement) ==
  /\ round' = round + 1
  /\ BeginMemorization(stealer, announcement)
  /\ UNCHANGED <<status, scores, roundHistory, guessesRemaining, guessedWrong, reported>>

NextRound(announcement) ==
  /\ round' = round + 1
  /\ BeginMemorization(guesser, announcement)
  /\ UNCHANGED <<status, scores, roundHistory, guessesRemaining, guessedWrong, reported>>

(* Mutant of AdvanceRound: a level match ends without sudden death.        *)
NoSuddenDeath ==
  \/ round < TotalRounds /\ NextRound(<<>>) /\ UNCHANGED suddenDeath
  \/ round >= TotalRounds /\ FinishMatch(scores)

(* Mutant of AdvanceRound: a round too many before the scores are compared.*)
OneRoundMore ==
  \/ ~suddenDeath /\ round <= TotalRounds /\ NextRound(<<>>) /\ UNCHANGED suddenDeath
  \/ /\ round > TotalRounds /\ ~suddenDeath /\ scores[PlayerA] = scores[PlayerB]
     /\ suddenDeath' = TRUE
     /\ NextRound(<<>>)
  \/ round > TotalRounds /\ scores[PlayerA] # scores[PlayerB] /\ FinishMatch(scores)

AdvanceRound ==
  \/ /\ ~suddenDeath
     /\ round < TotalRounds
     /\ NextRound(<<>>)
     /\ UNCHANGED suddenDeath
  \/ /\ ~suddenDeath
     /\ round >= TotalRounds
     /\ scores[PlayerA] = scores[PlayerB]
     /\ suddenDeath' = TRUE
     /\ NextRound(<<[Event("phase_update", Players) EXCEPT !.phase = "sudden_death"]>>)
  \/ /\ suddenDeath \/ (round >= TotalRounds /\ scores[PlayerA] # scores[PlayerB])
     /\ FinishMatch(scores)

-----------------------------------------------------------------------------
(* The two arms of Run's select.                                           *)

(* A received action of type t; a tick may stay behind in the timer.  (When*)
(* the timer runs out during the handler it is as if it had before.)       *)
Receive(t) ==
  /\ Running
  /\ actions # <<>>
  /\ Head(actions).type = t
  /\ actions' = Tail(actions)
  /\ UNCHANGED tick

From == Head(actions).from
Picked == Head(actions).object

HandleSetReady ==
  /\ Receive("set_ready")
  /\ ready' = ready \cup {From}
  /\ \/ /\ ready' = Players
        /\ status = "waiting"
        /\ StartMatch(<<RoomState>>)
     \/ /\ ready' # Players \/ status # "waiting"
        /\ out' = <<RoomState>>
        /\ UNCHANGED <<status, phase, roundVars, scores, roundHistory, guessVars, armed, reported>>

(* Mutant of ShownOnResync: everybody is shown the objects of the round.   *)
ShownToBoth(p) ==
  IF phase \in {"memorization", "stealing", "guessing"} THEN objects[guesser] ELSE {}

(* sendCurrentPhase: the stealer sees the opponent's objects while picking *)
(* one, everybody their own while memorizing, the guesser while guessing.  *)
ShownOnResync(p) ==
  CASE phase = "memorization"               -> objects[p]
    [] phase = "stealing" /\ p = stealer    -> objects[guesser]
    [] phase = "guessing" /\ p = guesser    -> objects[p]
    [] OTHER                                -> {}

HandleResync ==
  /\ Receive("resync")
  /\ out' = IF phase = "none" THEN <<RoomState>>
            ELSE <<RoomState, PhaseUpdate(From, phase, ShownOnResync(From))>>
  /\ UNCHANGED <<status, ready, phase, roundVars, scores, roundHistory, guessVars, armed, reported>>

StealAccepted == phase = "stealing" /\ From = stealer /\ Picked \in objects[guesser]

HandleSteal ==
  /\ Receive("submit_steal")
  /\ \/ /\ StealAccepted
        /\ ApplySteal(Picked)
     \/ /\ ~StealAccepted
        /\ out' = <<Refusal(From)>>
        /\ UNCHANGED <<status, phase, roundVars, scores, roundHistory, guessVars, armed, reported>>
  /\ UNCHANGED ready

(* Mutant of WrongGuess: each guess is given its time.                     *)
WrongGuessRearms ==
  /\ guessesRemaining' = [guessesRemaining EXCEPT ![guesser] = @ - 1]
  /\ guessedWrong' = [guessedWrong EXCEPT ![guesser] = Append(@, Picked)]
  /\ IF guessesRemaining'[guesser] <= 0
     THEN ResolveGuess(FALSE, FALSE)
     ELSE /\ ArmTimer
          /\ out' = <<PhaseUpdate(guesser, "guessing", objects[guesser])>>
          /\ UNCHANGED <<status, phase, roundVars, scores, roundHistory, stolen, reported>>

(* A wrong guess costs an attempt whatever it names; it does not re-arm    *)
(* the timer unless it was the last one.                                   *)
WrongGuess ==
  /\ guessesRemaining' = [guessesRemaining EXCEPT ![guesser] = @ - 1]
  /\ guessedWrong' = [guessedWrong EXCEPT ![guesser] = Append(@, Picked)]
  /\ \/ /\ guessesRemaining'[guesser] <= 0
        /\ ResolveGuess(FALSE, FALSE)
     \/ /\ guessesRemaining'[guesser] > 0
        /\ out' = <<PhaseUpdate(guesser, "guessing", objects[guesser])>>
        /\ UNCHANGED <<status, phase, roundVars, scores, roundHistory, stolen, armed, reported>>

GuessAccepted == phase = "guessing" /\ From = guesser /\ guessesRemaining[From] > 0

HandleGuess ==
  /\ Receive("submit_guess")
  /\ \/ /\ GuessAccepted
        /\ Picked = stolen
        /\ ResolveGuess(TRUE, FALSE)
        /\ UNCHANGED <<guessesRemaining, guessedWrong>>
     \/ GuessAccepted /\ Picked # stolen /\ WrongGuess
     \/ /\ ~GuessAccepted
        /\ out' = <<Refusal(From)>>
        /\ UNCHANGED <<status, phase, roundVars, scores, roundHistory, guessVars, armed, reported>>
  /\ UNCHANGED ready

(* Mutant of WalkoverScores: a level score is taken for a lead.            *)
WalkoverLevel(leaver) ==
  LET winner == Opponent(leaver)
  IN  IF scores[winner] < scores[leaver]
      THEN [scores EXCEPT ![winner] = scores[leaver] + 1]
      ELSE scores

(* The score a walkover ends on: the one who stays is put ahead.           *)
WalkoverScores(leaver) ==
  LET winner == Opponent(leaver)
  IN  IF scores[winner] <= scores[leaver]
      THEN [scores EXCEPT ![winner] = scores[leaver] + 1]
      ELSE scores

HandleLeave ==
  /\ Receive("leave_room")
  /\ \/ /\ status # "in_progress"
        /\ status' = "abandoned"
        /\ armed' = FALSE
        /\ out' = <<Refusal(Opponent(From))>>
        /\ UNCHANGED <<phase, roundVars, scores, roundHistory, guessVars, reported>>
     \/ /\ status = "in_progress"
        /\ FinishMatch(WalkoverScores(From))
  /\ UNCHANGED ready

(* <-r.timer.C.  handleTimeout does nothing while r.State is nil, and no   *)
(* phase but these four is ever current when the timer has been armed.     *)
(* When the tick was left over the phase's own timer still runs, and may   *)
(* run out before the handler arms it anew (it draws objects from the store*)
(* first): then there is a tick again.                                     *)
Expire(ph) ==
  /\ Running
  /\ tick
  /\ phase = ph
  /\ tick' \in {FALSE, armed}
  /\ UNCHANGED <<ready, actions>>

MemorizationOver == Expire("memorization") /\ BeginStealing

(* An idle stealer: the room steals for them, from a non-empty list.       *)
StealTimeout ==
  /\ Expire("stealing")
  /\ IF objects[guesser] = {}
     THEN /\ armed' = (armed /\ ~tick')
          /\ UNCHANGED <<status, phase, roundVars, scores, roundHistory, guessVars, out, reported>>
     ELSE \E pick \in objects[guesser] : ApplySteal(pick)

GuessTimeout ==
  /\ Expire("guessing")
  /\ ResolveGuess(FALSE, TRUE)
  /\ UNCHANGED <<guessesRemaining, guessedWrong>>

ResultShown == Expire("round_result") /\ AdvanceRound

HandleTimeout == MemorizationOver \/ StealTimeout \/ GuessTimeout \/ ResultShown
HandleAction == HandleSetReady \/ HandleResync \/ HandleSteal \/ HandleGuess \/ HandleLeave

-----------------------------------------------------------------------------
(* The world around the actor.                                             *)

(* The Go runtime: an expired timer puts a tick in its channel unless one  *)
(* is there already.                                                       *)
TimerFires ==
  /\ armed
  /\ armed' = FALSE
  /\ tick' = TRUE
  /\ UNCHANGED <<status, ready, phase, roundVars, scores, roundHistory, guessVars,
                 actions, out, reported>>

(* The hub puts a participant's message on the channel; forwardToRoom      *)
(* drops it when the buffer is full, which leaves everything as it is.     *)
Submit(p, t, o) ==
  /\ Len(actions) < ActionsCap
  /\ actions' = Append(actions, [from |-> p, type |-> t, object |-> o])
  /\ UNCHANGED <<status, ready, phase, roundVars, scores, roundHistory, guessVars,
                 armed, tick, out, reported>>

Init ==
  /\ status = "waiting"
  /\ ready = {}
  /\ phase = "none"
  /\ round = 0
  /\ stealer = NoPlayer
  /\ guesser = NoPlayer
  /\ scores = [p \in Players |-> 0]
  /\ suddenDeath = FALSE
  /\ roundHistory = <<>>
  /\ objects = [p \in Players |-> {}]
  /\ stolen = NoObject
  /\ guessesRemaining = [p \in Players |-> 0]
  /\ guessedWrong = [p \in Players |-> <<>>]
  /\ actions = <<>>
  /\ armed = FALSE
  /\ tick = FALSE
  /\ out = <<>>
  /\ reported = <<>>

Next ==
  \/ HandleAction
  \/ HandleTimeout
  \/ TimerFires
  \/ \E p \in Players, t \in ActionTypes : \E o \in Payloads(t) : Submit(p, t, o)

Spec == Init /\ [][Next]_vars

(* The runtime fires a timer that runs and the goroutine keeps selecting;  *)
(* select picks at random, so a waiting tick is not passed over for ever.  *)
(* Nothing is assumed of the players.                                      *)
FairSpec == Spec /\ WF_vars(TimerFires) /\ WF_vars(HandleTimeout)

-----------------------------------------------------------------------------
(* Properties.                                                             *)

(* The values of every variable.  A match has at most one round more than  *)
(* TotalRounds: sudden death is a single round.                            *)
TypeOK ==
  /\ status \in {"waiting", "in_progress", "completed", "abandoned"}
  /\ ready \subseteq Players
  /\ phase \in Phases
  /\ round \in 0 .. TotalRounds + 1
  /\ stealer \in Players \cup {NoPlayer}
  /\ guesser \in Players \cup {NoPlayer}
  /\ scores \in [Players -> Nat]
  /\ suddenDeath \in BOOLEAN
  /\ roundHistory \in Seq(RoundResult)
  /\ objects \in [Players -> SUBSET Pool]
  /\ stolen \in Pool \cup {NoObject}
  /\ guessesRemaining \in [Players -> 0 .. GuessAttempts]
  /\ guessedWrong \in [Players -> Seq(ObjectIDs)]
  /\ actions \in Seq(Action)
  /\ armed \in BOOLEAN
  /\ tick \in BOOLEAN
  /\ reported \in Seq(MatchRow)

(* Every round played so far is in the history under its own number, the   *)
(* roles change hands after each of them, sudden death included, and the   *)
(* current round continues the alternation (advanceRound's swap).          *)
RolesAlternate ==
  LET current == IF phase \in {"memorization", "stealing", "guessing"} THEN 1 ELSE 0
  IN  status = "in_progress" =>
        /\ Len(roundHistory) + current = round
        /\ guesser = Opponent(stealer)
        /\ \A i \in 1 .. Len(roundHistory) :
              /\ roundHistory[i].roundNumber = i
              /\ roundHistory[i].stealer =
                   IF (round - i) % 2 = 0 THEN stealer ELSE guesser

(* While a match runs a player's score is the number of rounds the history *)
(* gives them: no round is counted twice, none is lost.                    *)
ScoreIsHistory ==
  status = "in_progress" =>
    \A p \in Players :
      scores[p] = Cardinality({i \in DOMAIN roundHistory : roundHistory[i].pointTo = p})

(* finishMatch breaks a tie in PlayerA's favour without saying so; no match*)
(* ends level, whichever way it ends, so that it never has to.             *)
NoTieAtTheEnd == status = "completed" => scores[PlayerA] # scores[PlayerB]

(* A finished ranked match is reported exactly once, with the final scores *)
(* and with the player who is ahead as the winner; nothing else ever is.   *)
ReportedOnce ==
  /\ Len(reported) = IF status = "completed" /\ Ranked THEN 1 ELSE 0
  /\ \A i \in DOMAIN reported :
       /\ reported[i].score = scores
       /\ scores[reported[i].winner] > scores[reported[i].loser]

(* In a round the two players hold disjoint sets of ObjectCount objects,   *)
(* and what is stolen comes from the guesser's, so a guess can succeed.    *)
FairRound ==
  phase \in {"memorization", "stealing", "guessing", "round_result"} =>
    /\ objects[PlayerA] \cap objects[PlayerB] = {}
    /\ \A p \in Players : Cardinality(objects[p]) = ObjectCount
    /\ phase \in {"guessing", "round_result"} => stolen \in objects[guesser]

(* During a guess the attempts left and the wrong guesses of this round    *)
(* make up the allowance, one attempt is left, and no wrong guess was the  *)
(* stolen object: what a resync tells the guesser is about this round.     *)
AttemptsAccounted ==
  phase = "guessing" =>
    /\ guessesRemaining[guesser] + Len(guessedWrong[guesser]) = GuessAttempts
    /\ guessesRemaining[guesser] > 0
    /\ \A i \in DOMAIN guessedWrong[guesser] : guessedWrong[guesser][i] # stolen

(* A running match always has a timeout ahead of it, so that it goes on    *)
(* even if both players are gone (the AFK rules of handleTimeout).         *)
TimeoutPending == status = "in_progress" => armed \/ tick

(* A tick of an earlier phase, which would cut the present one short.      *)
LeftOver == tick /\ armed

(* An answer that ends its phase although the phase's timer has run out.   *)
LateAnswer ==
  /\ tick
  /\ actions # <<>> /\ actions' = Tail(actions)
  /\ \/ phase = "stealing" /\ phase' = "guessing" /\ Head(actions).type = "submit_steal"
     \/ phase = "guessing" /\ phase' = "round_result" /\ Head(actions).type = "submit_guess"

(* Where ticks of an earlier phase come from (armTimer does not drain the  *)
(* channel): a late answer leaves one, and nothing else ever does.  What it*)
(* cuts short is the next phase, the guess or the result; memorizing and   *)
(* stealing only if from there on one timer after the other runs out while *)
(* the tick before it is being handled (see Expire).                       *)
OnlyLateAnswersLeaveTicks == [][~LeftOver /\ LeftOver' => LateAnswer]_vars

(* No event shows a player the opponent's objects unless that player is    *)
(* the stealer choosing among them: room.go emits by role, in the events   *)
(* of a new phase as well as in the answer to a resync.                    *)
ObjectsKeptFromOpponent ==
  \A i \in DOMAIN out : \A p \in out[i].to :
    out[i].type = "phase_update" /\ out[i].shown # {} =>
       \/ out[i].shown = objects[p]
       \/ phase = "stealing" /\ p = stealer /\ out[i].shown = objects[guesser]

-----------------------------------------------------------------------------
(* The inductive invariant: what every handler relies on and re-establishes*)
(* (handleAction and handleTimeout of room.go).                            *)

(* The status and the phase move together, and the timer rests before the  *)
(* match.                                                                  *)
Lifecycle ==
  /\ status = "waiting" => phase = "none" /\ round = 0 /\ scores = [p \in Players |-> 0]
                           /\ ~suddenDeath /\ ~armed /\ ~tick /\ reported = <<>>
                           /\ stealer = NoPlayer
  /\ phase \in {"memorization", "stealing", "guessing", "round_result"}
       <=> status = "in_progress"
  /\ phase = "completed" <=> status = "completed"

Roles == status = "in_progress" =>
           stealer \in Players /\ guesser = Opponent(stealer) /\ round > 0

(* Sudden death is the one round after the last, entered level and left    *)
(* with one player ahead.                                                  *)
SuddenDeathIsLast ==
  IF suddenDeath
  THEN /\ round = TotalRounds + 1
       /\ status = "in_progress" =>
            (phase = "round_result" <=> scores[PlayerA] # scores[PlayerB])
  ELSE round <= TotalRounds

(* Everything above holds in each state the room can be in.                *)
IInv == /\ TypeOK /\ Lifecycle /\ Roles /\ SuddenDeathIsLast
        /\ FairRound /\ NoTieAtTheEnd /\ TimeoutPending /\ ReportedOnce

-----------------------------------------------------------------------------
(* A player who leaves a running match loses it, whatever the scores were. *)
LeaverLoses ==
  [][\A p \in Players :
       (/\ status = "in_progress" /\ status' = "completed"
        /\ actions # <<>> /\ actions' = Tail(actions)
        /\ Head(actions).type = "leave_room" /\ Head(actions).from = p)
       => scores'[Opponent(p)] > scores'[p]]_vars

(* What has ended stays as it ended: late actions, and a tick that is left *)
(* in the timer, find nobody to take them.                                 *)
EndIsFinal ==
  [][(status \in {"completed", "abandoned"}) =>
       UNCHANGED <<status, phase, scores, roundHistory, reported, out>>]_vars

(* A match that has started ends, even if its players do nothing at all.   *)
MatchEnds == (status = "in_progress") ~> (status = "completed")

(* The room plays by the rules of the abstract match.                      *)
Score == INSTANCE MatchScore WITH awarded <- phase \in {"round_result", "completed"}
ImplementsMatchScore == Score!Spec

(* What the hub sees of the room is what Hub takes a room for: it takes    *)
(* actions in order until it is over, starts when both are ready, and once *)
(* it is over takes nothing more.                                          *)
Seen(a) == [from |-> a.from, type |-> a.type]
HubView == [players |-> Players, status |-> status, ready |-> ready,
            actions |-> [i \in DOMAIN actions |-> Seen(actions[i])]]
Life == INSTANCE RoomLife WITH life <- HubView
ImplementsRoomLife == Life!Spec

(* AFK rule: the point of a round goes to the stealer for the guesser's    *)
(* silence only when the guesser's time is up, that is when the timer of   *)
(* the guessing phase has fired (progress.md: 30s steal/guess timeout).    *)
ForfeitOnlyWhenTimeIsUp ==
  [][(phase = "guessing" /\ phase' = "round_result" /\ out'[1].afk) => ~armed]_vars
=============================================================================
