--------------------------- MODULE GameRoomProofs ---------------------------
(***************************************************************************)
(* What the room actor guarantees for every pool of objects, number of     *)
(* rounds, number of attempts and queue capacity, given the assumptions    *)
(* GameRoom states of its constants: the invariant IInv is inductive, so   *)
(* the safety properties among its parts hold in every reachable state.    *)
(*                                                                         *)
(* The handlers are built from a few operations that begin a phase; what   *)
(* each of these establishes is a lemma of its own, and each action of     *)
(* Next then combines the lemma of the operation it calls with its guard.  *)
(***************************************************************************)
EXTENDS GameRoom, FiniteSetTheorems, TLAPS

(* The parts of the invariant that speak of the room itself.               *)
Core == /\ Lifecycle /\ Roles /\ SuddenDeathIsLast
        /\ FairRound /\ NoTieAtTheEnd /\ TimeoutPending /\ ReportedOnce

-----------------------------------------------------------------------------
(* Drawing objects.                                                        *)

(* With a pool of 2 * ObjectCount objects neither draw of drawRoundObjects *)
(* runs short: both lists are full and they share nothing.                 *)
LEMMA TwoDraws ==
  ASSUME NEW first \in Draws({}), NEW second \in Draws(first)
  PROVE  /\ first \in SUBSET Pool /\ Cardinality(first) = ObjectCount
         /\ second \in SUBSET Pool /\ Cardinality(second) = ObjectCount
         /\ first \cap second = {}
<1>1. IsFiniteSet(Pool) /\ Cardinality(Pool) \in Nat /\ ObjectCount \in Nat \ {0}
  BY PoolAssumption, NumbersAssumption, FS_CardinalityType
<1>2. Pool \ {} = Pool
  OBVIOUS
<1>3. ~(Cardinality(Pool \ {}) < ObjectCount)
  BY <1>1, <1>2, PoolAssumption
<1>4. first \in SUBSET Pool /\ Cardinality(first) = ObjectCount
  BY <1>2, <1>3 DEF Draws
<1>5. Cardinality(Pool \ first) = Cardinality(Pool) - ObjectCount
  <2>1. Cardinality(Pool \ first) = Cardinality(Pool) - Cardinality(Pool \cap first)
    BY <1>1, FS_Difference
  <2>2. Pool \cap first = first
    BY <1>4
  <2> QED BY <1>4, <2>1, <2>2
<1>6. ~(Cardinality(Pool \ first) < ObjectCount)
  BY <1>1, <1>5, PoolAssumption
<1>7. second \in SUBSET (Pool \ first) /\ Cardinality(second) = ObjectCount
  BY <1>6 DEF Draws
<1> QED BY <1>4, <1>7

(* A set of ObjectCount objects has an object to steal.                    *)
LEMMA SomethingToSteal ==
  ASSUME NEW S \in SUBSET Pool, Cardinality(S) = ObjectCount
  PROVE  S # {}
BY NumbersAssumption, FS_EmptySet

(* What drawRoundObjects leaves in State.Objects.                          *)
LEMMA FairDraw ==
  ASSUME NEW st \in Players, DrawRoundObjects(st)
  PROVE  /\ objects' \in [Players -> SUBSET Pool]
         /\ objects'[PlayerA] \cap objects'[PlayerB] = {}
         /\ \A p \in Players : Cardinality(objects'[p]) = ObjectCount
<1>a. PICK first \in Draws({}) : \E second \in Draws(first) :
         objects' = [p \in Players |-> IF p = st THEN first ELSE second]
  BY DEF DrawRoundObjects
<1>1. PICK second \in Draws(first) :
         objects' = [p \in Players |-> IF p = st THEN first ELSE second]
  BY <1>a
<1>2. /\ first \in SUBSET Pool /\ Cardinality(first) = ObjectCount
      /\ second \in SUBSET Pool /\ Cardinality(second) = ObjectCount
      /\ first \cap second = {}
  BY TwoDraws
<1>3. PlayerA \in Players /\ PlayerB \in Players /\ PlayerA # PlayerB
  BY PlayersAssumption DEF Players
<1>4. first \cap second = {} /\ second \cap first = {}
  BY <1>2
<1>5. CASE st = PlayerA
  BY <1>1, <1>2, <1>3, <1>4, <1>5
<1>6. CASE st = PlayerB
  BY <1>1, <1>2, <1>3, <1>4, <1>6
<1> QED BY <1>5, <1>6 DEF Players

-----------------------------------------------------------------------------
(* The operations that begin a phase or end the match.                     *)

LEMMA TwoPlayers ==
  /\ PlayerA \in Players /\ PlayerB \in Players /\ PlayerA # PlayerB /\ NoPlayer \notin Players
  /\ \A p \in Players : Opponent(p) \in Players /\ Opponent(p) # p /\ Opponent(Opponent(p)) = p
BY PlayersAssumption DEF Players, Opponent

(* beginMemorization, after drawRoundObjects: a fair round with its timer  *)
(* running.                                                                *)
LEMMA MemorizationBegins ==
  ASSUME NEW st \in Players, NEW announcement, BeginMemorization(st, announcement)
  PROVE  /\ stealer' = st /\ guesser' = Opponent(st) /\ phase' = "memorization"
         /\ stolen' = NoObject /\ armed' = TRUE
         /\ objects' \in [Players -> SUBSET Pool]
         /\ FairRound'
<1>1. /\ stealer' = st /\ guesser' = Opponent(st) /\ phase' = "memorization"
      /\ stolen' = NoObject /\ armed' = TRUE /\ DrawRoundObjects(st)
  BY DEF BeginMemorization, ArmTimer
<1>2. /\ objects' \in [Players -> SUBSET Pool]
      /\ objects'[PlayerA] \cap objects'[PlayerB] = {}
      /\ \A p \in Players : Cardinality(objects'[p]) = ObjectCount
  BY <1>1, FairDraw
<1> QED BY <1>1, <1>2 DEF FairRound

(* An action taken from the channel names a participant and, where its type*)
(* asks for one, an object id.                                             *)
LEMMA ReceivedAction ==
  ASSUME TypeOK, NEW t \in ActionTypes, Receive(t)
  PROVE  /\ From \in Players /\ Picked \in Payloads(t)
         /\ actions' \in Seq(Action) /\ tick' = tick /\ Running
<1>1. actions \in Seq(Action) /\ actions # <<>> /\ actions' = Tail(actions)
  BY DEF TypeOK, Receive
<1>2. Head(actions) \in Action /\ Tail(actions) \in Seq(Action)
  BY <1>1
<1>3. PICK u \in ActionTypes : Head(actions) \in [from : Players, type : {u}, object : Payloads(u)]
  BY <1>2 DEF Action
<1>4. u = t
  BY <1>3 DEF Receive
<1> QED BY <1>1, <1>2, <1>3, <1>4 DEF Receive, From, Picked

(* Handlers that refuse or only inform leave the match as it was.          *)
LEMMA MatchUntouched ==
  ASSUME TypeOK, Core,
         ready' \in SUBSET Players, actions' \in Seq(Action), tick' = tick,
         UNCHANGED <<status, phase, roundVars, scores, roundHistory, guessVars, armed, reported>>
  PROVE  TypeOK' /\ Core'
<1>1. TypeOK'
  BY DEF TypeOK, roundVars, guessVars
<1>2. Core'
  BY DEF Core, Lifecycle, Roles, SuddenDeathIsLast, FairRound, NoTieAtTheEnd, TimeoutPending,
     ReportedOnce, roundVars, guessVars
<1> QED BY <1>1, <1>2

(* applySteal: the guesser is given all attempts and a running timer.      *)
LEMMA GuessingBegins ==
  ASSUME TypeOK, Core, phase = "stealing", NEW o \in objects[guesser], ApplySteal(o),
         ready' \in SUBSET Players, actions' \in Seq(Action), tick' \in BOOLEAN
  PROVE  TypeOK' /\ Core'
<1>1. status = "in_progress" /\ guesser \in Players /\ o \in Pool
  BY TwoPlayers DEF Core, Lifecycle, Roles, TypeOK
<1>2. /\ stolen' = o /\ phase' = "guessing" /\ armed' = TRUE
      /\ guessesRemaining' = [guessesRemaining EXCEPT ![guesser] = GuessAttempts]
      /\ guessedWrong' = [guessedWrong EXCEPT ![guesser] = <<>>]
      /\ UNCHANGED <<status, round, stealer, guesser, suddenDeath, objects, scores,
                     roundHistory, reported>>
  BY DEF ApplySteal, ArmTimer, ClearWrongGuesses, FreshAttempts, roundVars
<1>3. TypeOK'
  <2>1. guessesRemaining' \in [Players -> 0 .. GuessAttempts]
    BY <1>1, <1>2, NumbersAssumption DEF TypeOK
  <2>2. guessedWrong' \in [Players -> Seq(ObjectIDs)]
    BY <1>1, <1>2 DEF TypeOK
  <2> QED BY <1>1, <1>2, <2>1, <2>2 DEF TypeOK, Phases
<1>4. Core'
  BY <1>1, <1>2 DEF Core, Lifecycle, Roles, SuddenDeathIsLast, FairRound, NoTieAtTheEnd,
     TimeoutPending, ReportedOnce
<1> QED BY <1>3, <1>4

(* resolveGuess: one point, one row of history.  A sudden-death round was  *)
(* level before that point, so it no longer is.                            *)
LEMMA RoundIsDecided ==
  ASSUME TypeOK, Core, phase = "guessing",
         NEW correct \in BOOLEAN, NEW afk, ResolveGuess(correct, afk),
         guessesRemaining' \in [Players -> 0 .. GuessAttempts],
         guessedWrong' \in [Players -> Seq(ObjectIDs)],
         ready' \in SUBSET Players, actions' \in Seq(Action), tick' \in BOOLEAN
  PROVE  TypeOK' /\ Core'
<1> DEFINE pointTo == IF correct THEN guesser ELSE stealer
           row == [roundNumber |-> round, stealer |-> stealer, guesser |-> guesser,
                   stolen |-> stolen, correct |-> correct, pointTo |-> pointTo]
<1>1. /\ status = "in_progress" /\ stealer \in Players /\ guesser \in Players
      /\ guesser = Opponent(stealer) /\ pointTo \in Players
  BY TwoPlayers DEF Core, Lifecycle, Roles
<1>2. stolen \in objects[guesser] /\ stolen \in Pool
  BY <1>1 DEF Core, FairRound, TypeOK
<1>3. /\ scores' = [scores EXCEPT ![pointTo] = @ + 1]
      /\ roundHistory' = Append(roundHistory, row)
      /\ phase' = "round_result" /\ armed' = TRUE
      /\ UNCHANGED <<status, round, stealer, guesser, suddenDeath, objects, stolen, reported>>
  BY DEF ResolveGuess, WithPoint, ArmTimer, roundVars
<1>p. pointTo = PlayerA \/ pointTo = PlayerB
  BY <1>1 DEF Players
<1> HIDE DEF pointTo
<1>4. TypeOK'
  <2>1. scores' \in [Players -> Nat]
    <3>1. scores \in [Players -> Nat]
      BY DEF TypeOK
    <3>2. pointTo \in Players /\ scores' = [scores EXCEPT ![pointTo] = scores[pointTo] + 1]
      BY <1>1, <1>3
    <3>3. scores[pointTo] + 1 \in Nat
      BY <3>1, <3>2
    <3> QED BY <3>1, <3>2, <3>3
  <2>2. row \in RoundResult
    <3>1. round \in Nat
      BY NumbersAssumption DEF TypeOK
    <3> QED BY <1>1, <1>2, <3>1 DEF RoundResult
  <2>3. roundHistory' \in Seq(RoundResult)
    BY <1>3, <2>2 DEF TypeOK
  <2> QED BY <1>3, <2>1, <2>3 DEF TypeOK, Phases
<1>5. SuddenDeathIsLast'
  <2>1. ASSUME suddenDeath
        PROVE  scores'[PlayerA] # scores'[PlayerB]
    <3>1. scores[PlayerA] = scores[PlayerB]
      BY <1>1, <2>1 DEF Core, SuddenDeathIsLast
    <3>2. scores[PlayerA] \in Nat /\ scores[PlayerB] \in Nat
      BY TwoPlayers DEF TypeOK
    <3>3. CASE pointTo = PlayerA
      <4>1. scores'[PlayerA] = scores[PlayerA] + 1 /\ scores'[PlayerB] = scores[PlayerB]
        BY <1>3, <3>3, TwoPlayers DEF TypeOK
      <4> QED BY <3>1, <3>2, <4>1
    <3>4. CASE pointTo = PlayerB
      <4>1. scores'[PlayerB] = scores[PlayerB] + 1 /\ scores'[PlayerA] = scores[PlayerA]
        BY <1>3, <3>4, TwoPlayers DEF TypeOK
      <4> QED BY <3>1, <3>2, <4>1
    <3> QED BY <1>p, <3>3, <3>4
  <2> QED BY <1>3, <2>1 DEF Core, SuddenDeathIsLast
<1>6. Core'
  BY <1>1, <1>2, <1>3, <1>5 DEF Core, Lifecycle, Roles, FairRound, NoTieAtTheEnd,
     TimeoutPending, ReportedOnce
<1> QED BY <1>4, <1>6

(* finishMatch: the scores it is called with are not level, and it reports *)
(* the player who is ahead.                                                *)
LEMMA MatchEndsDecided ==
  ASSUME TypeOK, Core, status = "in_progress",
         NEW final \in [Players -> Nat], final[PlayerA] # final[PlayerB], FinishMatch(final),
         ready' \in SUBSET Players, actions' \in Seq(Action), tick' \in BOOLEAN
  PROVE  TypeOK' /\ Core'
<1> DEFINE winner == IF final[PlayerB] > final[PlayerA] THEN PlayerB ELSE PlayerA
<1>1. /\ winner \in Players /\ Opponent(winner) \in Players
      /\ final[winner] > final[Opponent(winner)]
  <2>1. final[PlayerA] \in Nat /\ final[PlayerB] \in Nat
    BY TwoPlayers
  <2>2. Opponent(PlayerA) = PlayerB /\ Opponent(PlayerB) = PlayerA
    BY TwoPlayers DEF Opponent
  <2> QED BY <2>1, <2>2, TwoPlayers
<1>2. /\ phase' = "completed" /\ status' = "completed" /\ armed' = FALSE /\ scores' = final
      /\ Report(winner, final)
      /\ UNCHANGED <<round, stealer, guesser, suddenDeath, objects, roundHistory,
                     stolen, guessesRemaining, guessedWrong>>
  BY DEF FinishMatch, roundVars, guessVars
<1>3. /\ reported' = IF Ranked THEN <<MatchWon(winner, final)>> ELSE <<>>
      /\ MatchWon(winner, final) \in MatchRow
  <2>1. Len(reported) = 0 /\ reported \in Seq(MatchRow)
    BY DEF Core, ReportedOnce, TypeOK
  <2>2. reported = <<>>
    BY <2>1
  <2>3. MatchWon(winner, final) \in MatchRow
    BY <1>1 DEF MatchWon, MatchRow
  <2> QED BY <1>2, <2>2, <2>3 DEF Report
<1>4. TypeOK'
  <2>1. reported' \in Seq(MatchRow)
    BY <1>3
  <2> HIDE DEF winner
  <2> QED BY <1>2, <2>1 DEF TypeOK, Phases
<1>5. ReportedOnce'
  BY <1>1, <1>2, <1>3, NumbersAssumption DEF ReportedOnce, MatchWon
<1>6. Core'
  BY <1>2, <1>5 DEF Core, Lifecycle, Roles, SuddenDeathIsLast, FairRound, NoTieAtTheEnd,
     TimeoutPending
<1> QED BY <1>4, <1>6

-----------------------------------------------------------------------------
(* One lemma per action of Next.                                           *)

LEMMA SetReadyKeepsIInv ==
  ASSUME TypeOK, Core, HandleSetReady
  PROVE  TypeOK' /\ Core'
<1>1. /\ From \in Players /\ actions' \in Seq(Action) /\ tick' = tick /\ Running
      /\ ready' = ready \cup {From}
  BY ReceivedAction DEF HandleSetReady, ActionTypes
<1>2. CASE status = "waiting" /\ StartMatch(<<RoomState>>)
  <2>1. PICK st \in Players :
           BeginMemorization(st, Append(<<RoomState>>, Event("match_starting", Players)))
    BY <1>2 DEF StartMatch
  <2>2. /\ stealer' = st /\ guesser' = Opponent(st) /\ phase' = "memorization"
        /\ stolen' = NoObject /\ armed' = TRUE
        /\ objects' \in [Players -> SUBSET Pool]
        /\ FairRound'
    BY <2>1, MemorizationBegins
  <2>3. /\ status' = "in_progress" /\ round' = 1
        /\ UNCHANGED <<scores, suddenDeath, roundHistory, guessesRemaining, guessedWrong, reported>>
    BY <1>2 DEF StartMatch
  <2>4. TypeOK'
    <3>1. round' \in 0 .. TotalRounds + 1
      BY <2>3, NumbersAssumption
    <3>2. stealer' \in Players \cup {NoPlayer} /\ guesser' \in Players \cup {NoPlayer}
      BY <2>2, TwoPlayers
    <3> QED BY <1>1, <2>2, <2>3, <3>1, <3>2 DEF TypeOK, Phases
  <2>5. Core'
    BY <1>1, <1>2, <2>2, <2>3, TwoPlayers, NumbersAssumption
    DEF TypeOK, Core, Lifecycle, Roles, SuddenDeathIsLast, NoTieAtTheEnd, TimeoutPending, ReportedOnce
  <2> QED BY <2>4, <2>5
<1>3. CASE UNCHANGED <<status, phase, roundVars, scores, roundHistory, guessVars, armed, reported>>
  <2>1. ready' \in SUBSET Players
    BY <1>1 DEF TypeOK
  <2> QED BY <1>1, <1>3, <2>1, MatchUntouched
<1> QED BY <1>2, <1>3 DEF HandleSetReady

LEMMA ResyncKeepsIInv ==
  ASSUME TypeOK, Core, HandleResync
  PROVE  TypeOK' /\ Core'
<1>1. actions' \in Seq(Action) /\ tick' = tick
  BY ReceivedAction DEF HandleResync, ActionTypes
<1>2. /\ ready' \in SUBSET Players
      /\ UNCHANGED <<status, phase, roundVars, scores, roundHistory, guessVars, armed, reported>>
  BY DEF HandleResync, TypeOK
<1> QED BY <1>1, <1>2, MatchUntouched

LEMMA StealKeepsIInv ==
  ASSUME TypeOK, Core, HandleSteal
  PROVE  TypeOK' /\ Core'
<1>1. actions' \in Seq(Action) /\ tick' = tick /\ ready' \in SUBSET Players
  BY ReceivedAction DEF HandleSteal, ActionTypes, TypeOK
<1>2. CASE StealAccepted /\ ApplySteal(Picked)
  <2>1. phase = "stealing" /\ Picked \in objects[guesser] /\ tick' \in BOOLEAN
    BY <1>1, <1>2 DEF StealAccepted, TypeOK
  <2> QED BY <1>1, <1>2, <2>1, GuessingBegins
<1>3. CASE UNCHANGED <<status, phase, roundVars, scores, roundHistory, guessVars, armed, reported>>
  BY <1>1, <1>3, MatchUntouched
<1> QED BY <1>2, <1>3 DEF HandleSteal

LEMMA GuessKeepsIInv ==
  ASSUME TypeOK, Core, HandleGuess
  PROVE  TypeOK' /\ Core'
<1>1. /\ actions' \in Seq(Action) /\ tick' = tick /\ tick' \in BOOLEAN
      /\ ready' \in SUBSET Players /\ Picked \in ObjectIDs /\ From \in Players
  BY ReceivedAction DEF HandleGuess, ActionTypes, Payloads, TypeOK
<1>2. CASE /\ GuessAccepted /\ ResolveGuess(TRUE, FALSE)
           /\ UNCHANGED <<guessesRemaining, guessedWrong>>
  <2>1. /\ phase = "guessing"
        /\ guessesRemaining' \in [Players -> 0 .. GuessAttempts]
        /\ guessedWrong' \in [Players -> Seq(ObjectIDs)]
    BY <1>2 DEF GuessAccepted, TypeOK
  <2> QED BY <1>1, <1>2, <2>1, RoundIsDecided
<1>3. CASE GuessAccepted /\ WrongGuess
  <2>1. phase = "guessing" /\ From = guesser /\ guesser \in Players /\ guessesRemaining[guesser] > 0
    BY <1>1, <1>3 DEF GuessAccepted
  <2>2. guessesRemaining' \in [Players -> 0 .. GuessAttempts]
    <3>1. guessesRemaining \in [Players -> 0 .. GuessAttempts] /\ GuessAttempts \in Nat
      BY NumbersAssumption DEF TypeOK
    <3>2. guessesRemaining[guesser] - 1 \in 0 .. GuessAttempts
      BY <2>1, <3>1
    <3> QED BY <1>3, <3>1, <3>2 DEF WrongGuess
  <2>3. guessedWrong' \in [Players -> Seq(ObjectIDs)]
    BY <1>1, <1>3, <2>1 DEF WrongGuess, TypeOK
  <2>4. CASE ResolveGuess(FALSE, FALSE)
    BY <1>1, <2>1, <2>2, <2>3, <2>4, RoundIsDecided
  <2>5. CASE UNCHANGED <<status, phase, roundVars, scores, roundHistory, stolen, armed, reported>>
    <3>1. TypeOK'
      BY <1>1, <2>2, <2>3, <2>5 DEF TypeOK, roundVars
    <3>2. Core'
      BY <1>1, <2>5 DEF Core, Lifecycle, Roles, SuddenDeathIsLast, FairRound, NoTieAtTheEnd,
         TimeoutPending, ReportedOnce, roundVars
    <3> QED BY <3>1, <3>2
  <2> QED BY <1>3, <2>4, <2>5 DEF WrongGuess
<1>4. CASE UNCHANGED <<status, phase, roundVars, scores, roundHistory, guessVars, armed, reported>>
  BY <1>1, <1>4, MatchUntouched
<1> QED BY <1>2, <1>3, <1>4 DEF HandleGuess

(* WalkoverScores puts the one who stays ahead of the one who leaves.      *)
LEMMA WalkoverIsWon ==
  ASSUME TypeOK, NEW p \in Players
  PROVE  /\ WalkoverScores(p) \in [Players -> Nat]
         /\ WalkoverScores(p)[Opponent(p)] > WalkoverScores(p)[p]
<1>1. scores \in [Players -> Nat] /\ Opponent(p) \in Players /\ Opponent(p) # p
  BY TwoPlayers DEF TypeOK
<1>2. scores[p] \in Nat /\ scores[Opponent(p)] \in Nat /\ scores[p] + 1 \in Nat
  BY <1>1
<1>3. CASE scores[Opponent(p)] <= scores[p]
  <2>1. WalkoverScores(p) = [scores EXCEPT ![Opponent(p)] = scores[p] + 1]
    BY <1>3 DEF WalkoverScores
  <2> QED BY <1>1, <1>2, <2>1
<1>4. CASE ~(scores[Opponent(p)] <= scores[p])
  <2>1. WalkoverScores(p) = scores
    BY <1>4 DEF WalkoverScores
  <2> QED BY <1>1, <1>2, <1>4, <2>1
<1> QED BY <1>3, <1>4

LEMMA LeaveKeepsIInv ==
  ASSUME TypeOK, Core, HandleLeave
  PROVE  TypeOK' /\ Core'
<1>1. /\ actions' \in Seq(Action) /\ tick' = tick /\ tick' \in BOOLEAN
      /\ ready' \in SUBSET Players /\ From \in Players /\ Running
  BY ReceivedAction DEF HandleLeave, ActionTypes, TypeOK
<1>2. CASE status # "in_progress"
  <2>1. /\ status' = "abandoned" /\ armed' = FALSE
        /\ UNCHANGED <<phase, roundVars, scores, roundHistory, guessVars, reported>>
    BY <1>2 DEF HandleLeave
  <2>2. status = "waiting"
    BY <1>1, <1>2 DEF Running, TypeOK
  <2>3. TypeOK'
    BY <1>1, <2>1 DEF TypeOK, roundVars, guessVars
  <2>4. Core'
    BY <2>1, <2>2 DEF Core, Lifecycle, Roles, SuddenDeathIsLast, FairRound, NoTieAtTheEnd,
       TimeoutPending, ReportedOnce, roundVars, guessVars
  <2> QED BY <2>3, <2>4
<1>3. CASE status = "in_progress"
  <2> DEFINE final == WalkoverScores(From)
  <2>1. final \in [Players -> Nat] /\ final[Opponent(From)] > final[From]
    BY <1>1, WalkoverIsWon
  <2>2. FinishMatch(final)
    BY <1>3 DEF HandleLeave
  <2> HIDE DEF final
  <2>3. final[PlayerA] # final[PlayerB]
    <3>1. final[PlayerA] \in Nat /\ final[PlayerB] \in Nat
      BY <2>1, TwoPlayers
    <3>2. CASE From = PlayerA
      BY <2>1, <3>1, <3>2 DEF Opponent
    <3>3. CASE From = PlayerB
      BY <2>1, <3>1, <3>3, TwoPlayers DEF Opponent
    <3> QED BY <1>1, <3>2, <3>3 DEF Players
  <2> QED BY <1>1, <1>3, <2>1, <2>2, <2>3, MatchEndsDecided
<1> QED BY <1>2, <1>3

LEMMA TimeoutKeepsIInv ==
  ASSUME TypeOK, Core, HandleTimeout
  PROVE  TypeOK' /\ Core'
<1>1. /\ ready' \in SUBSET Players /\ actions' \in Seq(Action) /\ tick' \in BOOLEAN
      /\ status = "in_progress"
  BY DEF HandleTimeout, MemorizationOver, StealTimeout, GuessTimeout, ResultShown, Expire,
         TypeOK, Core, Lifecycle
<1>2. CASE MemorizationOver
  <2>1. /\ phase = "memorization" /\ phase' = "stealing" /\ armed' = TRUE
        /\ UNCHANGED <<status, roundVars, scores, roundHistory, guessVars, reported>>
    BY <1>2 DEF MemorizationOver, Expire, BeginStealing, ArmTimer
  <2>2. TypeOK'
    BY <1>1, <2>1 DEF TypeOK, Phases, roundVars, guessVars
  <2>3. Core'
    BY <1>1, <2>1 DEF Core, Lifecycle, Roles, SuddenDeathIsLast, FairRound, NoTieAtTheEnd,
       TimeoutPending, ReportedOnce, roundVars, guessVars
  <2> QED BY <2>2, <2>3
<1>3. CASE StealTimeout
  <2>1. phase = "stealing" /\ guesser \in Players
    BY <1>1, <1>3, TwoPlayers DEF StealTimeout, Expire, Core, Roles
  <2>2. objects[guesser] # {}
    BY <2>1, SomethingToSteal DEF Core, FairRound, TypeOK
  <2>3. PICK o \in objects[guesser] : ApplySteal(o)
    BY <1>3, <2>2 DEF StealTimeout
  <2> QED BY <1>1, <2>1, <2>3, GuessingBegins
<1>4. CASE GuessTimeout
  <2>1. /\ phase = "guessing" /\ ResolveGuess(FALSE, TRUE)
        /\ guessesRemaining' \in [Players -> 0 .. GuessAttempts]
        /\ guessedWrong' \in [Players -> Seq(ObjectIDs)]
    BY <1>4 DEF GuessTimeout, Expire, TypeOK
  <2> QED BY <1>1, <2>1, RoundIsDecided
<1>5. CASE ResultShown
  <2>1. phase = "round_result" /\ AdvanceRound
    BY <1>5 DEF ResultShown, Expire
  <2>2. /\ round \in Nat /\ round > 0 /\ TotalRounds \in Nat \ {0} /\ stealer \in Players
        /\ guesser \in Players /\ stealer = Opponent(guesser)
    BY <1>1, TwoPlayers, NumbersAssumption DEF TypeOK, Core, Roles
  <2>3. ASSUME NEW announcement, NextRound(announcement),
               \/ ~suddenDeath /\ round < TotalRounds /\ suddenDeath' = suddenDeath
               \/ ~suddenDeath /\ round >= TotalRounds /\ suddenDeath' = TRUE
                  /\ scores[PlayerA] = scores[PlayerB]
        PROVE  TypeOK' /\ Core'
    <3>1. /\ stealer' = guesser /\ guesser' = stealer /\ phase' = "memorization"
          /\ stolen' = NoObject /\ armed' = TRUE
          /\ objects' \in [Players -> SUBSET Pool] /\ FairRound'
      BY <2>2, <2>3, MemorizationBegins, TwoPlayers DEF NextRound
    <3>2. /\ round' = round + 1
          /\ UNCHANGED <<status, scores, roundHistory, guessesRemaining, guessedWrong, reported>>
      BY <2>3 DEF NextRound
    <3>a. ~suddenDeath /\ round <= TotalRounds
      BY <2>3 DEF Core, SuddenDeathIsLast
    <3>b. round' \in 0 .. TotalRounds + 1
      BY <2>2, <3>2, <3>a
    <3>d. suddenDeath' \in BOOLEAN
      BY <2>3, Zenon DEF TypeOK
    <3>c. SuddenDeathIsLast'
      BY <2>2, <2>3, <3>1, <3>2, <3>a DEF SuddenDeathIsLast
    <3>3. SuddenDeathIsLast' /\ round' \in 0 .. TotalRounds + 1 /\ suddenDeath' \in BOOLEAN
      BY <3>b, <3>c, <3>d
    <3>4. TypeOK'
      BY <1>1, <2>2, <3>1, <3>2, <3>3 DEF TypeOK, Phases
    <3>5. Core'
      BY <1>1, <2>2, <3>1, <3>2, <3>3 DEF Core, Lifecycle, Roles, NoTieAtTheEnd,
         TimeoutPending, ReportedOnce
    <3> QED BY <3>4, <3>5
  <2>4. CASE ~suddenDeath /\ round < TotalRounds
    <3>1. NextRound(<<>>) /\ suddenDeath' = suddenDeath
      BY <2>1, <2>2, <2>4 DEF AdvanceRound
    <3> QED BY <2>3, <2>4, <3>1
  <2>5. CASE ~suddenDeath /\ round >= TotalRounds /\ scores[PlayerA] = scores[PlayerB]
    <3>1. /\ NextRound(<<[Event("phase_update", Players) EXCEPT !.phase = "sudden_death"]>>)
          /\ suddenDeath' = TRUE
      BY <2>1, <2>2, <2>5 DEF AdvanceRound
    <3> QED BY <2>3, <2>5, <3>1
  <2>6. CASE suddenDeath \/ (round >= TotalRounds /\ scores[PlayerA] # scores[PlayerB])
    <3>1. FinishMatch(scores)
      BY <2>1, <2>2, <2>6 DEF AdvanceRound
    <3>2. scores \in [Players -> Nat] /\ scores[PlayerA] # scores[PlayerB]
      BY <1>1, <2>1, <2>6 DEF TypeOK, Core, SuddenDeathIsLast
    <3> QED BY <1>1, <3>1, <3>2, MatchEndsDecided
  <2>7. round < TotalRounds \/ round >= TotalRounds
    BY <2>2
  <2> QED BY <2>4, <2>5, <2>6, <2>7
<1> QED BY <1>2, <1>3, <1>4, <1>5 DEF HandleTimeout

LEMMA TimerKeepsIInv ==
  ASSUME TypeOK, Core, TimerFires
  PROVE  TypeOK' /\ Core'
<1>1. TypeOK'
  BY DEF TimerFires, TypeOK, roundVars, guessVars
<1>2. Core'
  BY DEF TimerFires, Core, Lifecycle, Roles, SuddenDeathIsLast, FairRound, NoTieAtTheEnd,
     TimeoutPending, ReportedOnce, roundVars, guessVars
<1> QED BY <1>1, <1>2

LEMMA SubmitKeepsIInv ==
  ASSUME TypeOK, Core, NEW p \in Players, NEW t \in ActionTypes, NEW o \in Payloads(t),
         Submit(p, t, o)
  PROVE  TypeOK' /\ Core'
<1>1. [from |-> p, type |-> t, object |-> o] \in Action
  BY DEF Payloads, Action
<1>2. actions' \in Seq(Action)
  BY <1>1 DEF Submit, TypeOK
<1>3. /\ ready' \in SUBSET Players /\ tick' = tick
      /\ UNCHANGED <<status, phase, roundVars, scores, roundHistory, guessVars, armed, reported>>
  BY DEF Submit, TypeOK
<1> QED BY <1>2, <1>3, MatchUntouched
-----------------------------------------------------------------------------
(* The theorems.                                                           *)

(* NewRoom's state satisfies the invariant.                                *)
LEMMA InitIInv ==
  ASSUME Init
  PROVE  IInv
<1>1. TypeOK
  <2>1. round \in 0 .. TotalRounds + 1
    BY NumbersAssumption DEF Init
  <2>2. guessesRemaining \in [Players -> 0 .. GuessAttempts]
    BY NumbersAssumption DEF Init
  <2>3. /\ guessedWrong \in [Players -> Seq(ObjectIDs)] /\ actions \in Seq(Action)
        /\ reported \in Seq(MatchRow) /\ roundHistory \in Seq(RoundResult)
    BY DEF Init
  <2>4. scores \in [Players -> Nat] /\ objects \in [Players -> SUBSET Pool]
    BY DEF Init
  <2> QED BY <2>1, <2>2, <2>3, <2>4 DEF Init, TypeOK, Phases
<1>2. Core
  BY NumbersAssumption DEF Init, Core, Lifecycle, Roles, SuddenDeathIsLast, FairRound,
     NoTieAtTheEnd, TimeoutPending, ReportedOnce
<1> QED BY <1>1, <1>2 DEF IInv, Core

(* Every handler, timeout and message preserves it.                        *)
LEMMA StepIInv ==
  ASSUME IInv, [Next]_vars
  PROVE  IInv'
<1>1. TypeOK /\ Core
  BY DEF IInv, Core
<1>2. CASE UNCHANGED vars
  <2>1. /\ ready' \in SUBSET Players /\ actions' \in Seq(Action) /\ tick' = tick
        /\ UNCHANGED <<status, phase, roundVars, scores, roundHistory, guessVars, armed, reported>>
    BY <1>1, <1>2 DEF vars, TypeOK
  <2> QED BY <1>1, <2>1, MatchUntouched DEF IInv, Core
<1>3. CASE HandleAction
  <2>1. TypeOK' /\ Core'
    BY <1>1, <1>3, SetReadyKeepsIInv, ResyncKeepsIInv, StealKeepsIInv, GuessKeepsIInv,
       LeaveKeepsIInv DEF HandleAction
  <2> QED BY <2>1 DEF IInv, Core
<1>4. CASE HandleTimeout
  BY <1>1, <1>4, TimeoutKeepsIInv DEF IInv, Core
<1>5. CASE TimerFires
  BY <1>1, <1>5, TimerKeepsIInv DEF IInv, Core
<1>6. CASE \E p \in Players, t \in ActionTypes : \E o \in Payloads(t) : Submit(p, t, o)
  BY <1>1, <1>6, SubmitKeepsIInv DEF IInv, Core
<1> QED BY <1>2, <1>3, <1>4, <1>5, <1>6 DEF Next

(* The invariant holds in every reachable state of the room.               *)
THEOREM Invariant == Spec => []IInv
<1>1. Init => IInv
  BY InitIInv
<1>2. IInv /\ [Next]_vars => IInv'
  BY StepIInv
<1> QED BY <1>1, <1>2, PTL DEF Spec

(* Type correctness; in particular no match has more than TotalRounds + 1  *)
(* rounds, because sudden death is never followed by another round.        *)
THEOREM TypeCorrect == Spec => []TypeOK
<1>1. IInv => TypeOK
  BY DEF IInv
<1> QED BY <1>1, Invariant, PTL

(* finishMatch never has to break a tie: sudden death starts level and is  *)
(* worth one point, and a walkover puts the remaining player ahead.        *)
THEOREM NeverATie == Spec => []NoTieAtTheEnd
<1>1. IInv => NoTieAtTheEnd
  BY DEF IInv
<1> QED BY <1>1, Invariant, PTL

(* No match is left without a running timer or a tick to take: handleSteal,*)
(* handleTimeout and the others re-arm in every phase they begin, and the  *)
(* AFK steal always has an object to take, because the pool holds two      *)
(* full draws.                                                             *)
THEOREM NeverStuck == Spec => []TimeoutPending
<1>1. IInv => TimeoutPending
  BY DEF IInv
<1> QED BY <1>1, Invariant, PTL

(* Both draws of a round are full and disjoint and the stolen object is    *)
(* one of the guesser's, through every action of the round.                *)
THEOREM RoundsAreFair == Spec => []FairRound
<1>1. IInv => FairRound
  BY DEF IInv
<1> QED BY <1>1, Invariant, PTL

(* finishMatch runs at most once and reports the final scores.             *)
THEOREM OneReport == Spec => []ReportedOnce
<1>1. IInv => ReportedOnce
  BY DEF IInv
<1> QED BY <1>1, Invariant, PTL

-----------------------------------------------------------------------------
(* Action properties.                                                      *)

(* A player who leaves a running match loses it.                           *)
THEOREM LeavingLoses == Spec => LeaverLoses
<1>1. ASSUME IInv, [Next]_vars, NEW p \in Players,
             status = "in_progress", status' = "completed",
             actions # <<>>, actions' = Tail(actions),
             Head(actions).type = "leave_room", Head(actions).from = p
      PROVE  scores'[Opponent(p)] > scores'[p]
  <2>1. TypeOK /\ From = p
    BY <1>1 DEF IInv, From
  <2>2. actions \in Seq(Action) /\ Len(Tail(actions)) = Len(actions) - 1 /\ actions' # actions
    BY <1>1, <2>1 DEF TypeOK
  <2>3. CASE HandleLeave
    <3>1. FinishMatch(WalkoverScores(p))
      BY <1>1, <2>1, <2>3 DEF HandleLeave
    <3> QED BY <1>1, <2>1, <3>1, WalkoverIsWon DEF FinishMatch
  <2>4. ~HandleSetReady /\ ~HandleResync /\ ~HandleSteal /\ ~HandleGuess
    BY <1>1 DEF HandleSetReady, HandleResync, HandleSteal, HandleGuess, Receive
  <2>5. ~HandleTimeout
    BY <2>2 DEF HandleTimeout, MemorizationOver, StealTimeout, GuessTimeout, ResultShown, Expire
  <2>6. ~TimerFires /\ ~UNCHANGED vars
    BY <2>2 DEF TimerFires, vars
  <2>7. ASSUME NEW q \in Players, NEW t \in ActionTypes, NEW o \in Payloads(t)
        PROVE  ~Submit(q, t, o)
    BY <1>1 DEF Submit
  <2> QED BY <1>1, <2>3, <2>4, <2>5, <2>6, <2>7 DEF Next, HandleAction
<1>2. IInv /\ [Next]_vars =>
        [\A p \in Players :
           (/\ status = "in_progress" /\ status' = "completed"
            /\ actions # <<>> /\ actions' = Tail(actions)
            /\ Head(actions).type = "leave_room" /\ Head(actions).from = p)
           => scores'[Opponent(p)] > scores'[p]]_vars
  BY <1>1
<1> QED BY <1>2, Invariant, PTL DEF Spec, LeaverLoses

(* Nothing changes a match that has ended.                                 *)
THEOREM EndsForGood == Spec => EndIsFinal
<1>1. ASSUME [Next]_vars, status \in {"completed", "abandoned"}
      PROVE  UNCHANGED <<status, phase, scores, roundHistory, reported, out>>
  <2>0. ~Running
    BY <1>1 DEF Running
  <2>1. ~HandleAction
    BY <2>0 DEF HandleAction, HandleSetReady, HandleResync, HandleSteal, HandleGuess,
       HandleLeave, Receive
  <2>2. ~HandleTimeout
    BY <2>0 DEF HandleTimeout, MemorizationOver, StealTimeout, GuessTimeout, ResultShown, Expire
  <2>3. TimerFires => UNCHANGED <<status, phase, scores, roundHistory, reported, out>>
    BY DEF TimerFires
  <2>4. ASSUME NEW p \in Players, NEW t \in ActionTypes, NEW o \in Payloads(t), Submit(p, t, o)
        PROVE  UNCHANGED <<status, phase, scores, roundHistory, reported, out>>
    BY <2>4 DEF Submit
  <2>5. UNCHANGED vars => UNCHANGED <<status, phase, scores, roundHistory, reported, out>>
    BY DEF vars
  <2> QED BY <1>1, <2>1, <2>2, <2>3, <2>4, <2>5 DEF Next
<1>2. [Next]_vars =>
        [(status \in {"completed", "abandoned"}) =>
           UNCHANGED <<status, phase, scores, roundHistory, reported, out>>]_vars
  BY <1>1
<1> QED BY <1>2, PTL DEF Spec, EndIsFinal

-----------------------------------------------------------------------------
(* Refinement.                                                             *)

(* The bar of MatchScore: each step of the room is one of its steps or none*)
(* that it sees.                                                           *)
LEMMA SameRules ==
  /\ Score!Players = Players
  /\ \A p : Score!Rival(p) = Opponent(p)
  /\ Score!Level <=> scores[PlayerA] = scores[PlayerB]
BY DEF Score!Players, Players, Score!Rival, Opponent, Score!Level

LEMMA MapsToStutter ==
  ASSUME UNCHANGED <<status, round, stealer, scores>>,
         phase \in {"round_result", "completed"} <=> phase' \in {"round_result", "completed"}
  PROVE  UNCHANGED Score!matchVars
BY DEF Score!matchVars

LEMMA MapsToAward ==
  ASSUME IInv, phase = "guessing", NEW correct \in BOOLEAN, NEW afk, ResolveGuess(correct, afk)
  PROVE  Score!Award
<1> DEFINE pointTo == IF correct THEN guesser ELSE stealer
<1>1. status = "in_progress" /\ pointTo \in Players
  BY TwoPlayers DEF IInv, Lifecycle, Roles
<1>2. /\ scores' = [scores EXCEPT ![pointTo] = @ + 1] /\ phase' = "round_result"
      /\ UNCHANGED <<status, round, stealer>>
  BY DEF ResolveGuess, WithPoint, roundVars
<1> QED BY <1>1, <1>2, SameRules DEF Score!Award

LEMMA MapsToNextRound ==
  ASSUME IInv, phase = "round_result", status = "in_progress", NEW announcement,
         NextRound(announcement),
         round < TotalRounds \/ (round = TotalRounds /\ scores[PlayerA] = scores[PlayerB])
  PROVE  Score!NextRound
<1>1. stealer \in Players /\ guesser = Opponent(stealer) /\ guesser \in Players
  BY TwoPlayers DEF IInv, Roles
<1>2. stealer' = guesser /\ phase' = "memorization"
  BY <1>1, MemorizationBegins DEF NextRound
<1>3. round' = round + 1 /\ UNCHANGED <<status, scores>>
  BY DEF NextRound
<1> QED BY <1>1, <1>2, <1>3, SameRules DEF Score!NextRound

LEMMA TimeoutMaps ==
  ASSUME IInv, HandleTimeout
  PROVE  Score!Next \/ UNCHANGED Score!matchVars
<1>1. status = "in_progress"
  BY DEF HandleTimeout, MemorizationOver, StealTimeout, GuessTimeout, ResultShown, Expire,
         IInv, Lifecycle
<1>2. CASE MemorizationOver
  BY <1>2, MapsToStutter DEF MemorizationOver, Expire, BeginStealing, roundVars
<1>3. CASE StealTimeout
  BY <1>3, MapsToStutter DEF StealTimeout, Expire, ApplySteal, roundVars
<1>4. CASE GuessTimeout
  BY <1>4, MapsToAward DEF GuessTimeout, Expire, Score!Next
<1>5. CASE ResultShown
  <2>1. phase = "round_result" /\ AdvanceRound
    BY <1>5 DEF ResultShown, Expire
  <2>2. round \in Nat /\ TotalRounds \in Nat
    BY NumbersAssumption DEF IInv, TypeOK
  <2>3. CASE \E announcement : /\ NextRound(announcement)
                              /\ \/ round < TotalRounds
                                 \/ ~suddenDeath /\ round >= TotalRounds
                                    /\ scores[PlayerA] = scores[PlayerB]
    <3>1. PICK announcement : /\ NextRound(announcement)
                              /\ \/ round < TotalRounds
                                 \/ ~suddenDeath /\ round >= TotalRounds
                                    /\ scores[PlayerA] = scores[PlayerB]
      BY <2>3
    <3>2. round < TotalRounds \/ (round = TotalRounds /\ scores[PlayerA] = scores[PlayerB])
      BY <2>2, <3>1 DEF IInv, SuddenDeathIsLast
    <3> QED BY <1>1, <2>1, <3>1, <3>2, MapsToNextRound DEF Score!Next
  <2>4. CASE /\ suddenDeath \/ (round >= TotalRounds /\ scores[PlayerA] # scores[PlayerB])
             /\ FinishMatch(scores)
    <3>1. round >= TotalRounds /\ scores[PlayerA] # scores[PlayerB]
      BY <1>1, <2>1, <2>2, <2>4 DEF IInv, SuddenDeathIsLast
    <3>2. /\ phase' = "completed" /\ status' = "completed" /\ scores' = scores
          /\ UNCHANGED <<round, stealer>>
      BY <2>4 DEF FinishMatch, roundVars
    <3>3. Score!Finish
      BY <1>1, <2>1, <3>1, <3>2, SameRules DEF Score!Finish
    <3> QED BY <3>3 DEF Score!Next
  <2> QED BY <2>1, <2>3, <2>4 DEF AdvanceRound
<1> QED BY <1>2, <1>3, <1>4, <1>5 DEF HandleTimeout

LEMMA ActionMaps ==
  ASSUME IInv, HandleAction
  PROVE  Score!Next \/ UNCHANGED Score!matchVars
<1>1. CASE HandleSetReady
  <2>1. CASE status = "waiting" /\ StartMatch(<<RoomState>>)
    <3>1. /\ stealer' \in Players /\ phase' = "memorization"
          /\ round' = 1 /\ status' = "in_progress" /\ scores' = scores
      BY <2>1 DEF StartMatch, BeginMemorization
    <3>2. phase = "none"
      BY <2>1 DEF IInv, Lifecycle
    <3>3. Score!Start
      BY <2>1, <3>1, <3>2, SameRules DEF Score!Start
    <3> QED BY <3>3 DEF Score!Next
  <2>2. CASE UNCHANGED <<status, phase, roundVars, scores>>
    BY <2>2, MapsToStutter DEF roundVars
  <2> QED BY <1>1, <2>1, <2>2 DEF HandleSetReady
<1>2. CASE HandleResync
  BY <1>2, MapsToStutter DEF HandleResync, roundVars
<1>3. CASE HandleSteal
  BY <1>3, MapsToStutter DEF HandleSteal, StealAccepted, ApplySteal, roundVars
<1>4. CASE HandleGuess
  <2>1. CASE \E correct \in BOOLEAN : GuessAccepted /\ ResolveGuess(correct, FALSE)
    BY <2>1, MapsToAward DEF GuessAccepted, Score!Next
  <2>2. CASE UNCHANGED <<status, phase, roundVars, scores>>
    BY <2>2, MapsToStutter DEF roundVars
  <2> QED BY <1>4, <2>1, <2>2 DEF HandleGuess, WrongGuess
<1>5. CASE HandleLeave
  <2>1. From \in Players /\ Running /\ TypeOK
    BY <1>5, ReceivedAction DEF HandleLeave, ActionTypes, IInv
  <2>2. CASE status # "in_progress"
    <3>1. status = "waiting" /\ phase = "none"
      BY <2>1, <2>2 DEF Running, TypeOK, IInv, Lifecycle
    <3>2. status' = "abandoned" /\ UNCHANGED <<phase, round, stealer, scores>>
      BY <1>5, <2>2 DEF HandleLeave, roundVars
    <3>3. Score!Abandon
      BY <3>1, <3>2 DEF Score!Abandon
    <3> QED BY <3>3 DEF Score!Next
  <2>3. CASE status = "in_progress"
    <3>1. FinishMatch(WalkoverScores(From))
      BY <1>5, <2>3 DEF HandleLeave
    <3>2. /\ status' = "completed" /\ phase' = "completed" /\ scores' = WalkoverScores(From)
          /\ UNCHANGED <<round, stealer>>
      BY <3>1 DEF FinishMatch, roundVars
    <3>3. scores[Opponent(From)] \in Nat /\ scores[From] \in Nat
      BY <2>1, TwoPlayers DEF TypeOK
    <3>4. \/ scores[Opponent(From)] > scores[From] /\ scores' = scores
          \/ /\ scores[Opponent(From)] <= scores[From]
             /\ scores' = [scores EXCEPT ![Opponent(From)] = scores[From] + 1]
      BY <3>2, <3>3 DEF WalkoverScores
    <3>5. Score!Forfeit
      BY <2>1, <2>3, <3>2, <3>4, SameRules DEF Score!Forfeit
    <3> QED BY <3>5 DEF Score!Next
  <2> QED BY <2>2, <2>3
<1> QED BY <1>1, <1>2, <1>3, <1>4, <1>5 DEF HandleAction

(* The room plays by the rules of the abstract match, whatever its players *)
(* send and whenever its timer fires.                                      *)
THEOREM Refinement == Spec => ImplementsMatchScore
<1>1. Init => Score!Init
  BY SameRules DEF Init, Score!Init
<1>2. ASSUME IInv, [Next]_vars
      PROVE  [Score!Next]_(Score!matchVars)
  <2>1. CASE UNCHANGED vars
    BY <2>1, MapsToStutter DEF vars, roundVars
  <2>2. CASE HandleAction
    BY <1>2, <2>2, ActionMaps
  <2>3. CASE HandleTimeout
    BY <1>2, <2>3, TimeoutMaps
  <2>4. CASE TimerFires
    BY <2>4, MapsToStutter DEF TimerFires, roundVars
  <2>5. CASE \E p \in Players, t \in ActionTypes : \E o \in Payloads(t) : Submit(p, t, o)
    BY <2>5, MapsToStutter DEF Submit, roundVars
  <2> QED BY <1>2, <2>1, <2>2, <2>3, <2>4, <2>5 DEF Next
<1>3. IInv /\ [Next]_vars => [Score!Next]_(Score!matchVars)
  BY <1>2
<1> QED BY <1>1, <1>3, Invariant, PTL DEF Spec, ImplementsMatchScore, Score!Spec
=============================================================================
