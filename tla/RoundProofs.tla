---------------------------- MODULE RoundProofs ----------------------------
(***************************************************************************)
(* The books of a match, for every value of GameRoom's constants: whose    *)
(* turn it is, what the history says of the scores, the attempts of a      *)
(* guess, and whom the objects are shown to.  And the life of the room     *)
(* around them: it is the one that Hub takes rooms to have (RoomLife).     *)
(*                                                                         *)
(* None of the handlers touches more than a part of the books.  StepKinds  *)
(* sorts the steps by that part, with the invariant of GameRoomProofs, and *)
(* the properties are then proved of five kinds of step instead of twelve  *)
(* handlers.                                                               *)
(***************************************************************************)
EXTENDS GameRoomProofs, SequenceTheorems

InPlay == {"memorization", "stealing", "guessing"}

(* No point, round or role changes, and the round is neither decided nor   *)
(* begun.                                                                  *)
NothingScored ==
  /\ UNCHANGED <<status, round, stealer, guesser, scores, roundHistory>>
  /\ phase \in InPlay <=> phase' \in InPlay

MatchStarts ==
  /\ status = "waiting" /\ status' = "in_progress"
  /\ phase' = "memorization" /\ round' = 1
  /\ stealer' \in Players /\ guesser' = Opponent(stealer')
  /\ UNCHANGED <<scores, roundHistory>>

RoundDecided ==
  /\ phase = "guessing"
  /\ \E correct \in BOOLEAN, afk \in BOOLEAN : ResolveGuess(correct, afk)

RoundBegins ==
  /\ phase = "round_result" /\ status = "in_progress" /\ status' = status
  /\ phase' = "memorization" /\ round' = round + 1
  /\ stealer' = guesser /\ guesser' = stealer
  /\ UNCHANGED <<scores, roundHistory>>

MatchOver == status' \notin {"waiting", "in_progress"}

(* The kinds of step that handleAction and handleTimeout come down to.     *)
LEMMA StepKinds ==
  ASSUME IInv, [Next]_vars
  PROVE  NothingScored \/ MatchStarts \/ RoundDecided \/ RoundBegins \/ MatchOver
<1>1. CASE UNCHANGED vars \/ TimerFires
  BY <1>1 DEF vars, TimerFires, NothingScored, roundVars
<1>2. CASE \E p \in Players, t \in ActionTypes : \E o \in Payloads(t) : Submit(p, t, o)
  BY <1>2 DEF Submit, NothingScored, roundVars
<1>3. CASE HandleAction
  <2>1. CASE HandleSetReady
    <3>1. CASE status = "waiting" /\ StartMatch(<<RoomState>>)
      BY <3>1 DEF StartMatch, BeginMemorization, MatchStarts
    <3>2. CASE UNCHANGED <<status, phase, roundVars, scores, roundHistory>>
      BY <3>2 DEF NothingScored, roundVars
    <3> QED BY <2>1, <3>1, <3>2 DEF HandleSetReady
  <2>2. CASE HandleResync
    BY <2>2 DEF HandleResync, NothingScored, roundVars
  <2>3. CASE HandleSteal
    BY <2>3 DEF HandleSteal, StealAccepted, ApplySteal, NothingScored, InPlay, roundVars
  <2>4. CASE HandleGuess
    <3>1. CASE \E correct \in BOOLEAN : GuessAccepted /\ ResolveGuess(correct, FALSE)
      BY <3>1 DEF GuessAccepted, RoundDecided
    <3>2. CASE UNCHANGED <<status, phase, roundVars, scores, roundHistory>>
      BY <3>2 DEF NothingScored, roundVars
    <3> QED BY <2>4, <3>1, <3>2 DEF HandleGuess, WrongGuess
  <2>5. CASE HandleLeave
    BY <2>5 DEF HandleLeave, FinishMatch, MatchOver
  <2> QED BY <1>3, <2>1, <2>2, <2>3, <2>4, <2>5 DEF HandleAction
<1>4. CASE HandleTimeout
  <2>1. CASE MemorizationOver
    BY <2>1 DEF MemorizationOver, Expire, BeginStealing, NothingScored, InPlay, roundVars
  <2>2. CASE StealTimeout
    BY <2>2 DEF StealTimeout, Expire, ApplySteal, NothingScored, InPlay, roundVars
  <2>3. CASE GuessTimeout
    BY <2>3 DEF GuessTimeout, Expire, RoundDecided
  <2>4. CASE ResultShown
    <3>1. phase = "round_result" /\ status = "in_progress" /\ AdvanceRound
      BY <2>4 DEF ResultShown, Expire, IInv, Lifecycle
    <3>2. guesser = Opponent(stealer) /\ stealer \in Players
      BY <3>1 DEF IInv, Roles
    <3>3. CASE \E announcement : NextRound(announcement)
      <4>1. Opponent(guesser) = stealer
        BY <3>2, TwoPlayers
      <4> QED BY <3>1, <3>3, <4>1 DEF NextRound, BeginMemorization, RoundBegins
    <3>4. CASE FinishMatch(scores)
      BY <3>4 DEF FinishMatch, MatchOver
    <3> QED BY <3>1, <3>3, <3>4 DEF AdvanceRound
  <2> QED BY <1>4, <2>1, <2>2, <2>3, <2>4 DEF HandleTimeout
<1> QED BY <1>1, <1>2, <1>3, <1>4 DEF Next

(* What a decided round adds to the books.                                 *)
LEMMA RowAdded ==
  ASSUME IInv, RoundDecided
  PROVE  /\ status = "in_progress" /\ status' = status /\ phase' = "round_result"
         /\ round \in Nat /\ stealer \in Players /\ guesser \in Players
         /\ UNCHANGED <<round, stealer, guesser>>
         /\ \E row \in RoundResult :
              /\ row.roundNumber = round /\ row.stealer = stealer
              /\ row.pointTo \in {stealer, guesser}
              /\ roundHistory' = Append(roundHistory, row)
              /\ scores' = [scores EXCEPT ![row.pointTo] = @ + 1]
<1>1. PICK correct \in BOOLEAN, afk \in BOOLEAN : ResolveGuess(correct, afk)
  BY DEF RoundDecided
<1> DEFINE pointTo == IF correct THEN guesser ELSE stealer
           row == [roundNumber |-> round, stealer |-> stealer, guesser |-> guesser,
                   stolen |-> stolen, correct |-> correct, pointTo |-> pointTo]
<1>2. /\ phase = "guessing" /\ status = "in_progress" /\ stealer \in Players
      /\ guesser \in Players
  BY TwoPlayers DEF RoundDecided, IInv, Lifecycle, Roles
<1>3. stolen \in Pool /\ round \in Nat
  BY <1>2, NumbersAssumption DEF IInv, FairRound, TypeOK
<1>4. row \in RoundResult /\ pointTo \in {stealer, guesser}
  BY <1>2, <1>3 DEF RoundResult
<1>5. /\ phase' = "round_result" /\ UNCHANGED <<status, round, stealer, guesser>>
      /\ roundHistory' = Append(roundHistory, row)
      /\ scores' = [scores EXCEPT ![pointTo] = @ + 1]
  BY <1>1 DEF ResolveGuess, WithPoint, roundVars
<1>6. row.roundNumber = round /\ row.stealer = stealer /\ row.pointTo = pointTo
  OBVIOUS
<1> HIDE DEF row, pointTo
<1> QED BY <1>2, <1>3, <1>4, <1>5, <1>6

-----------------------------------------------------------------------------
(* Turns and points.                                                       *)

(* Before the match there is nothing in the books.                         *)
Unwritten == status = "waiting" => roundHistory = <<>>

Books == Unwritten /\ RolesAlternate /\ ScoreIsHistory

(* The rounds that gave p a point.                                         *)
PointsOf(p, h) == {i \in DOMAIN h : h[i].pointTo = p}

LEMMA PointsFinite ==
  ASSUME NEW h \in Seq(RoundResult), NEW p
  PROVE  IsFiniteSet(PointsOf(p, h)) /\ Cardinality(PointsOf(p, h)) \in Nat
<1>1. DOMAIN h = 1 .. Len(h) /\ Len(h) \in Nat
  OBVIOUS
<1>2. IsFiniteSet(1 .. Len(h))
  BY <1>1, FS_Interval
<1> QED BY <1>1, <1>2, FS_Subset, FS_CardinalityType DEF PointsOf

(* One more row is one more point for the player it favours.               *)
LEMMA OneMorePoint ==
  ASSUME NEW h \in Seq(RoundResult), NEW row \in RoundResult, NEW p
  PROVE  Cardinality(PointsOf(p, Append(h, row))) =
           Cardinality(PointsOf(p, h)) + (IF row.pointTo = p THEN 1 ELSE 0)
<1> DEFINE g == Append(h, row)
<1>1. /\ Len(h) \in Nat /\ DOMAIN h = 1 .. Len(h) /\ DOMAIN g = 1 .. Len(h) + 1
      /\ \A i \in 1 .. Len(h) : g[i] = h[i]
      /\ g[Len(h) + 1] = row
  OBVIOUS
<1>2. IsFiniteSet(PointsOf(p, h)) /\ Cardinality(PointsOf(p, h)) \in Nat
  BY PointsFinite
<1> HIDE DEF g
<1>3. CASE row.pointTo = p
  <2>1. PointsOf(p, g) = PointsOf(p, h) \cup {Len(h) + 1} /\ Len(h) + 1 \notin PointsOf(p, h)
    BY <1>1, <1>3 DEF PointsOf
  <2>2. Cardinality(PointsOf(p, g)) = Cardinality(PointsOf(p, h)) + 1
    BY <1>2, <2>1, FS_AddElement
  <2> QED BY <1>3, <2>2 DEF g
<1>4. CASE row.pointTo # p
  <2>1. PointsOf(p, g) = PointsOf(p, h)
    BY <1>1, <1>4 DEF PointsOf
  <2> QED BY <1>2, <1>4, <2>1 DEF g
<1> QED BY <1>3, <1>4

LEMMA InitBooks ==
  ASSUME Init
  PROVE  Books
BY DEF Init, Books, Unwritten, RolesAlternate, ScoreIsHistory

(* advanceRound swaps the roles, so that the alternation goes on.          *)
LEMMA BooksOfNextRound ==
  ASSUME IInv, Books, RoundBegins
  PROVE  Books'
<1>1. /\ status = "in_progress" /\ round \in Nat /\ roundHistory \in Seq(RoundResult)
      /\ stealer \in Players /\ guesser = Opponent(stealer) /\ stealer = Opponent(guesser)
  BY TwoPlayers, NumbersAssumption DEF RoundBegins, IInv, TypeOK, Roles
<1>2. /\ Len(roundHistory) = round /\ Len(roundHistory) \in Nat
      /\ \A i \in 1 .. Len(roundHistory) :
           /\ roundHistory[i].roundNumber = i
           /\ roundHistory[i].stealer = IF (round - i) % 2 = 0 THEN stealer ELSE guesser
  BY <1>1 DEF Books, RolesAlternate, RoundBegins
<1>3. /\ phase' = "memorization" /\ round' = round + 1 /\ stealer' = guesser
      /\ guesser' = stealer /\ status' = status
      /\ roundHistory' = roundHistory /\ scores' = scores
  BY DEF RoundBegins
<1>4. \A i \in 1 .. Len(roundHistory) :
        roundHistory[i].stealer = IF (round + 1 - i) % 2 = 0 THEN guesser ELSE stealer
  <2>1. \A i \in 1 .. Len(roundHistory) : (round + 1 - i) % 2 = 0 <=> (round - i) % 2 # 0
    BY <1>1, <1>2
  <2> QED BY <1>2, <2>1
<1>5. RolesAlternate'
  <2>1. Len(roundHistory') + 1 = round' /\ guesser' = Opponent(stealer')
    BY <1>1, <1>2, <1>3
  <2>2. \A i \in 1 .. Len(roundHistory') :
           /\ roundHistory'[i].roundNumber = i
           /\ roundHistory'[i].stealer = IF (round' - i) % 2 = 0 THEN stealer' ELSE guesser'
    BY <1>2, <1>3, <1>4
  <2> QED BY <1>3, <2>1, <2>2 DEF RolesAlternate
<1>6. ScoreIsHistory'
  BY <1>1, <1>3 DEF Books, ScoreIsHistory
<1> QED BY <1>1, <1>3, <1>5, <1>6 DEF Books, Unwritten

(* resolveGuess writes the round, under its number, and its point.         *)
LEMMA BooksOfDecidedRound ==
  ASSUME IInv, Books, RoundDecided
  PROVE  Books'
<1>1. /\ status = "in_progress" /\ status' = status /\ phase' = "round_result"
      /\ round \in Nat /\ stealer \in Players /\ guesser \in Players
      /\ UNCHANGED <<round, stealer, guesser>>
  BY RowAdded
<1>2. PICK row \in RoundResult :
        /\ row.roundNumber = round /\ row.stealer = stealer
        /\ row.pointTo \in {stealer, guesser}
        /\ roundHistory' = Append(roundHistory, row)
        /\ scores' = [scores EXCEPT ![row.pointTo] = @ + 1]
  BY RowAdded
<1>3. roundHistory \in Seq(RoundResult) /\ scores \in [Players -> Nat] /\ phase = "guessing"
  BY DEF IInv, TypeOK, RoundDecided
<1>4. /\ guesser = Opponent(stealer)
      /\ Len(roundHistory) + 1 = round /\ Len(roundHistory) \in Nat
      /\ \A i \in 1 .. Len(roundHistory) :
           /\ roundHistory[i].roundNumber = i
           /\ roundHistory[i].stealer = IF (round - i) % 2 = 0 THEN stealer ELSE guesser
  BY <1>1, <1>3 DEF Books, RolesAlternate
<1>5. /\ Len(roundHistory') = round
      /\ \A i \in 1 .. Len(roundHistory) : roundHistory'[i] = roundHistory[i]
      /\ roundHistory'[round] = row
  BY <1>2, <1>3, <1>4
<1>6. RolesAlternate'
  <2>1. ASSUME NEW i \in 1 .. round
        PROVE  /\ roundHistory'[i].roundNumber = i
               /\ roundHistory'[i].stealer = IF (round - i) % 2 = 0 THEN stealer ELSE guesser
    <3>1. CASE i = round
      <4>1. (round - i) % 2 = 0
        BY <1>1, <3>1
      <4> QED BY <1>2, <1>5, <3>1, <4>1
    <3>2. CASE i # round
      <4>1. i \in 1 .. Len(roundHistory)
        BY <1>1, <1>4, <3>2
      <4> QED BY <1>4, <1>5, <4>1
    <3> QED BY <3>1, <3>2
  <2>2. Len(roundHistory') + 0 = round' /\ guesser' = Opponent(stealer')
    BY <1>1, <1>4, <1>5
  <2>3. \A i \in 1 .. Len(roundHistory') :
           /\ roundHistory'[i].roundNumber = i
           /\ roundHistory'[i].stealer = IF (round' - i) % 2 = 0 THEN stealer' ELSE guesser'
    BY <1>1, <1>5, <2>1
  <2> QED BY <1>1, <2>2, <2>3 DEF RolesAlternate
<1>7. ScoreIsHistory'
  <2>1. ASSUME NEW p \in Players
        PROVE  scores'[p] = Cardinality(PointsOf(p, roundHistory'))
    <3>1. scores[p] = Cardinality(PointsOf(p, roundHistory))
      BY <1>1 DEF Books, ScoreIsHistory, PointsOf
    <3>2. Cardinality(PointsOf(p, roundHistory')) =
            Cardinality(PointsOf(p, roundHistory)) + (IF row.pointTo = p THEN 1 ELSE 0)
      BY <1>2, <1>3, OneMorePoint
    <3>3. row.pointTo \in Players
      BY <1>1, <1>2
    <3>4. scores'[p] = scores[p] + (IF row.pointTo = p THEN 1 ELSE 0)
      BY <1>2, <1>3, <3>3
    <3> QED BY <3>1, <3>2, <3>4
  <2> QED BY <2>1 DEF ScoreIsHistory, PointsOf
<1> QED BY <1>1, <1>6, <1>7 DEF Books, Unwritten

LEMMA StepBooks ==
  ASSUME IInv, Books, [Next]_vars
  PROVE  Books'
<1>1. CASE NothingScored
  BY <1>1 DEF NothingScored, InPlay, Books, Unwritten, RolesAlternate, ScoreIsHistory
<1>2. CASE MatchStarts
  <2>1. roundHistory' = <<>> /\ status' = "in_progress" /\ scores' = [p \in Players |-> 0]
    BY <1>2 DEF MatchStarts, Books, Unwritten, IInv, Lifecycle
  <2>2. RolesAlternate'
    BY <1>2, <2>1 DEF MatchStarts, RolesAlternate
  <2>3. ScoreIsHistory'
    <3>1. \A p \in Players : {i \in DOMAIN roundHistory' : roundHistory'[i].pointTo = p} = {}
      BY <2>1
    <3> QED BY <2>1, <3>1, FS_EmptySet DEF ScoreIsHistory
  <2> QED BY <2>1, <2>2, <2>3 DEF Books, Unwritten
<1>3. CASE RoundDecided
  BY <1>3, BooksOfDecidedRound
<1>4. CASE RoundBegins
  BY <1>4, BooksOfNextRound
<1>5. CASE MatchOver
  BY <1>5 DEF MatchOver, Books, Unwritten, RolesAlternate, ScoreIsHistory
<1> QED BY <1>1, <1>2, <1>3, <1>4, <1>5, StepKinds

LEMMA BooksKept == Spec => []Books
<1>1. IInv /\ Books /\ [Next]_vars => Books'
  BY StepBooks
<1> QED BY <1>1, InitBooks, Invariant, PTL DEF Spec

(* The roles change hands after every round, sudden death included, and    *)
(* the history numbers the rounds without a gap.                           *)
THEOREM TurnsAlternate == Spec => []RolesAlternate
<1>1. Books => RolesAlternate
  BY DEF Books
<1> QED BY <1>1, BooksKept, PTL

(* The score of a running match is the points of its history.              *)
THEOREM EveryPointOnce == Spec => []ScoreIsHistory
<1>1. Books => ScoreIsHistory
  BY DEF Books
<1> QED BY <1>1, BooksKept, PTL

-----------------------------------------------------------------------------
(* Attempts.                                                               *)

(* applySteal, by the stealer or by the room: a full allowance and an empty*)
(* list of wrong guesses.                                                  *)
LEMMA FreshAllowance ==
  ASSUME IInv, phase = "stealing", NEW o, ApplySteal(o)
  PROVE  AttemptsAccounted'
<1>1. guesser \in Players /\ GuessAttempts \in Nat \ {0}
  BY TwoPlayers, NumbersAssumption DEF IInv, Lifecycle, Roles
<1>2. /\ guesser' = guesser
      /\ guessesRemaining' = [guessesRemaining EXCEPT ![guesser] = GuessAttempts]
      /\ guessedWrong' = [guessedWrong EXCEPT ![guesser] = <<>>]
  BY DEF ApplySteal, FreshAttempts, ClearWrongGuesses, roundVars
<1>3. guessesRemaining'[guesser] = GuessAttempts /\ guessedWrong'[guesser] = <<>>
  BY <1>1, <1>2 DEF IInv, TypeOK
<1> QED BY <1>1, <1>2, <1>3 DEF AttemptsAccounted

(* A wrong guess goes from the attempts to the list.                       *)
LEMMA AttemptUsed ==
  ASSUME IInv, AttemptsAccounted, GuessAccepted, Picked # stolen, Picked \in ObjectIDs, WrongGuess
  PROVE  AttemptsAccounted'
<1>1. /\ phase = "guessing" /\ guesser \in Players /\ guessesRemaining[guesser] \in Nat
      /\ guessedWrong[guesser] \in Seq(ObjectIDs)
  BY TwoPlayers, NumbersAssumption DEF GuessAccepted, IInv, Lifecycle, Roles, TypeOK
<1>2. CASE ResolveGuess(FALSE, FALSE)
  BY <1>2 DEF ResolveGuess, AttemptsAccounted
<1>3. CASE UNCHANGED <<status, phase, roundVars, scores, roundHistory, stolen, armed, reported>>
           /\ guessesRemaining'[guesser] > 0
  <2>1. /\ guesser' = guesser /\ stolen' = stolen
        /\ guessesRemaining'[guesser] = guessesRemaining[guesser] - 1
        /\ guessedWrong'[guesser] = Append(guessedWrong[guesser], Picked)
    BY <1>1, <1>3 DEF WrongGuess, IInv, TypeOK, roundVars
  <2>2. /\ Len(guessedWrong'[guesser]) = Len(guessedWrong[guesser]) + 1
        /\ \A i \in DOMAIN guessedWrong'[guesser] :
             guessedWrong'[guesser][i] = Picked \/
             (i \in DOMAIN guessedWrong[guesser] /\ guessedWrong'[guesser][i] = guessedWrong[guesser][i])
    BY <1>1, <2>1
  <2>3. /\ guessesRemaining[guesser] + Len(guessedWrong[guesser]) = GuessAttempts
        /\ \A i \in DOMAIN guessedWrong[guesser] : guessedWrong[guesser][i] # stolen
    BY <1>1 DEF AttemptsAccounted
  <2>4. Len(guessedWrong[guesser]) \in Nat /\ GuessAttempts \in Nat
    BY <1>1, NumbersAssumption
  <2> QED BY <1>1, <1>3, <2>1, <2>2, <2>3, <2>4 DEF AttemptsAccounted
<1> QED BY <1>2, <1>3 DEF WrongGuess, roundVars

LEMMA StepAttempts ==
  ASSUME IInv, AttemptsAccounted, [Next]_vars
  PROVE  AttemptsAccounted'
<1>1. CASE UNCHANGED <<phase, guesser, guessVars>>
  BY <1>1 DEF AttemptsAccounted, guessVars
<1>2. CASE phase' # "guessing"
  BY <1>2 DEF AttemptsAccounted
<1>3. CASE UNCHANGED vars \/ TimerFires
  BY <1>1, <1>3 DEF vars, TimerFires, roundVars
<1>4. CASE \E p \in Players, t \in ActionTypes : \E o \in Payloads(t) : Submit(p, t, o)
  BY <1>1, <1>4 DEF Submit, roundVars
<1>5. CASE HandleAction
  <2>1. CASE HandleSetReady
    BY <1>1, <1>2, <2>1 DEF HandleSetReady, StartMatch, BeginMemorization, roundVars
  <2>2. CASE HandleResync
    BY <1>1, <2>2 DEF HandleResync, roundVars
  <2>3. CASE HandleSteal
    BY <1>1, <2>3, FreshAllowance DEF HandleSteal, StealAccepted, roundVars
  <2>4. CASE HandleGuess
    <3>1. Picked \in ObjectIDs
      BY <2>4, ReceivedAction DEF HandleGuess, ActionTypes, Payloads, IInv
    <3> QED BY <1>1, <1>2, <2>4, <3>1, AttemptUsed DEF HandleGuess, ResolveGuess, roundVars
  <2>5. CASE HandleLeave
    BY <1>1, <1>2, <2>5 DEF HandleLeave, FinishMatch, roundVars
  <2> QED BY <1>5, <2>1, <2>2, <2>3, <2>4, <2>5 DEF HandleAction
<1>6. CASE HandleTimeout
  <2>1. CASE StealTimeout
    BY <1>1, <2>1, FreshAllowance DEF StealTimeout, Expire, roundVars
  <2>2. CASE MemorizationOver \/ GuessTimeout
    BY <1>2, <2>2 DEF MemorizationOver, BeginStealing, GuessTimeout, ResolveGuess
  <2>3. CASE ResultShown
    BY <1>2, <2>3 DEF ResultShown, AdvanceRound, NextRound, BeginMemorization, FinishMatch
  <2> QED BY <1>6, <2>1, <2>2, <2>3 DEF HandleTimeout
<1> QED BY <1>3, <1>4, <1>5, <1>6 DEF Next

(* During a guess the attempts left and the wrong guesses of this round    *)
(* make up the allowance.                                                  *)
THEOREM AttemptsAddUp == Spec => []AttemptsAccounted
<1>1. Init => AttemptsAccounted
  BY DEF Init, AttemptsAccounted
<1>2. IInv /\ AttemptsAccounted /\ [Next]_vars => AttemptsAccounted'
  BY StepAttempts
<1> QED BY <1>1, <1>2, Invariant, PTL DEF Spec

-----------------------------------------------------------------------------
(* Whom the objects are shown to.                                          *)

(* An event e that shows nobody more than their role allows when the phase *)
(* is ph, the roles are st and gs, and the objects are obj.                *)
Proper(e, ph, st, gs, obj) ==
  \A p \in e.to :
    e.type = "phase_update" /\ e.shown # {} =>
      \/ e.shown = obj[p]
      \/ ph = "stealing" /\ p = st /\ e.shown = obj[gs]

ProperNext(e) == Proper(e, phase', stealer', guesser', objects')

LEMMA AllProper ==
  ASSUME \A i \in DOMAIN out' : ProperNext(out'[i])
  PROVE  ObjectsKeptFromOpponent'
BY DEF ObjectsKeptFromOpponent, Proper, ProperNext

(* The fields of the events that name objects, and of those that do not.   *)
LEMMA EventFields ==
  /\ \A type, to : Event(type, to).shown = {}
  /\ \A p, ph, shown : /\ PhaseUpdate(p, ph, shown).to = {p}
                       /\ PhaseUpdate(p, ph, shown).shown = shown
BY DEF Event, PhaseUpdate

LEMMA ShowsNothing ==
  ASSUME NEW e, e.shown = {} \/ e.type # "phase_update"
  PROVE  ProperNext(e)
BY DEF Proper, ProperNext

LEMMA ShowsTheirOwn ==
  ASSUME NEW p, NEW ph, NEW shown, shown = {} \/ shown = objects'[p]
  PROVE  ProperNext(PhaseUpdate(p, ph, shown))
BY EventFields DEF Proper, ProperNext

(* The two updates of a new round show each player their own, and what is  *)
(* announced before them shows nothing.                                    *)
LEMMA NewRoundIsProper ==
  ASSUME NEW st, NEW S, NEW announcement \in Seq(S), \A a \in S : a.shown = {},
         BeginMemorization(st, announcement)
  PROVE  ObjectsKeptFromOpponent'
<1> DEFINE own(p) == PhaseUpdate(p, "memorization", objects'[p])
           T == S \cup {own(PlayerA), own(PlayerB)}
<1>1. out' = announcement \o <<own(PlayerA), own(PlayerB)>>
  BY DEF BeginMemorization, MemorizationUpdates
<1>2. ProperNext(own(PlayerA)) /\ ProperNext(own(PlayerB))
  BY ShowsTheirOwn
<1> HIDE DEF own
<1>3. \A e \in T : ProperNext(e)
  BY <1>2, ShowsNothing
<1>4. announcement \in Seq(T) /\ <<own(PlayerA), own(PlayerB)>> \in Seq(T)
  BY SeqMonotonic
<1> HIDE DEF T
<1>5. out' \in Seq(T)
  BY <1>1, <1>4, ConcatProperties
<1>6. \A i \in DOMAIN out' : out'[i] \in T
  BY <1>5, LenProperties
<1> QED BY <1>3, <1>6, AllProper

(* Handlers that send one event or two.                                    *)
LEMMA FewAreProper ==
  ASSUME NEW a, NEW b, ProperNext(a), ProperNext(b), out' = <<a>> \/ out' = <<a, b>>
  PROVE  ObjectsKeptFromOpponent'
<1>1. \A i \in DOMAIN out' : out'[i] \in {a, b}
  OBVIOUS
<1> QED BY <1>1, AllProper

LEMMA OneIsProper ==
  ASSUME NEW a, a.shown = {} \/ a.type # "phase_update", out' = <<a>>
  PROVE  ObjectsKeptFromOpponent'
BY ShowsNothing, FewAreProper

LEMMA ResultIsProper ==
  ASSUME NEW correct, NEW afk, ResolveGuess(correct, afk)
  PROVE  ObjectsKeptFromOpponent'
<1>1. PICK s, a, f : out' = <<[Event("round_result", Players) EXCEPT
                                 !.shown = s, !.afk = a, !.favours = f]>>
  BY DEF ResolveGuess
<1> DEFINE e == [Event("round_result", Players) EXCEPT !.shown = s, !.afk = a, !.favours = f]
<1>2. e.type = "round_result"
  BY DEF Event
<1> HIDE DEF e
<1>3. out' = <<e>>
  BY <1>1 DEF e
<1> QED BY <1>2, <1>3, OneIsProper

LEMMA EndIsProper ==
  ASSUME NEW final, FinishMatch(final)
  PROVE  ObjectsKeptFromOpponent'
<1>1. PICK f : out' = <<[Event("match_complete", Players) EXCEPT !.favours = f]>>
  BY DEF FinishMatch
<1> DEFINE e == [Event("match_complete", Players) EXCEPT !.favours = f]
<1>2. e.type = "match_complete"
  BY DEF Event
<1> HIDE DEF e
<1>3. out' = <<e>>
  BY <1>1 DEF e
<1> QED BY <1>2, <1>3, OneIsProper

(* Guessing begins with the guesser's own objects, and none for the other. *)
LEMMA GuessingIsProper ==
  ASSUME NEW o, ApplySteal(o)
  PROVE  ObjectsKeptFromOpponent'
<1>1. /\ out' = <<PhaseUpdate(guesser, "guessing", objects[guesser]),
                  PhaseUpdate(stealer, "guessing", {})>>
      /\ objects' = objects
  BY DEF ApplySteal, roundVars
<1>2. /\ ProperNext(PhaseUpdate(guesser, "guessing", objects[guesser]))
      /\ ProperNext(PhaseUpdate(stealer, "guessing", {}))
  BY <1>1, ShowsTheirOwn
<1> QED BY <1>1, <1>2, FewAreProper

(* The stealer alone is shown the opponent's objects, while stealing.      *)
LEMMA StealingIsProper ==
  ASSUME BeginStealing
  PROVE  ObjectsKeptFromOpponent'
<1>1. /\ out' = <<PhaseUpdate(stealer, "stealing", objects[guesser]),
                  PhaseUpdate(guesser, "stealing", {})>>
      /\ phase' = "stealing" /\ UNCHANGED <<stealer, guesser, objects>>
  BY DEF BeginStealing, roundVars
<1>2. ProperNext(PhaseUpdate(guesser, "stealing", {}))
  BY ShowsTheirOwn
<1>3. ProperNext(PhaseUpdate(stealer, "stealing", objects[guesser]))
  BY <1>1, EventFields DEF ProperNext, Proper
<1> QED BY <1>1, <1>2, <1>3, FewAreProper

(* sendCurrentPhase repeats what the role is allowed in the phase.         *)
LEMMA ResyncIsProper ==
  ASSUME HandleResync
  PROVE  ObjectsKeptFromOpponent'
<1> DEFINE update == PhaseUpdate(From, phase, ShownOnResync(From))
<1>1. out' = <<RoomState>> \/ out' = <<RoomState, update>>
  BY DEF HandleResync
<1>2. UNCHANGED <<phase, stealer, guesser, objects>>
  BY DEF HandleResync, roundVars
<1>3. ProperNext(RoomState)
  BY EventFields, ShowsNothing DEF RoomState
<1>4. ProperNext(update)
  <2>1. CASE phase = "stealing" /\ From = stealer
    BY <1>2, <2>1, EventFields DEF ProperNext, Proper, ShownOnResync
  <2>2. CASE ~(phase = "stealing" /\ From = stealer)
    <3>1. ShownOnResync(From) = {} \/ ShownOnResync(From) = objects[From]
      BY <2>2 DEF ShownOnResync
    <3> QED BY <1>2, <3>1, ShowsTheirOwn
  <2> QED BY <2>1, <2>2
<1> QED BY <1>1, <1>3, <1>4, FewAreProper

LEMMA StepShown ==
  ASSUME ObjectsKeptFromOpponent, [Next]_vars
  PROVE  ObjectsKeptFromOpponent'
<1>1. CASE UNCHANGED <<phase, stealer, guesser, objects, out>>
  BY <1>1 DEF ObjectsKeptFromOpponent
<1>2. CASE UNCHANGED vars \/ TimerFires
  BY <1>1, <1>2 DEF vars, TimerFires, roundVars
<1>3. CASE \E p \in Players, t \in ActionTypes : \E o \in Payloads(t) : Submit(p, t, o)
  BY <1>1, <1>3 DEF Submit, roundVars
<1>4. CASE \E p : out' = <<Refusal(p)>>
  BY <1>4, EventFields, OneIsProper DEF Refusal
<1>5. CASE HandleSetReady
  <2>1. CASE out' = <<RoomState>>
    BY <2>1, EventFields, OneIsProper DEF RoomState
  <2>2. CASE StartMatch(<<RoomState>>)
    <3> DEFINE start == Event("match_starting", Players)
    <3>1. PICK st \in Players : BeginMemorization(st, Append(<<RoomState>>, start))
      BY <2>2 DEF StartMatch
    <3>2. start.shown = {} /\ RoomState.shown = {}
      BY EventFields DEF RoomState
    <3> HIDE DEF start
    <3>3. Append(<<RoomState>>, start) \in Seq({RoomState, start})
      OBVIOUS
    <3> QED BY <3>1, <3>2, <3>3, NewRoundIsProper
  <2> QED BY <1>5, <2>1, <2>2 DEF HandleSetReady
<1>6. CASE HandleSteal
  BY <1>4, <1>6, GuessingIsProper DEF HandleSteal
<1>7. CASE HandleGuess
  <2>1. CASE WrongGuess
    <3>1. CASE ResolveGuess(FALSE, FALSE)
      BY <3>1, ResultIsProper
    <3>2. CASE /\ out' = <<PhaseUpdate(guesser, "guessing", objects[guesser])>>
               /\ objects' = objects
      <4>1. ProperNext(PhaseUpdate(guesser, "guessing", objects[guesser]))
        BY <3>2, ShowsTheirOwn
      <4> QED BY <3>2, <4>1, FewAreProper
    <3> QED BY <2>1, <3>1, <3>2 DEF WrongGuess, roundVars
  <2> QED BY <1>4, <1>7, <2>1, ResultIsProper DEF HandleGuess
<1>8. CASE HandleLeave
  BY <1>4, <1>8, EndIsProper DEF HandleLeave
<1>9. CASE HandleTimeout
  <2>1. CASE MemorizationOver
    BY <2>1, StealingIsProper DEF MemorizationOver
  <2>2. CASE StealTimeout
    BY <1>1, <2>2, GuessingIsProper DEF StealTimeout, roundVars
  <2>3. CASE GuessTimeout
    BY <2>3, ResultIsProper DEF GuessTimeout
  <2>4. CASE ResultShown
    <3> DEFINE sudden == [Event("phase_update", Players) EXCEPT !.phase = "sudden_death"]
    <3>1. CASE NextRound(<<>>)
      <4>1. BeginMemorization(guesser, <<>>)
        BY <3>1 DEF NextRound
      <4>2. <<>> \in Seq({RoomState}) /\ RoomState.shown = {}
        BY EventFields DEF RoomState
      <4> QED BY <4>1, <4>2, NewRoundIsProper
    <3>2. CASE NextRound(<<sudden>>)
      <4>1. sudden.shown = {}
        BY DEF Event
      <4> HIDE DEF sudden
      <4>2. BeginMemorization(guesser, <<sudden>>) /\ <<sudden>> \in Seq({sudden})
        BY <3>2 DEF NextRound
      <4> QED BY <4>1, <4>2, NewRoundIsProper
    <3> QED BY <2>4, <3>1, <3>2, EndIsProper DEF ResultShown, AdvanceRound
  <2> QED BY <1>9, <2>1, <2>2, <2>3, <2>4 DEF HandleTimeout
<1> QED BY <1>2, <1>3, <1>5, <1>6, <1>7, <1>8, <1>9, ResyncIsProper DEF Next, HandleAction

(* No event shows a player the opponent's objects unless that player is the*)
(* stealer choosing among them.                                            *)
THEOREM OnlyTheStealerLooks == Spec => []ObjectsKeptFromOpponent
<1>1. Init => ObjectsKeptFromOpponent
  BY DEF Init, ObjectsKeptFromOpponent
<1>2. ObjectsKeptFromOpponent /\ [Next]_vars => ObjectsKeptFromOpponent'
  BY StepShown
<1> QED BY <1>1, <1>2, PTL DEF Spec

-----------------------------------------------------------------------------
(* Time.                                                                   *)

(* A step after which a tick is left over that was not before either arms  *)
(* the timer while a tick waits or puts a tick there while the timer runs; *)
(* handleTimeout takes the only tick, and what may come while it runs is   *)
(* the tick of a timer that was running beside it.                         *)
LEMMA LeftByLateAnswers ==
  ASSUME IInv, [Next]_vars, ~LeftOver, LeftOver'
  PROVE  LateAnswer
<1>1. tick' /\ armed' /\ (tick => ~armed)
  BY DEF LeftOver
<1>2. ~(UNCHANGED vars \/ TimerFires)
  BY <1>1 DEF vars, TimerFires
<1>3. ~\E p \in Players, t \in ActionTypes : \E o \in Payloads(t) : Submit(p, t, o)
  BY <1>1 DEF Submit
<1>4. ~HandleTimeout
  <2>1. SUFFICES ASSUME HandleTimeout PROVE FALSE
    OBVIOUS
  <2>2. tick /\ tick' \in {FALSE, armed}
    BY <2>1 DEF HandleTimeout, MemorizationOver, StealTimeout, GuessTimeout, ResultShown, Expire
  <2> QED BY <1>1, <2>2
<1>5. ~HandleSetReady
  BY <1>1 DEF HandleSetReady, Receive, IInv, Lifecycle
<1>6. ~HandleResync
  BY <1>1 DEF HandleResync, Receive
<1>7. ~HandleLeave
  BY <1>1 DEF HandleLeave, FinishMatch
<1>8. CASE HandleSteal
  BY <1>1, <1>8 DEF HandleSteal, Receive, StealAccepted, ApplySteal, LateAnswer
<1>9. CASE HandleGuess
  BY <1>1, <1>9 DEF HandleGuess, GuessAccepted, Receive, WrongGuess, ResolveGuess, LateAnswer
<1> QED BY <1>2, <1>3, <1>4, <1>5, <1>6, <1>7, <1>8, <1>9 DEF Next, HandleAction

(* Whatever the players send and however late the actor is, the channel of *)
(* the timer has a tick of an earlier phase only after an answer that came *)
(* with the expiry of the phase it ended (armTimer of room.go).            *)
THEOREM LeftOverTicksComeOfLateAnswers == Spec => OnlyLateAnswersLeaveTicks
<1>1. IInv /\ [Next]_vars => [~LeftOver /\ LeftOver' => LateAnswer]_vars
  BY LeftByLateAnswers
<1> QED BY <1>1, Invariant, PTL DEF Spec, OnlyLateAnswersLeaveTicks

-----------------------------------------------------------------------------
(* The channel, as the hub sees it.                                        *)

ActionSeen == [from : Players, type : ActionTypes]
ChannelSeen(s) == [i \in DOMAIN s |-> Seen(s[i])]

LEMMA ActionsSeen ==
  ASSUME NEW a \in Action
  PROVE  Seen(a) \in ActionSeen
BY DEF Action, Seen, ActionSeen

LEMMA SeqSeen ==
  ASSUME NEW s \in Seq(Action)
  PROVE  /\ ChannelSeen(s) \in Seq(ActionSeen) /\ Len(ChannelSeen(s)) = Len(s)
         /\ \A i \in 1 .. Len(s) : ChannelSeen(s)[i] = Seen(s[i])
<1>1. Len(s) \in Nat /\ DOMAIN s = 1 .. Len(s) /\ \A i \in 1 .. Len(s) : s[i] \in Action
  OBVIOUS
<1>2. ChannelSeen(s) \in [1 .. Len(s) -> ActionSeen]
  BY <1>1, ActionsSeen DEF ChannelSeen
<1>3. ChannelSeen(s) \in Seq(ActionSeen)
  BY <1>1, <1>2, SeqDef
<1>4. Len(ChannelSeen(s)) = Len(s)
  BY <1>1, <1>2, <1>3, LenProperties
<1> QED BY <1>1, <1>3, <1>4 DEF ChannelSeen

(* What is at the head is taken from the head, and what is put at the end  *)
(* comes last.                                                             *)
LEMMA TakenSeen ==
  ASSUME NEW s \in Seq(Action), s # <<>>
  PROVE  /\ ChannelSeen(s) # <<>>
         /\ Head(ChannelSeen(s)) = Seen(Head(s))
         /\ Tail(ChannelSeen(s)) = ChannelSeen(Tail(s))
<1> DEFINE v == ChannelSeen(s)
<1>1. /\ Tail(s) \in Seq(Action) /\ Len(Tail(s)) = Len(s) - 1 /\ Len(s) \in Nat \ {0}
      /\ \A i \in 1 .. Len(s) - 1 : Tail(s)[i] = s[i + 1]
      /\ Head(s) = s[1]
  BY HeadTailProperties, EmptySeq
<1>2. /\ v \in Seq(ActionSeen) /\ Len(v) = Len(s)
      /\ \A i \in 1 .. Len(s) : v[i] = Seen(s[i])
  BY SeqSeen
<1>3. /\ ChannelSeen(Tail(s)) \in Seq(ActionSeen) /\ Len(ChannelSeen(Tail(s))) = Len(s) - 1
      /\ \A i \in 1 .. Len(s) - 1 : ChannelSeen(Tail(s))[i] = Seen(Tail(s)[i])
  BY <1>1, SeqSeen
<1> HIDE DEF v
<1>4. v # <<>>
  BY <1>1, <1>2
<1>5. /\ Tail(v) \in Seq(ActionSeen) /\ Len(Tail(v)) = Len(s) - 1
      /\ \A i \in 1 .. Len(s) - 1 : Tail(v)[i] = v[i + 1]
      /\ Head(v) = v[1]
  BY <1>2, <1>4, HeadTailProperties
<1>6. Head(v) = Seen(Head(s))
  BY <1>1, <1>2, <1>5
<1>7. \A i \in 1 .. Len(s) - 1 : Tail(v)[i] = ChannelSeen(Tail(s))[i]
  <2> SUFFICES ASSUME NEW i \in 1 .. Len(s) - 1
               PROVE  Tail(v)[i] = ChannelSeen(Tail(s))[i]
    OBVIOUS
  <2>1. i + 1 \in 1 .. Len(s)
    BY <1>1
  <2>2. Tail(v)[i] = Seen(s[i + 1])
    BY <1>2, <1>5, <2>1
  <2>3. ChannelSeen(Tail(s))[i] = Seen(s[i + 1])
    BY <1>1, <1>3
  <2> QED BY <2>2, <2>3
<1>8. Tail(v) = ChannelSeen(Tail(s))
  BY <1>3, <1>5, <1>7, SeqEqual
<1> QED BY <1>4, <1>6, <1>8 DEF v

LEMMA AppendedSeen ==
  ASSUME NEW s \in Seq(Action), NEW a \in Action
  PROVE  ChannelSeen(Append(s, a)) = Append(ChannelSeen(s), Seen(a))
<1> DEFINE v == ChannelSeen(s)
           w == ChannelSeen(Append(s, a))
<1>1. /\ Append(s, a) \in Seq(Action) /\ Len(Append(s, a)) = Len(s) + 1 /\ Len(s) \in Nat
      /\ \A i \in 1 .. Len(s) : Append(s, a)[i] = s[i]
      /\ Append(s, a)[Len(s) + 1] = a
  OBVIOUS
<1>2. /\ v \in Seq(ActionSeen) /\ Len(v) = Len(s) /\ \A i \in 1 .. Len(s) : v[i] = Seen(s[i])
  BY SeqSeen
<1>3. /\ w \in Seq(ActionSeen) /\ Len(w) = Len(s) + 1
      /\ \A i \in 1 .. Len(s) + 1 : w[i] = Seen(Append(s, a)[i])
  BY <1>1, SeqSeen
<1>4. Seen(a) \in ActionSeen
  BY ActionsSeen
<1> HIDE DEF v, w
<1>5. /\ Append(v, Seen(a)) \in Seq(ActionSeen) /\ Len(Append(v, Seen(a))) = Len(s) + 1
      /\ \A i \in 1 .. Len(s) : Append(v, Seen(a))[i] = v[i]
      /\ Append(v, Seen(a))[Len(s) + 1] = Seen(a)
  BY <1>2, <1>4
<1>6. \A i \in 1 .. Len(s) + 1 : w[i] = Append(v, Seen(a))[i]
  BY <1>1, <1>2, <1>3, <1>5
<1>7. w = Append(v, Seen(a))
  BY <1>3, <1>5, <1>6, SeqEqual
<1> QED BY <1>7 DEF v, w

-----------------------------------------------------------------------------
(* The fields of the room's life, and the steps it takes.                  *)

View(st, rd, acts) == [players |-> Players, status |-> st, ready |-> rd, actions |-> acts]

LEMMA ViewIs == HubView = View(status, ready, ChannelSeen(actions))
BY DEF HubView, View, ChannelSeen

LEMMA ViewNext == HubView' = View(status', ready', ChannelSeen(actions'))
BY DEF HubView, View, ChannelSeen

(* A room waits for as long as somebody is not ready.                      *)
WaitsForBoth == status = "waiting" => ready # Players

LEMMA InitWaits ==
  ASSUME Init
  PROVE  WaitsForBoth
BY TwoPlayers DEF Init, WaitsForBoth

LEMMA StepWaits ==
  ASSUME IInv, WaitsForBoth, [Next]_vars
  PROVE  WaitsForBoth'
<1>1. CASE UNCHANGED <<status, ready>>
  BY <1>1 DEF WaitsForBoth
<1>2. CASE UNCHANGED vars \/ TimerFires
  BY <1>1, <1>2 DEF vars, TimerFires
<1>3. CASE \E p \in Players, t \in ActionTypes : \E o \in Payloads(t) : Submit(p, t, o)
  BY <1>1, <1>3 DEF Submit
<1>4. CASE HandleTimeout
  <2>1. status' # "waiting"
    BY <1>4 DEF HandleTimeout, MemorizationOver, StealTimeout, GuessTimeout, ResultShown, Expire,
       BeginStealing, ApplySteal, ResolveGuess, AdvanceRound, NextRound, FinishMatch, IInv, Lifecycle
  <2> QED BY <2>1 DEF WaitsForBoth
<1>5. CASE HandleSetReady
  BY <1>5 DEF HandleSetReady, StartMatch, WaitsForBoth
<1>6. CASE HandleResync \/ HandleSteal \/ HandleGuess
  BY <1>1, <1>6 DEF HandleResync, HandleSteal, HandleGuess, ApplySteal, WrongGuess, ResolveGuess
<1>7. CASE HandleLeave
  BY <1>7 DEF HandleLeave, FinishMatch, WaitsForBoth
<1> QED BY <1>2, <1>3, <1>4, <1>5, <1>6, <1>7 DEF Next, HandleAction

-----------------------------------------------------------------------------
(* What RoomLife lets a room do, said of this room.                        *)

LEMMA LifeOffered ==
  ASSUME IInv, NEW p \in Players, NEW t \in ActionTypes, NEW o \in Payloads(t), Submit(p, t, o)
  PROVE  HubView' = Life!Offered([from |-> p, type |-> t])
<1> DEFINE a == [from |-> p, type |-> t, object |-> o]
<1>1. a \in Action /\ Seen(a) = [from |-> p, type |-> t]
  BY DEF Action, Seen
<1>2. actions \in Seq(Action)
  BY DEF IInv, TypeOK
<1>3. ChannelSeen(actions') = Append(ChannelSeen(actions), [from |-> p, type |-> t])
  BY <1>1, <1>2, AppendedSeen DEF Submit
<1>4. Len(ChannelSeen(actions)) < ActionsCap
  BY <1>2, SeqSeen DEF Submit
<1>5. status' = status /\ ready' = ready
  BY DEF Submit
<1> QED
  BY <1>3, <1>4, <1>5, ViewIs, ViewNext DEF View, Life!Offered, Life!Becomes

LEMMA LifeTaken ==
  ASSUME IInv, WaitsForBoth, actions # <<>>, Running, actions' = Tail(actions),
         ready' = IF Head(actions).type = "set_ready" THEN ready \cup {From} ELSE ready,
         status' = CASE Head(actions).type = "leave_room" /\ status = "waiting" -> "abandoned"
                     [] Head(actions).type = "leave_room" /\ status = "in_progress" -> "completed"
                     [] Head(actions).type # "leave_room" /\ ready' = Players -> "in_progress"
                     [] OTHER -> status
  PROVE  Life!MayTake /\ HubView' = Life!Taken
<1>1. actions \in Seq(Action)
  BY DEF IInv, TypeOK
<1>2. /\ ChannelSeen(actions) # <<>>
      /\ Head(ChannelSeen(actions)) = Seen(Head(actions))
      /\ Tail(ChannelSeen(actions)) = ChannelSeen(actions')
  BY <1>1, TakenSeen
<1>3. HubView.actions = ChannelSeen(actions) /\ HubView.ready = ready
      /\ HubView.status = status /\ HubView.players = Players
  BY ViewIs DEF View
<1>4. Seen(Head(actions)).type = Head(actions).type /\ Seen(Head(actions)).from = From
  BY DEF Seen, From
<1>5. Life!MayTake
  BY <1>2, <1>3 DEF Life!MayTake, Life!Alive, IInv, TypeOK, Running
<1>6. Life!Taken = View(status', ready', ChannelSeen(actions'))
  BY <1>2, <1>3, <1>4 DEF Life!Taken, Life!Becomes, View
<1> QED BY <1>5, <1>6, ViewNext

LEMMA LifePlayed ==
  ASSUME status = "in_progress", status' = "completed", UNCHANGED <<ready, actions>>
  PROVE  Life!MayEnd /\ HubView' = Life!Played
BY ViewIs, ViewNext DEF View, Life!MayEnd, Life!Played, Life!Becomes

LEMMA LifeSame ==
  ASSUME UNCHANGED <<status, ready, actions>>
  PROVE  UNCHANGED HubView
BY ViewIs, ViewNext

-----------------------------------------------------------------------------
(* Every step of the room is one of RoomLife, or nothing that the hub sees.*)

LEMMA LifeStep ==
  ASSUME IInv, WaitsForBoth, [Next]_vars
  PROVE  [Life!Next]_HubView
<1> DEFINE LeavingTo == CASE Head(actions).type = "leave_room" /\ status = "waiting" -> "abandoned"
                     [] Head(actions).type = "leave_room" /\ status = "in_progress" -> "completed"
                     [] Head(actions).type # "leave_room" /\ ready' = Players -> "in_progress"
                     [] OTHER -> status
           GettingReady == IF Head(actions).type = "set_ready" THEN ready \cup {From} ELSE ready
<1>1. CASE UNCHANGED vars \/ TimerFires \/ MemorizationOver \/ StealTimeout \/ GuessTimeout
  <2>1. UNCHANGED <<status, ready, actions>>
    BY <1>1 DEF vars, TimerFires, MemorizationOver, StealTimeout, GuessTimeout, Expire,
       BeginStealing, ApplySteal, ResolveGuess
  <2> QED BY <2>1, LifeSame
<1>2. CASE ResultShown
  <2>1. UNCHANGED <<ready, actions>> /\ status = "in_progress"
    BY <1>2 DEF ResultShown, Expire, IInv, Lifecycle
  <2>2. status' = "completed" \/ UNCHANGED status
    BY <1>2 DEF ResultShown, AdvanceRound, NextRound, FinishMatch
  <2> QED BY <2>1, <2>2, LifeSame, LifePlayed DEF Life!Next
<1>3. CASE \E p \in Players, t \in ActionTypes : \E o \in Payloads(t) : Submit(p, t, o)
  <2>1. PICK p \in Players, t \in ActionTypes : \E o \in Payloads(t) : Submit(p, t, o)
    BY <1>3
  <2>2. HubView' = Life!Offered([from |-> p, type |-> t])
    BY <2>1, LifeOffered
  <2>3. HubView.players = Players
    BY ViewIs DEF View
  <2> QED BY <2>2, <2>3 DEF Life!Next, ActionTypes
<1>4. CASE HandleAction
  <2>1. Running /\ actions # <<>> /\ actions' = Tail(actions)
    BY <1>4 DEF HandleAction, HandleSetReady, HandleResync, HandleSteal, HandleGuess, HandleLeave, Receive
  <2>2. ready' = GettingReady
    BY <1>4 DEF HandleAction, HandleSetReady, HandleResync, HandleSteal, HandleGuess, HandleLeave, Receive
  <2>3. status' = LeavingTo
    <3>1. status = "waiting" \/ status = "in_progress"
      BY <2>1 DEF Running, IInv, TypeOK
    <3>2. CASE HandleSetReady
      <4>1. Head(actions).type = "set_ready"
        BY <3>2 DEF HandleSetReady, Receive
      <4>2. CASE ready' = Players /\ status = "waiting"
        BY <3>2, <4>1, <4>2 DEF HandleSetReady, StartMatch
      <4>3. CASE ready' # Players \/ status # "waiting"
        <5>1. status' = status
          BY <3>2, <4>3 DEF HandleSetReady
        <5> QED BY <3>1, <4>1, <4>3, <5>1
      <4> QED BY <4>2, <4>3
    <3>3. CASE HandleResync \/ HandleSteal \/ HandleGuess
      <4>1. Head(actions).type \notin {"leave_room", "set_ready"}
        BY <3>3 DEF HandleResync, HandleSteal, HandleGuess, Receive
      <4>2. status' = status
        BY <3>3 DEF HandleResync, HandleSteal, HandleGuess, ApplySteal, WrongGuess, ResolveGuess
      <4>3. status = "waiting" => ready' # Players
        BY <2>2, <4>1 DEF WaitsForBoth
      <4> QED BY <3>1, <4>1, <4>2, <4>3
    <3>4. CASE HandleLeave
      <4>1. Head(actions).type = "leave_room"
        BY <3>4 DEF HandleLeave, Receive
      <4>2. status' = IF status = "in_progress" THEN "completed" ELSE "abandoned"
        BY <3>4 DEF HandleLeave, FinishMatch
      <4> QED BY <3>1, <4>1, <4>2
    <3> QED BY <1>4, <3>2, <3>3, <3>4 DEF HandleAction
  <2> QED BY <2>1, <2>2, <2>3, LifeTaken DEF Life!Next
<1> QED BY <1>1, <1>2, <1>3, <1>4 DEF Next, HandleTimeout

LEMMA LifeStarts ==
  ASSUME Init
  PROVE  Life!Init
<1>1. HubView.status = "waiting" /\ HubView.ready = {} /\ HubView.actions = ChannelSeen(<<>>)
  BY ViewIs DEF View, Init
<1>2. ChannelSeen(<<>>) = <<>>
  BY DEF ChannelSeen
<1> QED BY <1>1, <1>2 DEF Life!Init

(* What the hub takes a room for is what a room is: it takes actions in    *)
(* their order until it is over, starts when both players are ready, and   *)
(* takes nothing once it is over (Room.Run of room.go, forwardToRoom of    *)
(* hub.go).                                                                *)
THEOREM RoomLivesAsTheHubExpects == Spec => ImplementsRoomLife
<1>1. Init => WaitsForBoth /\ Life!Init
  BY InitWaits, LifeStarts
<1>2. IInv /\ WaitsForBoth /\ [Next]_vars => WaitsForBoth' /\ [Life!Next]_HubView
  BY StepWaits, LifeStep
<1> QED BY <1>1, <1>2, Invariant, PTL DEF Spec, ImplementsRoomLife, Life!Spec

-----------------------------------------------------------------------------
(* The time a running match has left.  Two steps of the clock to a phase:  *)
(* the timer fires, and its tick is taken.                                 *)

PhaseNumber == CASE phase = "memorization" -> 0 [] phase = "stealing" -> 1
                 [] phase = "guessing" -> 2     [] OTHER -> 3

(* The phases gone by since the room was made, four to a round.            *)
PhasesGone == 4 * round + PhaseNumber

(* The clock's steps that are left, but for the very last one, until the   *)
(* result of sudden death has been shown, should it come to that.          *)
TimeLeft == 2 * (4 * (TotalRounds + 1) + 3 - PhasesGone) + (IF armed THEN 1 ELSE 0)

ClockSteps == TimerFires \/ HandleTimeout

(* A handler that goes from one phase of a running match to the next one.  *)
GoesOn ==
  /\ armed' = TRUE
  /\ \/ phase = "memorization" /\ phase' = "stealing" /\ round' = round
     \/ phase = "stealing" /\ phase' = "guessing" /\ round' = round
     \/ phase = "guessing" /\ phase' = "round_result" /\ round' = round
     \/ phase = "round_result" /\ phase' = "memorization" /\ round' = round + 1

(* What a step of the room comes down to for its clock.                    *)
LEMMA ClockKinds ==
  ASSUME IInv, [Next]_vars, status = "in_progress", status' = "in_progress"
  PROVE  \/ GoesOn
         \/ ~ClockSteps /\ UNCHANGED <<phase, round, armed>>
         \/ armed /\ ~armed' /\ UNCHANGED <<phase, round>>
<1>0. CASE HandleTimeout
  <2>1. CASE MemorizationOver
    BY <2>1 DEF MemorizationOver, Expire, BeginStealing, ArmTimer, GoesOn, roundVars
  <2>2. CASE StealTimeout
    <3>1. phase = "stealing" /\ guesser \in Players
      BY <2>2, TwoPlayers DEF StealTimeout, Expire, IInv, Roles
    <3>2. objects[guesser] \in SUBSET Pool /\ Cardinality(objects[guesser]) = ObjectCount
      BY <3>1 DEF IInv, TypeOK, FairRound
    <3>3. objects[guesser] # {}
      BY <3>2, SomethingToSteal
    <3> QED BY <2>2, <3>1, <3>3 DEF StealTimeout, ApplySteal, ArmTimer, GoesOn, roundVars
  <2>3. CASE GuessTimeout
    BY <2>3 DEF GuessTimeout, Expire, ResolveGuess, ArmTimer, GoesOn, roundVars
  <2>4. CASE ResultShown
    BY <2>4 DEF ResultShown, Expire, AdvanceRound, NextRound, BeginMemorization, ArmTimer, FinishMatch, GoesOn
  <2> QED BY <1>0, <2>1, <2>2, <2>3, <2>4 DEF HandleTimeout
<1>1. CASE ~HandleTimeout /\ UNCHANGED <<phase, round, armed>>
  BY <1>1 DEF ClockSteps, TimerFires
<1>2. CASE TimerFires
  BY <1>2 DEF TimerFires, roundVars
<1>3. CASE \E p \in Players, t \in ActionTypes : \E o \in Payloads(t) : Submit(p, t, o)
  <2>1. UNCHANGED <<phase, round, armed>>
    BY <1>3 DEF Submit, roundVars
  <2> QED BY <1>0, <1>1, <2>1
<1>4. CASE UNCHANGED vars
  BY <1>0, <1>1, <1>4 DEF vars, roundVars
<1>5. CASE HandleAction
  <2>1. ~ClockSteps
    <3>1. actions' = Tail(actions) /\ actions # <<>> /\ tick' = tick
      BY <1>5 DEF HandleAction, HandleSetReady, HandleResync, HandleSteal, HandleGuess, HandleLeave, Receive
    <3>2. actions' # actions
      BY <3>1 DEF IInv, TypeOK
    <3> QED BY <3>2 DEF ClockSteps, TimerFires, HandleTimeout, MemorizationOver, StealTimeout,
            GuessTimeout, ResultShown, Expire
  <2>2. CASE UNCHANGED <<phase, round, armed>>
    BY <2>1, <2>2
  <2>3. CASE HandleSetReady \/ HandleResync
    BY <2>1, <2>3 DEF HandleSetReady, HandleResync, roundVars
  <2>4. CASE HandleSteal
    BY <2>1, <2>4 DEF HandleSteal, StealAccepted, ApplySteal, ArmTimer, GoesOn, roundVars
  <2>5. CASE HandleGuess
    BY <2>1, <2>5 DEF HandleGuess, GuessAccepted, WrongGuess, ResolveGuess, ArmTimer, GoesOn, roundVars
  <2>6. CASE HandleLeave
    BY <2>6 DEF HandleLeave, FinishMatch
  <2> QED BY <1>5, <2>3, <2>4, <2>5, <2>6 DEF HandleAction
<1> QED BY <1>0, <1>2, <1>3, <1>4, <1>5 DEF Next

LEMMA TimeIsBounded ==
  ASSUME IInv, status = "in_progress"
  PROVE  TimeLeft \in Nat /\ round \in Nat /\ PhaseNumber \in 0 .. 3
<1>1. round \in 0 .. TotalRounds + 1 /\ TotalRounds \in Nat
  BY NumbersAssumption DEF IInv, TypeOK
<1>2. PhaseNumber \in 0 .. 3
  BY DEF PhaseNumber
<1>3. (IF armed THEN 1 ELSE 0) \in {0, 1}
  OBVIOUS
<1> QED BY <1>1, <1>2, <1>3 DEF TimeLeft, PhasesGone

LEMMA TimePasses ==
  ASSUME IInv, [Next]_vars, status = "in_progress", status' = "in_progress"
  PROVE  /\ TimeLeft' <= TimeLeft
         /\ ClockSteps => TimeLeft' < TimeLeft
<1> DEFINE Hand == IF armed THEN 1 ELSE 0
<1>1. Hand \in {0, 1} /\ Hand' \in {0, 1}
  OBVIOUS
<1>2. /\ round \in Nat /\ PhaseNumber \in 0 .. 3 /\ TotalRounds \in Nat
      /\ TimeLeft = 2 * (4 * (TotalRounds + 1) + 3 - (4 * round + PhaseNumber)) + Hand
      /\ TimeLeft' = 2 * (4 * (TotalRounds + 1) + 3 - (4 * round' + PhaseNumber')) + Hand'
  BY TimeIsBounded, NumbersAssumption DEF TimeLeft, PhasesGone
<1>3. CASE GoesOn
  <2>1. \/ round' = round /\ PhaseNumber' = PhaseNumber + 1
        \/ round' = round + 1 /\ PhaseNumber = 3 /\ PhaseNumber' = 0
    BY <1>3 DEF GoesOn, PhaseNumber
  <2> HIDE DEF Hand
  <2>2. TimeLeft' < TimeLeft
    BY <1>1, <1>2, <2>1
  <2>3. TimeLeft' \in Int /\ TimeLeft \in Int
    BY <1>1, <1>2, <2>1
  <2> QED BY <2>2, <2>3
<1>4. CASE ~ClockSteps /\ UNCHANGED <<phase, round, armed>>
  <2>1. Hand' = Hand /\ PhaseNumber' = PhaseNumber /\ round' = round
    BY <1>4 DEF PhaseNumber
  <2> HIDE DEF Hand
  <2> QED BY <1>1, <1>2, <1>4, <2>1
<1>5. CASE armed /\ ~armed' /\ UNCHANGED <<phase, round>>
  <2>1. Hand = 1 /\ Hand' = 0 /\ PhaseNumber' = PhaseNumber /\ round' = round
    BY <1>5 DEF PhaseNumber
  <2> HIDE DEF Hand
  <2> QED BY <1>1, <1>2, <2>1
<1> QED BY <1>3, <1>4, <1>5, ClockKinds

TimeRunsOut ==
  /\ [](status = "in_progress" => TimeLeft \in Nat /\ (armed \/ tick))
  /\ [][(status = "in_progress" /\ status' = "in_progress") =>
          /\ TimeLeft' <= TimeLeft
          /\ ClockSteps => TimeLeft' < TimeLeft]_vars

(* Whatever the players do or fail to do, they do not hold a match up:     *)
(* while it runs the timer runs or its tick waits, every step of the clock *)
(* brings the end nearer, and no step, no late or refused action and no    *)
(* re-armed timer either, puts it off (armTimer and handleTimeout of       *)
(* room.go).  The end of MatchEnds is at most TimeLeft + 1 of the clock's  *)
(* steps away, two for each of the phases.                                 *)
THEOREM NobodyHoldsItUp == Spec => TimeRunsOut
<1>1. IInv => (status = "in_progress" => TimeLeft \in Nat /\ (armed \/ tick))
  BY TimeIsBounded DEF IInv, TimeoutPending
<1>2. IInv /\ [Next]_vars =>
        [(status = "in_progress" /\ status' = "in_progress") =>
          /\ TimeLeft' <= TimeLeft
          /\ ClockSteps => TimeLeft' < TimeLeft]_vars
  BY TimePasses
<1> QED BY <1>1, <1>2, Invariant, PTL DEF Spec, TimeRunsOut

-----------------------------------------------------------------------------
(* How the players keep up with the match.                                 *)

(* The phase that an event makes its receiver show.                        *)
PhaseTold(e) == CASE e.type = "phase_update"   -> e.phase
                  [] e.type = "round_result"   -> "round_result"
                  [] e.type = "match_complete" -> "completed"
                  [] OTHER                     -> "none"

(* The last that p hears of the latest handler is that the phase is ph.    *)
HearsLast(p, ph) ==
  \E i \in DOMAIN out : /\ p \in out[i].to /\ PhaseTold(out[i]) = ph
                        /\ \A j \in DOMAIN out : j > i => p \notin out[j].to

EveryPhaseTold ==
  [][(phase' # phase \/ round' # round) => \A p \in Players : HearsLast(p, phase)']_vars

LEMMA UpdateTells ==
  ASSUME NEW p, NEW ph, NEW shown
  PROVE  PhaseUpdate(p, ph, shown).to = {p} /\ PhaseTold(PhaseUpdate(p, ph, shown)) = ph
<1>1. /\ PhaseUpdate(p, ph, shown).to = {p}
      /\ PhaseUpdate(p, ph, shown).type = "phase_update"
      /\ PhaseUpdate(p, ph, shown).phase = ph
  BY DEF Event, PhaseUpdate
<1> QED BY <1>1 DEF PhaseTold

(* One event for both, or one for each of them at the end of the list.     *)
LEMMA BothHearOne ==
  ASSUME NEW e, e.to = Players, PhaseTold(e) = phase', out' = <<e>>
  PROVE  \A p \in Players : HearsLast(p, phase)'
<1>1. DOMAIN out' = {1} /\ out'[1] = e
  OBVIOUS
<1> QED BY <1>1 DEF HearsLast

LEMMA EachHearsTheirs ==
  ASSUME NEW S, NEW announcement \in Seq(S), NEW a, NEW b, NEW q, NEW r,
         a.to = {q}, b.to = {r}, q # r, Players = {q, r},
         PhaseTold(a) = phase', PhaseTold(b) = phase',
         out' = announcement \o <<a, b>>
  PROVE  \A p \in Players : HearsLast(p, phase)'
<1> DEFINE n == Len(announcement)
<1>1. n \in Nat /\ DOMAIN out' = 1 .. n + 2 /\ out'[n + 1] = a /\ out'[n + 2] = b
  OBVIOUS
<1> HIDE DEF n
<1>2. HearsLast(q, phase)'
  <2>1. \A j \in DOMAIN out' : j > n + 1 => q \notin out'[j].to
    BY <1>1
  <2>2. n + 1 \in DOMAIN out' /\ q \in out'[n + 1].to /\ PhaseTold(out'[n + 1]) = phase'
    BY <1>1
  <2> QED BY <2>1, <2>2 DEF HearsLast
<1>3. HearsLast(r, phase)'
  <2>1. \A j \in DOMAIN out' : ~(j > n + 2)
    BY <1>1
  <2>2. n + 2 \in DOMAIN out' /\ r \in out'[n + 2].to /\ PhaseTold(out'[n + 2]) = phase'
    BY <1>1
  <2> QED BY <2>1, <2>2 DEF HearsLast
<1> QED BY <1>2, <1>3

LEMMA MemorizationTold ==
  ASSUME NEW st, NEW S, NEW announcement \in Seq(S), BeginMemorization(st, announcement)
  PROVE  \A p \in Players : HearsLast(p, phase)'
<1> DEFINE own(p) == PhaseUpdate(p, "memorization", objects'[p])
<1>1. out' = announcement \o <<own(PlayerA), own(PlayerB)>> /\ phase' = "memorization"
  BY DEF BeginMemorization, MemorizationUpdates
<1>2. /\ own(PlayerA).to = {PlayerA} /\ PhaseTold(own(PlayerA)) = "memorization"
      /\ own(PlayerB).to = {PlayerB} /\ PhaseTold(own(PlayerB)) = "memorization"
  BY UpdateTells
<1> HIDE DEF own
<1> QED BY <1>1, <1>2, EachHearsTheirs, PlayersAssumption DEF Players

(* An update for each role, when the roles are given out.                  *)
LEMMA RolesTold ==
  ASSUME NEW q, NEW r, NEW s, NEW t, NEW ph, Players = {q, r}, q # r, phase' = ph,
         out' = <<PhaseUpdate(q, ph, s), PhaseUpdate(r, ph, t)>>
  PROVE  \A p \in Players : HearsLast(p, phase)'
<1> DEFINE a == PhaseUpdate(q, ph, s)
           b == PhaseUpdate(r, ph, t)
<1>1. a.to = {q} /\ b.to = {r} /\ PhaseTold(a) = ph /\ PhaseTold(b) = ph
  BY UpdateTells
<1>2. out' = <<a, b>>
  OBVIOUS
<1> HIDE DEF a, b
<1>3. <<>> \in Seq({a}) /\ out' = <<>> \o <<a, b>>
  BY <1>2
<1> QED BY <1>1, <1>3, EachHearsTheirs

LEMMA ResultTold ==
  ASSUME NEW correct, NEW afk, ResolveGuess(correct, afk)
  PROVE  \A p \in Players : HearsLast(p, phase)'
<1>1. PICK s, a, f : out' = <<[Event("round_result", Players) EXCEPT
                                 !.shown = s, !.afk = a, !.favours = f]>>
  BY DEF ResolveGuess
<1> DEFINE e == [Event("round_result", Players) EXCEPT !.shown = s, !.afk = a, !.favours = f]
<1>2. e.to = Players /\ e.type = "round_result"
  BY DEF Event
<1> HIDE DEF e
<1>3. out' = <<e>> /\ phase' = "round_result"
  BY <1>1 DEF e, ResolveGuess
<1>4. PhaseTold(e) = "round_result"
  BY <1>2 DEF PhaseTold
<1> QED BY <1>2, <1>3, <1>4, BothHearOne

LEMMA EndTold ==
  ASSUME NEW final, FinishMatch(final)
  PROVE  \A p \in Players : HearsLast(p, phase)'
<1>1. PICK f : out' = <<[Event("match_complete", Players) EXCEPT !.favours = f]>>
  BY DEF FinishMatch
<1> DEFINE e == [Event("match_complete", Players) EXCEPT !.favours = f]
<1>2. e.to = Players /\ e.type = "match_complete"
  BY DEF Event
<1> HIDE DEF e
<1>3. out' = <<e>> /\ phase' = "completed"
  BY <1>1 DEF e, FinishMatch
<1>4. PhaseTold(e) = "completed"
  BY <1>2 DEF PhaseTold
<1> QED BY <1>2, <1>3, <1>4, BothHearOne

LEMMA StepTold ==
  ASSUME IInv, [Next]_vars, phase' # phase \/ round' # round
  PROVE  \A p \in Players : HearsLast(p, phase)'
<1>1. phase \in {"memorization", "stealing"} => Players = {stealer, guesser} /\ stealer # guesser
  BY TwoPlayers, PlayersAssumption DEF IInv, Lifecycle, Roles, Players, Opponent
<1>2. ~(UNCHANGED vars) /\ ~TimerFires
  BY DEF vars, TimerFires, roundVars
<1>3. ~(\E p \in Players, t \in ActionTypes : \E o \in Payloads(t) : Submit(p, t, o))
  BY DEF Submit, roundVars
<1>4. CASE HandleSetReady
  <2>1. StartMatch(<<RoomState>>)
    BY <1>4 DEF HandleSetReady, roundVars
  <2> DEFINE start == Event("match_starting", Players)
  <2>2. PICK st \in Players : BeginMemorization(st, Append(<<RoomState>>, start))
    BY <2>1 DEF StartMatch
  <2> HIDE DEF start
  <2>3. Append(<<RoomState>>, start) \in Seq({RoomState, start})
    OBVIOUS
  <2> QED BY <2>2, <2>3, MemorizationTold
<1>5. ~HandleResync
  BY DEF HandleResync, roundVars
<1>6. \A o : phase = "stealing" /\ ApplySteal(o) => \A p \in Players : HearsLast(p, phase)'
  BY <1>1, RolesTold DEF ApplySteal
<1>7. CASE HandleSteal
  <2>1. StealAccepted /\ ApplySteal(Picked)
    BY <1>7 DEF HandleSteal, roundVars
  <2> QED BY <1>6, <2>1 DEF StealAccepted
<1>8. CASE HandleGuess
  <2>1. ResolveGuess(TRUE, FALSE) \/ ResolveGuess(FALSE, FALSE)
    BY <1>8 DEF HandleGuess, WrongGuess, roundVars
  <2> QED BY <2>1, ResultTold
<1>9. CASE HandleLeave
  <2>1. FinishMatch(WalkoverScores(From))
    BY <1>9 DEF HandleLeave, roundVars
  <2> QED BY <2>1, EndTold
<1>10. CASE MemorizationOver
  <2>1. phase = "memorization" /\ BeginStealing
    BY <1>10 DEF MemorizationOver, Expire
  <2> QED BY <1>1, <2>1, RolesTold DEF BeginStealing
<1>11. CASE StealTimeout
  <2>1. phase = "stealing" /\ \E o \in objects[guesser] : ApplySteal(o)
    BY <1>11 DEF StealTimeout, Expire, roundVars
  <2> QED BY <1>6, <2>1
<1>12. CASE GuessTimeout
  BY <1>12, ResultTold DEF GuessTimeout
<1>13. CASE ResultShown
  <2> DEFINE sudden == [Event("phase_update", Players) EXCEPT !.phase = "sudden_death"]
  <2>1. CASE NextRound(<<>>)
    <3>1. BeginMemorization(guesser, <<>>) /\ <<>> \in Seq({RoomState})
      BY <2>1 DEF NextRound
    <3> QED BY <3>1, MemorizationTold
  <2>2. CASE NextRound(<<sudden>>)
    <3> HIDE DEF sudden
    <3>1. BeginMemorization(guesser, <<sudden>>) /\ <<sudden>> \in Seq({sudden})
      BY <2>2 DEF NextRound
    <3> QED BY <3>1, MemorizationTold
  <2> QED BY <1>13, <2>1, <2>2, EndTold DEF ResultShown, AdvanceRound
<1> QED BY <1>2, <1>3, <1>4, <1>5, <1>7, <1>8, <1>9, <1>10, <1>11, <1>12, <1>13
        DEF Next, HandleAction, HandleTimeout

(* Whatever moves a match on, a player, the clock or a player who leaves,  *)
(* the handler ends by telling each of the two players the new phase: no   *)
(* announcement of a round, of sudden death or of a result comes after it, *)
(* and nobody is left on the page of a phase that is over (the emit calls  *)
(* of room.go).                                                            *)
THEOREM BothHearOfEveryPhase == Spec => EveryPhaseTold
<1>1. IInv /\ [Next]_vars =>
        [(phase' # phase \/ round' # round) => \A p \in Players : HearsLast(p, phase)']_vars
  BY StepTold
<1> QED BY <1>1, Invariant, PTL DEF Spec, EveryPhaseTold

-----------------------------------------------------------------------------
(* The order of the phases.                                                *)

(* The steps that Delivery takes its room to make, in the room's own       *)
(* words: StartMatch, then one phase after the other, and HandleLeave.     *)
InOrder ==
  \/ UNCHANGED <<status, phase, round>>
  \/ status = "waiting" /\ status' = "in_progress" /\ phase' = "memorization" /\ round' = 1
  \/ status = "waiting" /\ status' = "abandoned" /\ UNCHANGED <<phase, round>>
  \/ status = "in_progress" /\ status' = status /\ GoesOn
  \/ /\ status = "in_progress" /\ status' = "completed" /\ phase' = "completed"
     /\ UNCHANGED round
     /\ phase = "round_result" \/ (actions # <<>> /\ Head(actions).type = "leave_room")

LEMMA StepsInOrder ==
  ASSUME IInv, [Next]_vars
  PROVE  InOrder
<1>1. CASE status = "in_progress" /\ status' = "in_progress"
  BY <1>1, ClockKinds DEF InOrder
<1>2. CASE UNCHANGED <<status, phase, round>>
  BY <1>2 DEF InOrder
<1>3. CASE HandleSetReady
  <2>1. CASE status = "waiting" /\ StartMatch(<<RoomState>>)
    BY <2>1 DEF StartMatch, BeginMemorization, InOrder
  <2> QED BY <1>2, <1>3, <2>1 DEF HandleSetReady, roundVars
<1>4. CASE HandleLeave
  <2>1. actions # <<>> /\ Head(actions).type = "leave_room" /\ status \in {"waiting", "in_progress"}
    BY <1>4 DEF HandleLeave, Receive, Running, IInv, TypeOK
  <2> QED BY <1>4, <2>1 DEF HandleLeave, FinishMatch, roundVars, InOrder
<1>5. CASE HandleTimeout
  <2>1. status = "in_progress"
    BY <1>5 DEF IInv, Lifecycle, HandleTimeout, MemorizationOver, StealTimeout, GuessTimeout,
       ResultShown, Expire
  <2>2. status' = status \/ ResultShown
    BY <1>5 DEF HandleTimeout, MemorizationOver, StealTimeout, GuessTimeout, BeginStealing,
       ApplySteal, ResolveGuess
  <2>3. CASE ResultShown /\ status' # status
    BY <2>1, <2>3 DEF ResultShown, Expire, AdvanceRound, NextRound, FinishMatch, roundVars, InOrder
  <2> QED BY <1>1, <2>1, <2>2, <2>3
<1>6. CASE HandleResync
  BY <1>2, <1>6 DEF HandleResync, roundVars
<1>7. CASE HandleSteal \/ HandleGuess
  <2>1. CASE status = "in_progress"
    <3>1. status' = status
      BY <1>7 DEF HandleSteal, HandleGuess, ApplySteal, WrongGuess, ResolveGuess
    <3> QED BY <1>1, <2>1, <3>1
  <2>2. CASE status # "in_progress"
    <3>1. phase \notin {"stealing", "guessing"}
      BY <2>2 DEF IInv, Lifecycle
    <3> QED BY <1>2, <1>7, <3>1 DEF HandleSteal, HandleGuess, StealAccepted, GuessAccepted, roundVars
  <2> QED BY <2>1, <2>2
<1>8. CASE UNCHANGED vars \/ TimerFires
  BY <1>2, <1>8 DEF vars, TimerFires, roundVars
<1>9. CASE \E p \in Players, t \in ActionTypes : \E o \in Payloads(t) : Submit(p, t, o)
  BY <1>2, <1>9 DEF Submit, roundVars
<1> QED BY <1>3, <1>4, <1>5, <1>6, <1>7, <1>8, <1>9 DEF Next, HandleAction

(* A match goes through its phases in the one order there is, and ends     *)
(* early by no way but a player leaving (handleAction and handleTimeout of *)
(* room.go).  These are the moves Delivery lets its room make, so that what*)
(* is shown there of the pages is shown of this room's matches.            *)
THEOREM RoomMovesAsDelivered == Spec => [][InOrder]_vars
<1>1. IInv /\ [Next]_vars => [InOrder]_vars
  BY StepsInOrder
<1> QED BY <1>1, Invariant, PTL DEF Spec
=============================================================================
