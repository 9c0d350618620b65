--------------------------- MODULE StandaloneProofs ---------------------------
(***************************************************************************)
(* The three parts that share no state with any other, each for every value*)
(* of its constants.                                                       *)
(*                                                                         *)
(* The rate limiter: the attempts a key still has are exactly those allowed*)
(* to it that are young enough (Remembers), so that Kept is what was       *)
(* allowed in the window that ends now.                                    *)
(*                                                                         *)
(* Practice: a point for each round that was decided, and cards enough.    *)
(*                                                                         *)
(* The leaderboard: a place is a number of accounts, and it only grows for *)
(* who stays as they are (PlacesGrow), so that what was shown once still   *)
(* covers everybody before the cursor (NoneMissing).                       *)
(***************************************************************************)
EXTENDS MCStandalone, FiniteSetTheorems, SequenceTheorems, TLAPS

-----------------------------------------------------------------------------
(* The rate limiter.                                                       *)

(* The windows that end later have not begun to fill.                      *)
InThePast == \A a \in allowed : a.at <= now

(* The attempts of a key are its own, and none that still counts is gone.  *)
Remembers ==
  /\ \A key \in Keys : \A a \in attempts[key] : a.key = key
  /\ \A a \in allowed : now < a.at + Window => a \in attempts[a.key]

LimiterInv == TypeOK /\ InThePast /\ Remembers /\ AtMostMaxHits

(* What Kept keeps are the attempts of the window that ends now.           *)
LEMMA KeptIsTheWindow ==
  ASSUME TypeOK, InThePast, Remembers, NEW key \in Keys
  PROVE  Kept(key) = AllowedIn(key, now)
BY DEF TypeOK, InThePast, Remembers, Kept, AllowedIn, Attempts

(* The windows are finite, and no larger than what contains them.          *)
LEMMA WindowIsFinite ==
  ASSUME TypeOK, NEW key, NEW t
  PROVE  IsFiniteSet(AllowedIn(key, t)) /\ Cardinality(AllowedIn(key, t)) \in Nat
<1>1. AllowedIn(key, t) \subseteq allowed
  BY DEF AllowedIn
<1> QED
  BY <1>1, FS_Subset, FS_CardinalityType DEF TypeOK

LEMMA NoAnswerIsAnAnswer == NoAnswer \subseteq Answers
<1>1. {0} \subseteq Nat /\ {TRUE} \subseteq BOOLEAN
  OBVIOUS
<1> QED
  BY <1>1, Zenon DEF NoAnswer, Answers

LEMMA InitLimiterInv == Init => LimiterInv
<1> SUFFICES ASSUME Init PROVE LimiterInv
  OBVIOUS
<1>1. TypeOK /\ InThePast /\ Remembers
  <2>1. answer \in Answers
    BY NoAnswerIsAnAnswer DEF Init
  <2>2. attempts \in [Keys -> SUBSET allowed] /\ \A key \in Keys : attempts[key] = {}
    BY DEF Init, NewAttempts
  <2> QED
    BY <2>1, <2>2, FS_EmptySet DEF Init, TypeOK, InThePast, Remembers
<1>2. ASSUME NEW key \in Keys, NEW t \in 0 .. now
      PROVE  Cardinality(AllowedIn(key, t)) <= MaxHits
  <2>1. AllowedIn(key, t) = {}
    BY DEF Init, AllowedIn
  <2> QED
    BY <2>1, FS_EmptySet, LimitsAssumption
<1> QED
  BY <1>1, <1>2 DEF LimiterInv, AtMostMaxHits

(* An attempt that is let through takes the last place that is free in the *)
(* window that ends now, and is in no earlier one.                         *)
LEMMA AcceptLimiterInv ==
  ASSUME LimiterInv, NEW k \in Keys, Accept(k)
  PROVE  LimiterInv'
<1> DEFINE new == [key |-> k, at |-> now, n |-> Cardinality(allowed)]
<1>1. /\ new \in Attempts
      /\ attempts' = [attempts EXCEPT ![k] = Kept(k) \cup {new}]
      /\ allowed' = allowed \cup {new}
      /\ now' = now
      /\ answer' \in Answers
  BY FS_CardinalityType DEF Accept, LimiterInv, TypeOK, Attempts, Answers
<1>2. new.key = k /\ new.at = now
  OBVIOUS
<1> HIDE DEF new
<1>3. TypeOK'
  <2>1. IsFiniteSet(allowed')
    BY <1>1, FS_AddElement DEF LimiterInv, TypeOK
  <2>2. Kept(k) \subseteq allowed
    BY DEF Kept, LimiterInv, TypeOK
  <2> QED
    BY <1>1, <2>1, <2>2 DEF LimiterInv, TypeOK
<1>4. InThePast'
  BY <1>1, <1>2 DEF LimiterInv, InThePast, TypeOK
<1>5. Remembers'
  BY <1>1, <1>2 DEF LimiterInv, Remembers, TypeOK, Kept
<1>6. ASSUME NEW key \in Keys, NEW t \in 0 .. now
      PROVE  Cardinality(AllowedIn(key, t)') <= MaxHits
  <2>1. CASE key = k /\ t = now
    <3>1. AllowedIn(k, now)' \subseteq AllowedIn(k, now) \cup {new}
      BY <1>1 DEF AllowedIn
    <3>2. Cardinality(AllowedIn(k, now)) < MaxHits /\ IsFiniteSet(AllowedIn(k, now))
          /\ Cardinality(AllowedIn(k, now)) \in Nat
      BY KeptIsTheWindow, WindowIsFinite, LimitsAssumption DEF Accept, Full, LimiterInv
    <3>3. /\ IsFiniteSet(AllowedIn(k, now) \cup {new})
          /\ Cardinality(AllowedIn(k, now) \cup {new}) <= Cardinality(AllowedIn(k, now)) + 1
          /\ Cardinality(AllowedIn(k, now) \cup {new}) \in Nat
      <4>1. /\ IsFiniteSet(AllowedIn(k, now) \cup {new})
            /\ \/ Cardinality(AllowedIn(k, now) \cup {new}) = Cardinality(AllowedIn(k, now))
               \/ Cardinality(AllowedIn(k, now) \cup {new}) = Cardinality(AllowedIn(k, now)) + 1
        BY <3>2, FS_AddElement
      <4> QED
        BY <3>2, <4>1
    <3>4. Cardinality(AllowedIn(k, now)') <= Cardinality(AllowedIn(k, now) \cup {new})
          /\ Cardinality(AllowedIn(k, now)') \in Nat
      BY <3>1, <3>3, FS_Subset, FS_CardinalityType
    <3>5. AllowedIn(key, t)' = AllowedIn(k, now)'
      BY <2>1, <1>1 DEF AllowedIn
    <3> QED
      BY <3>2, <3>3, <3>4, <3>5, LimitsAssumption
  <2>2. CASE ~(key = k /\ t = now)
    <3>1. AllowedIn(key, t)' = AllowedIn(key, t)
      BY <1>1, <1>2, <2>2 DEF AllowedIn, LimiterInv, TypeOK
    <3> QED
      BY <3>1 DEF LimiterInv, AtMostMaxHits
  <2> QED
    BY <2>1, <2>2
<1> QED
  BY <1>1, <1>3, <1>4, <1>5, <1>6 DEF LimiterInv, AtMostMaxHits

LEMMA RefuseLimiterInv ==
  ASSUME LimiterInv, NEW k \in Keys, Refuse(k)
  PROVE  LimiterInv'
<1>1. /\ attempts' = [attempts EXCEPT ![k] = Kept(k)]
      /\ allowed' = allowed
      /\ now' = now
      /\ answer' \in Answers
  BY DEF Refuse, LimiterInv, TypeOK, Answers
<1>2. TypeOK' /\ InThePast'
  BY <1>1 DEF LimiterInv, TypeOK, InThePast, Kept
<1>3. Remembers'
  BY <1>1 DEF LimiterInv, Remembers, TypeOK, Kept
<1>4. AtMostMaxHits'
  BY <1>1 DEF LimiterInv, AtMostMaxHits, AllowedIn
<1> QED
  BY <1>2, <1>3, <1>4 DEF LimiterInv

(* The window that ends a tick later is part of the one that ends now.     *)
LEMMA TickLimiterInv ==
  ASSUME LimiterInv, Tick
  PROVE  LimiterInv'
<1>1. allowed' = allowed /\ attempts' = attempts /\ answer' = answer /\ now' = now + 1 /\ now \in Nat
  BY DEF Tick, LimiterInv, TypeOK
<1>2. TypeOK' /\ InThePast' /\ Remembers'
  BY <1>1, LimitsAssumption DEF LimiterInv, TypeOK, InThePast, Remembers, Attempts
<1>3. ASSUME NEW key \in Keys, NEW t \in 0 .. now + 1
      PROVE  Cardinality(AllowedIn(key, t)) <= MaxHits
  <2>1. CASE t \in 0 .. now
    BY <2>1 DEF LimiterInv, AtMostMaxHits
  <2>2. CASE t = now + 1
    <3>1. AllowedIn(key, t) \subseteq AllowedIn(key, now)
      BY <2>2, <1>1, LimitsAssumption DEF AllowedIn, LimiterInv, TypeOK, InThePast, Attempts
    <3>2. Cardinality(AllowedIn(key, now)) <= MaxHits
      BY <1>1 DEF LimiterInv, AtMostMaxHits
    <3>3. IsFiniteSet(AllowedIn(key, now)) /\ Cardinality(AllowedIn(key, now)) \in Nat
          /\ Cardinality(AllowedIn(key, t)) \in Nat
      BY WindowIsFinite DEF LimiterInv
    <3>4. Cardinality(AllowedIn(key, t)) <= Cardinality(AllowedIn(key, now))
      BY <3>1, <3>3, FS_Subset
    <3> QED
      BY <3>2, <3>3, <3>4, LimitsAssumption
  <2> QED
    BY <2>1, <2>2, <1>1
<1>4. \A key, t : AllowedIn(key, t)' = AllowedIn(key, t)
  BY <1>1 DEF AllowedIn
<1> QED
  BY <1>1, <1>2, <1>3, <1>4 DEF LimiterInv, AtMostMaxHits

LEMMA RestartLimiterInv ==
  ASSUME LimiterInv, Restart
  PROVE  LimiterInv'
<1>1. TypeOK' /\ InThePast' /\ Remembers'
  <2>1. answer' \in Answers
    BY NoAnswerIsAnAnswer DEF Restart
  <2>2. attempts' \in [Keys -> SUBSET allowed'] /\ \A key \in Keys : attempts'[key] = {}
    BY DEF Restart, NewAttempts
  <2> QED
    BY <2>1, <2>2, FS_EmptySet DEF Restart, LimiterInv, TypeOK, InThePast, Remembers
<1>2. ASSUME NEW key \in Keys, NEW t \in 0 .. now'
      PROVE  Cardinality(AllowedIn(key, t)') <= MaxHits
  <2>1. AllowedIn(key, t)' = {}
    BY DEF Restart, AllowedIn
  <2> QED
    BY <2>1, FS_EmptySet, LimitsAssumption
<1> QED
  BY <1>1, <1>2 DEF LimiterInv, AtMostMaxHits

LEMMA NextLimiterInv == LimiterInv /\ [Next]_vars => LimiterInv'
<1> SUFFICES ASSUME LimiterInv, [Next]_vars PROVE LimiterInv'
  OBVIOUS
<1>1. ASSUME NEW key \in Keys, Accept(key) PROVE LimiterInv'
  BY <1>1, AcceptLimiterInv
<1>2. ASSUME NEW key \in Keys, Refuse(key) PROVE LimiterInv'
  BY <1>2, RefuseLimiterInv
<1>3. CASE Tick
  BY <1>3, TickLimiterInv
<1>4. CASE Restart
  BY <1>4, RestartLimiterInv
<1>5. CASE UNCHANGED vars
  BY <1>5 DEF vars, LimiterInv, TypeOK, InThePast, Remembers, AtMostMaxHits, AllowedIn
<1> QED
  BY <1>1, <1>2, <1>3, <1>4, <1>5 DEF Next

THEOREM LimiterInvariance == Spec => []LimiterInv
BY InitLimiterInv, NextLimiterInv, PTL DEF Spec

(* The variables keep their types, and what is kept was allowed.           *)
THEOREM TypeCorrect == Spec => []TypeOK
BY LimiterInvariance, PTL DEF LimiterInv

(* "max ~5 attempts per 10 minutes per IP" (ratelimit.go:11): in no window *)
(* of that length are more attempts of one address allowed.                *)
THEOREM WindowBound == Spec => []AtMostMaxHits
BY LimiterInvariance, PTL DEF LimiterInv

(* Allow refuses only who has used up the window: the key's attempts that  *)
(* were refused, and those of other addresses, never count.                *)
THEOREM RefusalsAreDeserved == Spec => []RefusedOnlyWhenUsedUp
<1>1. Init => RefusedOnlyWhenUsedUp
  BY DEF Init, NoAnswer, RefusedOnlyWhenUsedUp
<1>2. LimiterInv /\ RefusedOnlyWhenUsedUp /\ [Next]_vars => RefusedOnlyWhenUsedUp'
  <2> SUFFICES ASSUME LimiterInv, RefusedOnlyWhenUsedUp, [Next]_vars PROVE RefusedOnlyWhenUsedUp'
    OBVIOUS
  <2>1. ASSUME NEW key \in Keys, Accept(key) PROVE RefusedOnlyWhenUsedUp'
    BY <2>1 DEF Accept, RefusedOnlyWhenUsedUp
  <2>2. ASSUME NEW key \in Keys, Refuse(key) PROVE RefusedOnlyWhenUsedUp'
    <3>1. answer'.key = key /\ answer'.at = now /\ allowed' = allowed
      BY <2>2 DEF Refuse
    <3>2. AllowedIn(answer.key, answer.at)' = Kept(key)
      BY <3>1, KeptIsTheWindow DEF LimiterInv, AllowedIn
    <3> QED
      BY <2>2, <3>2 DEF Refuse, Full, RefusedOnlyWhenUsedUp
  <2>3. CASE Tick
    BY <2>3 DEF Tick, RefusedOnlyWhenUsedUp, AllowedIn
  <2>4. CASE Restart
    BY <2>4 DEF Restart, NoAnswer, RefusedOnlyWhenUsedUp
  <2>5. CASE UNCHANGED vars
    BY <2>5 DEF vars, RefusedOnlyWhenUsedUp, AllowedIn
  <2> QED
    BY <2>1, <2>2, <2>3, <2>4, <2>5 DEF Next
<1> QED
  BY <1>1, <1>2, LimiterInvariance, PTL DEF Spec

-----------------------------------------------------------------------------
(* Practice.                                                               *)

Pages == {"new", "memorize", "your_steal", "your_guess", "ai_guess", "result", "over"}

PracticeTypes ==
  /\ page \in Pages
  /\ round \in Nat \ {0} /\ totalRounds \in Nat /\ totalRounds >= Rounds
  /\ scores \in [Sides -> Nat]
  /\ page = "new" => round = 1

(* The cards on the table, from the first draw on.                         *)
CardsDealt ==
  page # "new" => IsFiniteSet(yourObjects) /\ Cardinality(yourObjects) = ObjectCount

(* While you guess, the cards marked wrong are those the attempts went on. *)
GuessesCounted ==
  page = "your_guess" => /\ IsFiniteSet(wrongIds) /\ Cardinality(wrongIds) \in Nat
                         /\ attemptsLeft \in Nat \ {0}
                         /\ attemptsLeft + Cardinality(wrongIds) = GuessAttempts

PracticeInv == PracticeTypes /\ CardsDealt /\ GuessesCounted /\ EndsOnAWinner

(* Each half of a draw has the objects of one side.                        *)
LEMMA DrawDealsCards ==
  ASSUME DrawObjects
  PROVE  IsFiniteSet(yourObjects') /\ Cardinality(yourObjects') = ObjectCount
<1>1. PICK all \in {S \in SUBSET Pool : Cardinality(S) = 2 * ObjectCount} :
        \E half \in {S \in SUBSET all : Cardinality(S) = ObjectCount} : yourObjects' = half
  BY DEF DrawObjects
<1>2. yourObjects' \in SUBSET Pool /\ Cardinality(yourObjects') = ObjectCount
  BY <1>1
<1> QED
  BY <1>2, ObjectsAssumption, FS_Subset

(* One point is given, to one of the two.                                  *)
LEMMA OnePoint ==
  ASSUME PracticeTypes, NEW correct \in BOOLEAN, NEW side \in Sides, ResolveRound(correct, side)
  PROVE  /\ scores' \in [Sides -> Nat]
         /\ scores'["you"] + scores'["ai"] = scores["you"] + scores["ai"] + 1
         /\ page' = "result"
BY DEF PracticeTypes, ResolveRound, OtherSide, Sides

LEMMA InitPracticeInv == PracticeInit => PracticeInv
BY NumbersAssumption DEF PracticeInit, PracticeInv, PracticeTypes, Pages, CardsDealt, GuessesCounted,
   EndsOnAWinner, Sides

LEMMA StartPracticeInv ==
  ASSUME PracticeInv, Start
  PROVE  PracticeInv'
<1>1. IsFiniteSet(yourObjects') /\ Cardinality(yourObjects') = ObjectCount
  BY DrawDealsCards DEF Start, PlayRound
<1>2. page' = "memorize" /\ round' = 1 /\ totalRounds' = totalRounds /\ scores' = scores
  BY DEF Start, PlayRound
<1> QED
  BY <1>1, <1>2 DEF Start, PracticeInv, PracticeTypes, Pages, CardsDealt, GuessesCounted, EndsOnAWinner

(* Every guess starts with the whole allowance.                            *)
LEMMA BeginStealPracticeInv ==
  ASSUME PracticeInv, BeginSteal
  PROVE  PracticeInv'
<1>1. /\ page = "memorize" /\ page' \in {"your_steal", "your_guess"}
      /\ UNCHANGED <<round, totalRounds, scores, yourObjects>>
  BY DEF BeginSteal, ComputerSteals, drawVars
<1>2. page' = "your_guess" => wrongIds' = {} /\ attemptsLeft' = GuessAttempts
  BY DEF BeginSteal, ComputerSteals
<1>3. GuessesCounted'
  BY <1>2, FS_EmptySet, NumbersAssumption DEF GuessesCounted
<1> QED
  BY <1>1, <1>3 DEF PracticeInv, PracticeTypes, Pages, CardsDealt, EndsOnAWinner

LEMMA YouStealPracticeInv ==
  ASSUME PracticeInv, NEW o \in Pool, YouSteal(o)
  PROVE  PracticeInv'
BY DEF YouSteal, drawVars, PracticeInv, PracticeTypes, Pages, CardsDealt, GuessesCounted, EndsOnAWinner

LEMMA ComputerGuessesPracticeInv ==
  ASSUME PracticeInv, ComputerGuesses
  PROVE  PracticeInv'
<1>1. PICK correct \in BOOLEAN : ResolveRound(correct, "ai")
  BY DEF ComputerGuesses
<1>2. /\ scores' \in [Sides -> Nat]
      /\ scores'["you"] + scores'["ai"] = scores["you"] + scores["ai"] + 1
      /\ page' = "result"
  BY <1>1, OnePoint DEF PracticeInv, Sides
<1>3. page = "ai_guess" /\ UNCHANGED <<round, totalRounds, yourObjects>>
  BY DEF ComputerGuesses, drawVars
<1> QED
  BY <1>2, <1>3 DEF PracticeInv, PracticeTypes, Pages, CardsDealt, GuessesCounted, EndsOnAWinner

(* A wrong guess costs an attempt and marks a card that was not marked; the*)
(* last attempt, or the right card, decides the round.                     *)
LEMMA YouGuessPracticeInv ==
  ASSUME PracticeInv, NEW o \in Pool, YouGuess(o)
  PROVE  PracticeInv'
<1>1. page = "your_guess" /\ UNCHANGED <<round, totalRounds, yourObjects>>
  BY DEF YouGuess, drawVars
<1>2. CASE o = stolen \/ attemptsLeft' <= 0
  <2>1. ResolveRound(o = stolen, "you")
    BY <1>2 DEF YouGuess
  <2>2. /\ scores' \in [Sides -> Nat]
        /\ scores'["you"] + scores'["ai"] = scores["you"] + scores["ai"] + 1
        /\ page' = "result"
    BY <2>1, OnePoint DEF PracticeInv, Sides
  <2> QED
    BY <1>1, <2>2 DEF PracticeInv, PracticeTypes, Pages, CardsDealt, GuessesCounted, EndsOnAWinner
<1>3. CASE ~(o = stolen \/ attemptsLeft' <= 0)
  <2>1. /\ o \notin wrongIds /\ wrongIds' = wrongIds \cup {o} /\ attemptsLeft' = attemptsLeft - 1
        /\ UNCHANGED <<scores, page>>
    BY <1>3 DEF YouGuess
  <2>2. IsFiniteSet(wrongIds') /\ Cardinality(wrongIds') = Cardinality(wrongIds) + 1
    BY <1>1, <2>1, FS_AddElement DEF PracticeInv, GuessesCounted
  <2>3. GuessesCounted'
    BY <1>1, <1>3, <2>1, <2>2, NumbersAssumption DEF PracticeInv, GuessesCounted
  <2> QED
    BY <1>1, <2>1, <2>3 DEF PracticeInv, PracticeTypes, Pages, CardsDealt, EndsOnAWinner
<1> QED
  BY <1>2, <1>3

LEMMA NextRoundPracticeInv ==
  ASSUME PracticeInv, NextRound
  PROVE  PracticeInv'
<1>1. page = "result" /\ scores' = scores
  BY DEF NextRound
<1>2. CASE page' = "over" /\ UNCHANGED <<round, totalRounds, drawVars>>
           /\ round >= totalRounds /\ scores["you"] # scores["ai"]
  BY <1>1, <1>2, NumbersAssumption
  DEF drawVars, PracticeInv, PracticeTypes, Pages, CardsDealt, GuessesCounted, EndsOnAWinner
<1>3. CASE /\ totalRounds' = IF round >= totalRounds THEN totalRounds + 1 ELSE totalRounds
           /\ round' = round + 1 /\ PlayRound
  <2>1. page' = "memorize" /\ IsFiniteSet(yourObjects') /\ Cardinality(yourObjects') = ObjectCount
    BY <1>3, DrawDealsCards DEF PlayRound
  <2> QED
    BY <1>1, <1>3, <2>1, NumbersAssumption
    DEF PracticeInv, PracticeTypes, Pages, CardsDealt, GuessesCounted, EndsOnAWinner
<1> QED
  BY <1>2, <1>3 DEF NextRound

LEMMA NextPracticeInv == PracticeInv /\ [PracticeNext]_practiceVars => PracticeInv'
<1> SUFFICES ASSUME PracticeInv, [PracticeNext]_practiceVars PROVE PracticeInv'
  OBVIOUS
<1>1. CASE UNCHANGED practiceVars
  BY <1>1 DEF practiceVars, drawVars, guessVars, PracticeInv, PracticeTypes, CardsDealt, GuessesCounted,
     EndsOnAWinner
<1>2. CASE PracticeNext
  BY <1>2, StartPracticeInv, BeginStealPracticeInv, YouStealPracticeInv, ComputerGuessesPracticeInv,
     YouGuessPracticeInv, NextRoundPracticeInv DEF PracticeNext
<1> QED
  BY <1>1, <1>2

THEOREM PracticeInvariance == PracticeSpec => []PracticeInv
BY InitPracticeInv, NextPracticeInv, PTL DEF PracticeSpec

(* A practice game is over only after all its rounds and with a winner, and*)
(* every round that was decided gave one point.                            *)
THEOREM PracticeEndsOnAWinner == PracticeSpec => []EndsOnAWinner
BY PracticeInvariance, PTL DEF PracticeInv

(* Fewer cards are marked wrong than there are attempts, of which there are*)
(* no more than cards: one can be clicked as long as a guess is awaited.   *)
THEOREM PracticeCanGoOn == PracticeSpec => []CanGoOnGuessing
<1>1. PracticeInv => CanGoOnGuessing
  <2> SUFFICES ASSUME PracticeInv, page = "your_guess"
               PROVE  /\ attemptsLeft + Cardinality(wrongIds) = GuessAttempts
                      /\ attemptsLeft > 0
                      /\ yourObjects \ wrongIds # {}
    BY DEF CanGoOnGuessing
  <2>1. /\ attemptsLeft + Cardinality(wrongIds) = GuessAttempts /\ attemptsLeft > 0
        /\ Cardinality(wrongIds) < ObjectCount /\ IsFiniteSet(wrongIds)
    BY NumbersAssumption DEF PracticeInv, GuessesCounted
  <2>2. ASSUME yourObjects \subseteq wrongIds PROVE FALSE
    <3>1. Cardinality(yourObjects) <= Cardinality(wrongIds) /\ Cardinality(wrongIds) \in Nat
      BY <2>1, <2>2, FS_Subset, FS_CardinalityType
    <3> QED
      BY <2>1, <3>1, NumbersAssumption DEF PracticeInv, CardsDealt
  <2> QED
    BY <2>1, <2>2
<1> QED
  BY <1>1, PracticeInvariance, PTL

(* Practice is a match like the one on the server: the page is new, over or*)
(* in play, and the round is decided when its result shows.                *)
Score == INSTANCE MatchScore WITH
           PlayerA <- "you", PlayerB <- "ai", NoPlayer <- "nobody", TotalRounds <- Rounds,
           status <- CASE page = "new" -> "waiting" [] page = "over" -> "completed"
                       [] OTHER -> "in_progress",
           round <- IF page = "new" THEN 0 ELSE round,
           stealer <- IF page = "new" THEN "nobody" ELSE IF youAreStealer THEN "you" ELSE "ai",
           awarded <- page \in {"result", "over"}

(* Who steals follows from the round, and totalRounds goes up by one at    *)
(* most: the extra round is played by two who are level, and its one point *)
(* parts them.                                                             *)
TurnsAndTies ==
  /\ totalRounds \in {Rounds, Rounds + 1} /\ round <= totalRounds
  /\ youStealFirst \in BOOLEAN /\ youAreStealer \in BOOLEAN
  /\ page = "new" => scores = [s \in Sides |-> 0] /\ totalRounds = Rounds
  /\ page # "new" => youAreStealer = YouStealIn(round, youStealFirst)
  /\ totalRounds = Rounds + 1 =>
       round = totalRounds /\ (scores["you"] = scores["ai"] <=> page \notin {"result", "over"})

LEMMA InitScore ==
  ASSUME PracticeInit
  PROVE  TurnsAndTies /\ Score!Init
<1>1. Rounds \in Nat \ {0}
  BY NumbersAssumption
<1>2. TurnsAndTies
  <2>1. round <= totalRounds /\ totalRounds \in {Rounds, Rounds + 1} /\ totalRounds # Rounds + 1
    BY <1>1 DEF PracticeInit
  <2>2. youStealFirst \in BOOLEAN /\ youAreStealer \in BOOLEAN
    BY DEF PracticeInit
  <2> QED BY <2>1, <2>2 DEF PracticeInit, TurnsAndTies
<1>3. Score!Players = Sides
  BY DEF Score!Players, Sides
<1>4. Score!Init
  BY <1>3 DEF PracticeInit, Score!Init
<1> QED BY <1>2, <1>4

(* The stealer's role changes hands from one round to the next.            *)
LEMMA RolesChange ==
  ASSUME NEW r \in Nat, NEW first \in BOOLEAN
  PROVE  /\ YouStealIn(r, first) \in BOOLEAN
         /\ YouStealIn(r + 1, first) = ~YouStealIn(r, first)
<1>1. r % 2 = 1 <=> ~((r + 1) % 2 = 1)
  OBVIOUS
<1> QED BY <1>1 DEF YouStealIn

LEMMA StartScores ==
  ASSUME PracticeInv, TurnsAndTies, Start
  PROVE  TurnsAndTies' /\ Score!Start
<1>1. /\ page = "new" /\ page' = "memorize" /\ round' = 1 /\ youStealFirst' \in BOOLEAN
      /\ youAreStealer' = YouStealIn(1, youStealFirst') /\ UNCHANGED <<totalRounds, scores>>
  BY DEF Start, PlayRound
<1>2. youAreStealer' \in BOOLEAN
  BY <1>1 DEF YouStealIn
<1>3. TurnsAndTies'
  BY <1>1, <1>2, NumbersAssumption DEF TurnsAndTies, YouStealIn
<1>4. Score!Start
  BY <1>1 DEF Score!Start, Score!Players
<1> QED BY <1>3, <1>4

(* Between the draw and the result the score does not see what happens.    *)
LEMMA PlayScoresNothing ==
  ASSUME TurnsAndTies,
         page \in {"memorize", "your_steal", "your_guess"},
         page' \in {"memorize", "your_steal", "your_guess", "ai_guess"},
         UNCHANGED <<round, totalRounds, scores, youStealFirst, youAreStealer>>
  PROVE  TurnsAndTies' /\ UNCHANGED Score!matchVars
<1>1. TurnsAndTies'
  BY DEF TurnsAndTies
<1>2. UNCHANGED Score!matchVars
  BY DEF Score!matchVars
<1> QED BY <1>1, <1>2

LEMMA ResultScores ==
  ASSUME PracticeInv, TurnsAndTies, page \in {"your_guess", "ai_guess"},
         NEW correct \in BOOLEAN, NEW side \in Sides, ResolveRound(correct, side),
         UNCHANGED <<round, totalRounds, youStealFirst, youAreStealer>>
  PROVE  TurnsAndTies' /\ Score!Award
<1>1. PICK w \in Sides : scores' = [scores EXCEPT ![w] = @ + 1] /\ page' = "result"
  BY DEF ResolveRound, OtherSide, Sides
<1>2. scores \in [Sides -> Nat]
  BY DEF PracticeInv, PracticeTypes
<1>3. scores["you"] = scores["ai"] => scores'["you"] # scores'["ai"]
  BY <1>1, <1>2 DEF Sides
<1>4. TurnsAndTies'
  BY <1>1, <1>3, NumbersAssumption DEF TurnsAndTies
<1>5. Score!Award
  BY <1>1 DEF Score!Award, Score!Players, Sides
<1> QED BY <1>4, <1>5

LEMMA NextRoundScores ==
  ASSUME PracticeInv, TurnsAndTies, NextRound
  PROVE  TurnsAndTies' /\ (Score!NextRound \/ Score!Finish)
<1>1. page = "result" /\ UNCHANGED <<scores, youStealFirst>>
  BY DEF NextRound, drawVars
<1>2. /\ round \in Nat \ {0} /\ scores \in [Sides -> Nat] /\ Rounds \in Nat \ {0}
  BY NumbersAssumption DEF PracticeInv, PracticeTypes
<1>3. CASE /\ round >= totalRounds /\ scores["you"] # scores["ai"]
           /\ page' = "over" /\ UNCHANGED <<round, totalRounds, drawVars>>
  <2>1. TurnsAndTies'
    BY <1>1, <1>2, <1>3 DEF TurnsAndTies, drawVars
  <2>2. Score!Finish
    BY <1>1, <1>2, <1>3 DEF Score!Finish, Score!Level, TurnsAndTies, drawVars
  <2> QED BY <2>1, <2>2
<1>4. CASE /\ ~(round >= totalRounds) \/ scores["you"] = scores["ai"]
           /\ totalRounds' = IF round >= totalRounds THEN totalRounds + 1 ELSE totalRounds
           /\ round' = round + 1 /\ PlayRound
  <2>1. page' = "memorize" /\ youAreStealer' = YouStealIn(round + 1, youStealFirst)
    BY <1>1, <1>4 DEF PlayRound
  <2>2. youAreStealer' \in BOOLEAN /\ youAreStealer' = ~youAreStealer
    BY <1>1, <1>2, <2>1, RolesChange DEF TurnsAndTies
  <2>3. \/ round < Rounds /\ totalRounds' = totalRounds /\ totalRounds = Rounds
        \/ /\ round = Rounds /\ totalRounds = Rounds /\ totalRounds' = Rounds + 1
           /\ scores["you"] = scores["ai"]
    BY <1>1, <1>2, <1>4 DEF TurnsAndTies
  <2>4. TurnsAndTies'
    BY <1>1, <1>2, <1>4, <2>1, <2>2, <2>3 DEF TurnsAndTies
  <2>5. Score!NextRound
    BY <1>1, <1>2, <1>4, <2>1, <2>2, <2>3 DEF Score!NextRound, Score!Level, Score!Rival, TurnsAndTies
  <2> QED BY <2>4, <2>5
<1> QED BY <1>3, <1>4 DEF NextRound

LEMMA StepScores ==
  ASSUME PracticeInv, TurnsAndTies, [PracticeNext]_practiceVars
  PROVE  TurnsAndTies' /\ [Score!Next]_Score!matchVars
<1>1. CASE UNCHANGED practiceVars
  <2>1. UNCHANGED <<page, round, totalRounds, scores, youStealFirst, youAreStealer>>
    BY <1>1 DEF practiceVars, drawVars
  <2> QED BY <2>1 DEF TurnsAndTies, Score!matchVars
<1>2. CASE Start
  BY <1>2, StartScores DEF Score!Next
<1>3. CASE BeginSteal
  <2>1. /\ page = "memorize" /\ page' \in {"your_steal", "your_guess"}
        /\ UNCHANGED <<round, totalRounds, scores, youStealFirst, youAreStealer>>
    BY <1>3 DEF BeginSteal, ComputerSteals, drawVars
  <2> QED BY <2>1, PlayScoresNothing
<1>4. CASE ComputerGuesses
  <2>1. PICK correct \in BOOLEAN : ResolveRound(correct, "ai")
    BY <1>4 DEF ComputerGuesses
  <2>2. page = "ai_guess" /\ UNCHANGED <<round, totalRounds, youStealFirst, youAreStealer>>
    BY <1>4 DEF ComputerGuesses, drawVars
  <2>3. "ai" \in Sides
    BY DEF Sides
  <2> QED BY <2>1, <2>2, <2>3, ResultScores DEF Score!Next
<1>5. CASE NextRound
  BY <1>5, NextRoundScores DEF Score!Next
<1>6. ASSUME NEW o \in Pool, YouSteal(o)
      PROVE  TurnsAndTies' /\ UNCHANGED Score!matchVars
  <2>1. /\ page = "your_steal" /\ page' = "ai_guess"
        /\ UNCHANGED <<round, totalRounds, scores, youStealFirst, youAreStealer>>
    BY <1>6 DEF YouSteal, drawVars
  <2> QED BY <2>1, PlayScoresNothing
<1>7. ASSUME NEW o \in Pool, YouGuess(o)
      PROVE  TurnsAndTies' /\ [Score!Next]_Score!matchVars
  <2>1. page = "your_guess" /\ UNCHANGED <<round, totalRounds, youStealFirst, youAreStealer>>
    BY <1>7 DEF YouGuess, drawVars
  <2>2. CASE ResolveRound(o = stolen, "you")
    <3>1. "you" \in Sides /\ (o = stolen) \in BOOLEAN
      BY DEF Sides
    <3> QED BY <2>1, <2>2, <3>1, ResultScores DEF Score!Next
  <2>3. CASE UNCHANGED <<scores, page>>
    BY <2>1, <2>3, PlayScoresNothing
  <2> QED BY <1>7, <2>2, <2>3 DEF YouGuess
<1> QED BY <1>1, <1>2, <1>3, <1>4, <1>5, <1>6, <1>7 DEF PracticeNext

(* Practice against the computer (ai.js) keeps to the scoring of the match *)
(* on the server: MatchScore, which GameRoom implements too.  It has its   *)
(* rounds and one more at most, the two steal in turn, each decided round  *)
(* gives one point, and it ends when one is ahead.                         *)
THEOREM PracticeScoresLikeAMatch == PracticeSpec => Score!Spec
<1>1. PracticeInit => TurnsAndTies /\ Score!Init
  BY InitScore
<1>2. PracticeInv /\ TurnsAndTies /\ [PracticeNext]_practiceVars =>
        TurnsAndTies' /\ [Score!Next]_Score!matchVars
  BY StepScores
<1> QED BY <1>1, <1>2, PracticeInvariance, PTL DEF PracticeSpec, Score!Spec

-----------------------------------------------------------------------------
(* The leaderboard: places.                                                *)

Row == [user : Accounts, position : Nat]
LoadType == [stage : {"none", "asked", "answered"}, cursor : Nat, rows : Seq(Row), more : BOOLEAN]

BoardTypes ==
  /\ wins \in [Accounts -> Nat] /\ status \in [Accounts -> {"absent", "live", "deleted"}]
  /\ rows \in Seq(Row) /\ cursor \in Nat /\ more \in BOOLEAN
  /\ load \in [1 .. Loads -> LoadType]
  /\ \A l \in 1 .. Loads : load[l].stage = "none" => load[l] = NoLoad
  /\ rose \subseteq Accounts /\ sank \in BOOLEAN /\ overlapped \in BOOLEAN

(* Who comes before an account.                                            *)
Before(u) == {v \in Live : Above(v, u)}

(* The comparison of the sort puts any two accounts in one order.          *)
LEMMA AboveIsAnOrder ==
  ASSUME BoardTypes, NEW u \in Accounts, NEW v \in Accounts
  PROVE  /\ ~Above(u, u)
         /\ u # v => Above(u, v) \/ Above(v, u)
         /\ \A w \in Accounts : Above(u, v) /\ Above(v, w) => Above(u, w)
<1>1. \A w \in Accounts : w \in Nat /\ wins[w] \in Nat
  BY BoardAssumption DEF BoardTypes
<1> QED
  BY <1>1 DEF Above

LEMMA LiveIsFinite ==
  /\ IsFiniteSet(Live) /\ Cardinality(Live) \in Nat /\ Live \subseteq Accounts
  /\ \A u : IsFiniteSet(Before(u)) /\ Cardinality(Before(u)) \in Nat
<1>1. Live \subseteq Accounts
  BY DEF Live
<1>2. IsFiniteSet(Live)
  BY <1>1, BoardAssumption, FS_Subset
<1>3. ASSUME NEW u PROVE IsFiniteSet(Before(u))
  <2>1. Before(u) \subseteq Live
    BY DEF Before
  <2> QED
    BY <1>2, <2>1, FS_Subset
<1> QED
  BY <1>1, <1>2, <1>3, FS_CardinalityType

LEMMA PlaceIsBefore ==
  ASSUME NEW u
  PROVE  Place(u) = Cardinality(Before(u)) + 1
BY DEF Place, Before

(* Nobody comes before themselves, so that there are places enough.        *)
LEMMA PlacesInRange ==
  ASSUME BoardTypes, NEW u \in Live
  PROVE  Place(u) \in 1 .. Cardinality(Live)
<1>1. Before(u) \subseteq Live \ {u}
  BY AboveIsAnOrder, LiveIsFinite DEF Before
<1>2. IsFiniteSet(Live \ {u}) /\ Cardinality(Live \ {u}) = Cardinality(Live) - 1
  BY LiveIsFinite, FS_RemoveElement
<1>3. Cardinality(Before(u)) <= Cardinality(Live) - 1
  BY <1>1, <1>2, FS_Subset
<1> QED
  BY <1>3, LiveIsFinite, PlaceIsBefore

(* Who comes before somebody has a smaller place, ...                      *)
LEMMA AboveIsSmaller ==
  ASSUME BoardTypes, NEW u \in Live, NEW v \in Live, Above(u, v)
  PROVE  Place(u) < Place(v)
<1>1. u \in Accounts /\ v \in Accounts
  BY LiveIsFinite
<1>2. Before(u) \subseteq Before(v)
  BY <1>1, AboveIsAnOrder, LiveIsFinite DEF Before
<1>3. u \in Before(v) /\ u \notin Before(u)
  BY <1>1, AboveIsAnOrder DEF Before
<1>4. /\ Cardinality(Before(u)) <= Cardinality(Before(v))
      /\ Cardinality(Before(u)) # Cardinality(Before(v))
  BY <1>2, <1>3, LiveIsFinite, FS_Subset
<1> QED
  BY <1>4, LiveIsFinite, PlaceIsBefore

LEMMA PlacesDiffer ==
  ASSUME BoardTypes, NEW u \in Live, NEW v \in Live, Place(u) = Place(v)
  PROVE  u = v
<1>1. Place(u) \in Nat
  BY PlacesInRange, LiveIsFinite
<1> QED
  BY <1>1, AboveIsAnOrder, AboveIsSmaller, LiveIsFinite

(* ... and each place is somebody's.                                       *)
LEMMA PlacesAreTaken ==
  ASSUME BoardTypes, NEW i \in 1 .. Cardinality(Live)
  PROVE  \E u \in Live : Place(u) = i
<1> DEFINE n == Cardinality(Live)
           place == [u \in Live |-> Place(u)]
<1>1. IsFiniteSet(1 .. n) /\ Cardinality(1 .. n) = n
  BY LiveIsFinite, FS_Interval
<1>2. place \in [Live -> 1 .. n] /\ \A u, v \in Live : place[u] = place[v] => u = v
  BY PlacesInRange, PlacesDiffer
<1>3. place \in Injection(Live, 1 .. n)
  BY <1>2, Zenon DEF Injection, IsInjective
<1>4. place \in Surjection(Live, 1 .. n)
  BY <1>1, <1>3, FS_Injection
<1>5. PICK u \in Live : place[u] = i
  BY <1>4 DEF Surjection
<1> QED
  BY <1>5

(* The ranking has everybody once, at their place.                         *)
LEMMA RankingIsByPlace ==
  ASSUME BoardTypes
  PROVE  /\ Ranking \in Seq(Live) /\ Len(Ranking) = Cardinality(Live)
         /\ \A i \in 1 .. Len(Ranking) : Ranking[i] \in Live /\ Place(Ranking[i]) = i
         /\ \A u \in Live : Place(u) \in 1 .. Len(Ranking) /\ Ranking[Place(u)] = u
<1> DEFINE n == Cardinality(Live)
<1>1. ASSUME NEW i \in 1 .. n
      PROVE  Ranking[i] \in Live /\ Place(Ranking[i]) = i
  <2>1. PICK u \in Live : Place(u) = i
    BY PlacesAreTaken
  <2>2. Ranking[i] = CHOOSE v \in Live : Place(v) = i
    BY DEF Ranking
  <2> QED
    BY <2>1, <2>2
<1>2. Ranking \in [1 .. n -> Live]
  BY <1>1 DEF Ranking
<1>3. Ranking \in Seq(Live) /\ Len(Ranking) = n
  BY <1>2, LiveIsFinite, SeqDef, LenProperties
<1>4. ASSUME NEW u \in Live
      PROVE  Place(u) \in 1 .. n /\ Ranking[Place(u)] = u
  <2>1. Place(u) \in 1 .. n
    BY PlacesInRange
  <2> QED
    BY <1>1, <2>1, PlacesDiffer
<1> QED
  BY <1>1, <1>3, <1>4

-----------------------------------------------------------------------------
(* The leaderboard: pages.                                                 *)

LEMMA BoundedIsCapped ==
  ASSUME BoardTypes, NEW i \in Nat
  PROVE  Bounded(i) = IF i <= Len(Ranking) THEN i ELSE Len(Ranking)
<1>1. Len(Ranking) \in Nat
  BY RankingIsByPlace, LiveIsFinite
<1> QED
  BY <1>1 DEF Bounded, Min

(* A page is what the ranking has after the cursor, up to Limit rows.      *)
LEMMA PageIsASlice ==
  ASSUME BoardTypes, NEW c \in Nat
  PROVE  /\ Page(c) \in Seq(Live)
         /\ Len(Page(c)) = Bounded(c + Limit) - Bounded(c)
         /\ \A i \in 1 .. Len(Page(c)) : Page(c)[i] = Ranking[Bounded(c) + i]
<1>1. /\ Limit \in Nat /\ Len(Ranking) \in Nat
      /\ Bounded(c) \in Nat /\ Bounded(c + Limit) \in Nat /\ Bounded(c) <= Bounded(c + Limit)
      /\ Bounded(c + Limit) <= Len(Ranking)
  BY BoundedIsCapped, BoardAssumption, RankingIsByPlace, LiveIsFinite
<1>2. \A i \in Bounded(c) + 1 .. Bounded(c + Limit) : Ranking[i] \in Live
  BY <1>1, RankingIsByPlace
<1>3. /\ SubSeq(Ranking, Bounded(c) + 1, Bounded(c + Limit)) \in Seq(Live)
      /\ Len(SubSeq(Ranking, Bounded(c) + 1, Bounded(c + Limit)))
           = IF Bounded(c) + 1 <= Bounded(c + Limit) THEN Bounded(c + Limit) - (Bounded(c) + 1) + 1 ELSE 0
      /\ \A i \in 1 .. Bounded(c + Limit) - (Bounded(c) + 1) + 1 :
           SubSeq(Ranking, Bounded(c) + 1, Bounded(c + Limit))[i] = Ranking[Bounded(c) + 1 + i - 1]
  BY <1>1, <1>2, SubSeqProperties
<1> QED
  BY <1>1, <1>3 DEF Page

LEMMA RowsArePlaced ==
  ASSUME NEW c \in Nat, NEW list \in Seq(Accounts)
  PROVE  /\ Rows(c, list) \in Seq(Row) /\ Len(Rows(c, list)) = Len(list)
         /\ \A i \in 1 .. Len(list) : Rows(c, list)[i] = [user |-> list[i], position |-> c + i]
<1>1. Len(list) \in Nat /\ DOMAIN list = 1 .. Len(list) /\ \A i \in 1 .. Len(list) : list[i] \in Accounts
  OBVIOUS
<1>2. Rows(c, list) \in [1 .. Len(list) -> Row]
  BY <1>1 DEF Rows, Row
<1>3. Rows(c, list) \in Seq(Row) /\ Len(Rows(c, list)) = Len(list)
  BY <1>1, <1>2, SeqDef, LenProperties
<1> QED
  BY <1>1, <1>3 DEF Rows

-----------------------------------------------------------------------------
(* The leaderboard: the invariant.                                         *)

Shown(u, list) == \E i \in 1 .. Len(list) : list[i].user = u

(* Who stays as they are.                                                  *)
Staying == Live \ rose

(* Whoever has a place before a cursor has been shown, whether the cursor  *)
(* is the page's, one that was asked with, or one that has been answered.  *)
NoneMissing ==
  ~sank => \A u \in Staying :
    /\ Place(u) <= cursor \/ ~more => Shown(u, rows)
    /\ \A l \in 1 .. Loads :
         /\ load[l].stage = "asked" /\ Place(u) <= load[l].cursor => Shown(u, rows)
         /\ load[l].stage = "answered" /\ (Place(u) <= load[l].cursor \/ ~load[l].more)
              => Shown(u, rows) \/ Shown(u, load[l].rows)

(* A piece of the ranking with its positions, after the first c places.    *)
Piece(c, list) == \A i \in 1 .. Len(list) : list[i] = [user |-> Ranking[c + i], position |-> c + i]

(* The cursor is at the end of what is shown.                              *)
Ends(c, again) == c <= Cardinality(Live) /\ (again \/ c = Cardinality(Live))

Quiet == ~overlapped /\ rose = {} /\ ~sank

(* If nothing changes and one call waits at a time, the pieces fit.        *)
PiecesFit ==
  Quiet =>
    /\ \A l, m \in 1 .. Loads : load[l] # NoLoad /\ load[m] # NoLoad => l = m
    /\ Len(rows) = cursor /\ Piece(0, rows) /\ Ends(cursor, more)
    /\ \A l \in 1 .. Loads :
         /\ load[l].stage = "asked" => load[l].cursor = cursor
         /\ load[l].stage = "answered" =>
              /\ load[l].cursor = cursor + Len(load[l].rows)
              /\ Piece(cursor, load[l].rows) /\ Ends(load[l].cursor, load[l].more)

BoardInv == BoardTypes /\ NoneMissing /\ PiecesFit

LEMMA AccountSetsAreFinite ==
  \A S : S \subseteq Accounts => IsFiniteSet(S) /\ Cardinality(S) \in Nat
BY BoardAssumption, FS_Subset, FS_CardinalityType

LEMMA SameRanking ==
  ASSUME UNCHANGED accountVars
  PROVE  /\ Live' = Live /\ Staying' = Staying /\ Ranking' = Ranking
         /\ \A u : Place(u)' = Place(u)
<1>1. wins' = wins /\ status' = status /\ rose' = rose
  BY DEF accountVars
<1>2. Live' = Live
  BY <1>1 DEF Live
<1>3. \A u : Place(u)' = Place(u)
  BY <1>1, <1>2 DEF Place, Above
<1>4. Ranking' = Ranking
  BY <1>2, <1>3 DEF Ranking
<1> QED
  BY <1>1, <1>2, <1>3, <1>4 DEF Staying

(* Who is not overtaken by fewer than before has no smaller place.         *)
LEMMA PlacesGrow ==
  ASSUME NEW v, Before(v) \subseteq Before(v)'
  PROVE  Place(v) \in Nat /\ Place(v)' \in Nat /\ Place(v) <= Place(v)'
<1>1. Before(v)' \subseteq Accounts /\ Before(v) \subseteq Accounts
  BY DEF Before, Live
<1>2. IsFiniteSet(Before(v)') /\ Cardinality(Before(v)') \in Nat /\ Cardinality(Before(v)) \in Nat
  BY <1>1, AccountSetsAreFinite
<1>3. Cardinality(Before(v)) <= Cardinality(Before(v)')
  BY <1>2, FS_Subset
<1>4. Place(v)' = Cardinality(Before(v)') + 1 /\ Place(v) = Cardinality(Before(v)) + 1
  BY DEF Place, Before
<1> QED
  BY <1>2, <1>3, <1>4

(* An answer that has been asked for.                                      *)
LEMMA AnswerFacts ==
  ASSUME BoardTypes, NEW l \in 1 .. Loads, Leaderboard(l)
  PROVE  LET c == load[l].cursor
         IN  /\ c \in Nat /\ Page(c) \in Seq(Live) /\ Len(Page(c)) \in Nat
             /\ Rows(c, Page(c)) \in Seq(Row) /\ Len(Rows(c, Page(c))) = Len(Page(c))
             /\ \A i \in 1 .. Len(Page(c)) :
                  Rows(c, Page(c))[i] = [user |-> Page(c)[i], position |-> c + i]
             /\ load' = [load EXCEPT ![l] =
                          [stage |-> "answered", cursor |-> c + Len(Page(c)),
                           rows |-> Rows(c, Page(c)), more |-> c + Len(Page(c)) < Cardinality(Live)]]
<1>1. load[l].cursor \in Nat
  BY DEF BoardTypes, LoadType
<1>2. Page(load[l].cursor) \in Seq(Live) /\ Len(Ranking) = Cardinality(Live)
  BY <1>1, PageIsASlice, RankingIsByPlace
<1>3. Page(load[l].cursor) \in Seq(Accounts) /\ Len(Page(load[l].cursor)) \in Nat
  BY <1>2, LiveIsFinite
<1> QED
  BY <1>1, <1>2, <1>3, RowsArePlaced DEF Leaderboard

LEMMA BoardTypesStep ==
  ASSUME BoardTypes, [BoardNext]_boardVars
  PROVE  BoardTypes'
<1>1. ASSUME NEW l \in 1 .. Loads, LoadMore(l) PROVE BoardTypes'
  <2>2. [stage |-> "asked", cursor |-> cursor, rows |-> <<>>, more |-> FALSE] \in LoadType
    BY DEF LoadType, BoardTypes
  <2>3. load' = [load EXCEPT ![l] = [stage |-> "asked", cursor |-> cursor, rows |-> <<>>, more |-> FALSE]]
        /\ UNCHANGED <<wins, status, rows, cursor, more, rose, sank>> /\ overlapped' \in BOOLEAN
    BY <1>1 DEF LoadMore, accountVars, BoardTypes
  <2> QED
    BY <2>2, <2>3 DEF BoardTypes
<1>2. ASSUME NEW l \in 1 .. Loads, Leaderboard(l) PROVE BoardTypes'
  <2> DEFINE c == load[l].cursor
             ans == [stage |-> "answered", cursor |-> c + Len(Page(c)),
                     rows |-> Rows(c, Page(c)), more |-> c + Len(Page(c)) < Cardinality(Live)]
  <2>1. ans \in LoadType /\ ans.stage # "none"
    BY <1>2, AnswerFacts DEF LoadType
  <2>2. load' = [load EXCEPT ![l] = ans]
    BY <1>2, AnswerFacts
  <2>3. UNCHANGED <<wins, status, rows, cursor, more, rose, sank, overlapped>>
    BY <1>2 DEF Leaderboard, accountVars
  <2> HIDE DEF ans
  <2> QED
    BY <2>1, <2>2, <2>3 DEF BoardTypes
<1>3. ASSUME NEW l \in 1 .. Loads, Show(l) \/ Fail(l) PROVE BoardTypes'
  <2>1. load' = [load EXCEPT ![l] = NoLoad] /\ NoLoad \in LoadType
    BY <1>3 DEF Show, Fail, NoLoad, LoadType
  <2>2. load[l] \in LoadType
    BY DEF BoardTypes
  <2>3. rows' \in Seq(Row) /\ cursor' \in Nat /\ more' \in BOOLEAN
    <3>1. CASE Show(l)
      <4>1. rows \o load[l].rows \in Seq(Row) /\ load[l].cursor \in Nat /\ load[l].more \in BOOLEAN
        BY <2>2, ConcatProperties DEF BoardTypes, LoadType
      <4> QED
        BY <3>1, <4>1 DEF Show
    <3>2. CASE Fail(l)
      BY <3>2 DEF Fail, BoardTypes
    <3> QED
      BY <1>3, <3>1, <3>2
  <2>4. UNCHANGED <<wins, status, rose, sank, overlapped>>
    BY <1>3 DEF Show, Fail, accountVars
  <2> QED
    BY <2>1, <2>3, <2>4 DEF BoardTypes
<1>4. ASSUME NEW u \in Accounts, Register(u) \/ Win(u) \/ LoseWin(u) \/ DeleteMe(u) PROVE BoardTypes'
  <2>1. UNCHANGED <<rows, cursor, more, load, overlapped>>
    BY <1>4 DEF Register, Win, LoseWin, DeleteMe, PageOnly
  <2>2. /\ wins' \in [Accounts -> Nat] /\ status' \in [Accounts -> {"absent", "live", "deleted"}]
        /\ rose' \subseteq Accounts /\ sank' \in BOOLEAN
    <3>1. CASE Register(u)
      BY <3>1 DEF Register, BoardTypes
    <3>2. CASE Win(u)
      BY <3>2 DEF Win, BoardTypes
    <3>3. CASE LoseWin(u)
      <4>1. wins[u] \in Nat /\ wins[u] > 0
        BY <3>3 DEF LoseWin, BoardTypes
      <4> QED
        BY <3>3, <4>1 DEF LoseWin, BoardTypes
    <3>4. CASE DeleteMe(u)
      BY <3>4 DEF DeleteMe, BoardTypes
    <3> QED
      BY <1>4, <3>1, <3>2, <3>3, <3>4
  <2> QED
    BY <2>1, <2>2 DEF BoardTypes
<1>5. CASE UNCHANGED boardVars
  BY <1>5 DEF boardVars, accountVars, BoardTypes
<1> QED
  BY <1>1, <1>2, <1>3, <1>4, <1>5 DEF BoardNext

(* A win or a registration brings nobody else forward; a deletion, or a win*)
(* that is lost, is what NoneMissing does not speak of.                    *)
LEMMA AccountsMissNone ==
  ASSUME BoardTypes, NoneMissing, NEW u \in Accounts,
         Register(u) \/ Win(u) \/ LoseWin(u) \/ DeleteMe(u)
  PROVE  NoneMissing'
<1>1. CASE LoseWin(u) \/ DeleteMe(u)
  BY <1>1 DEF LoseWin, DeleteMe, NoneMissing
<1>2. CASE Register(u) \/ Win(u)
  <2>1. UNCHANGED <<rows, cursor, more, load, sank>>
    BY <1>2 DEF Register, Win, PageOnly
  <2>2. ASSUME NEW v \in Staying'
        PROVE  v \in Staying /\ Before(v) \subseteq Before(v)'
    <3>1. v \in Staying /\ v # u /\ v \in Accounts /\ Live \subseteq Live'
      BY <1>2 DEF Register, Win, Staying, Live, BoardTypes
    <3>2. ASSUME NEW w \in Live, Above(w, v) PROVE Above(w, v)'
      <4>1. w \in Accounts /\ w \in Nat /\ v \in Nat /\ wins[w] \in Nat /\ wins[v] \in Nat
        BY <3>1, BoardAssumption DEF Live, BoardTypes
      <4>2. wins'[v] = wins[v] /\ (wins'[w] = wins[w] \/ wins'[w] = wins[w] + 1)
        BY <1>2, <3>1, <4>1 DEF Register, Win, BoardTypes
      <4> QED
        BY <3>2, <4>1, <4>2 DEF Above
    <3> QED
      BY <3>1, <3>2 DEF Before
  <2>3. ASSUME NEW v \in Staying'
        PROVE  v \in Staying /\ \A c \in Nat : Place(v)' <= c => Place(v) <= c
    BY <2>2, PlacesGrow
  <2>4. cursor \in Nat /\ \A l \in 1 .. Loads : load[l].cursor \in Nat
    BY DEF BoardTypes, LoadType
  <2> QED
    BY <2>1, <2>3, <2>4 DEF NoneMissing
<1> QED
  BY <1>1, <1>2

LEMMA ShownInBoth ==
  ASSUME NEW s \in Seq(Row), NEW t \in Seq(Row), NEW u, Shown(u, s) \/ Shown(u, t)
  PROVE  Shown(u, s \o t)
<1>1. /\ Len(s) \in Nat /\ Len(t) \in Nat /\ Len(s \o t) = Len(s) + Len(t)
      /\ \A i \in 1 .. Len(s) + Len(t) : (s \o t)[i] = IF i <= Len(s) THEN s[i] ELSE t[i - Len(s)]
  BY ConcatProperties
<1>2. ASSUME NEW i \in 1 .. Len(s), s[i].user = u PROVE Shown(u, s \o t)
  BY <1>1, <1>2 DEF Shown
<1>3. ASSUME NEW i \in 1 .. Len(t), t[i].user = u PROVE Shown(u, s \o t)
  <2>1. i + Len(s) \in 1 .. Len(s) + Len(t) /\ (s \o t)[i + Len(s)] = t[i]
    BY <1>1
  <2> QED
    BY <1>1, <1>3, <2>1 DEF Shown
<1> QED
  BY <1>2, <1>3 DEF Shown

(* The fields of an answer.                                                *)
LEMMA Answered ==
  ASSUME BoardTypes, NEW l \in 1 .. Loads, Leaderboard(l)
  PROVE  LET c == load[l].cursor
             list == Page(c)
         IN  /\ load'[l].rows = Rows(c, list) /\ load'[l].cursor = c + Len(list)
             /\ c + Len(list) < Cardinality(Live) => load'[l].more
<1> DEFINE c == load[l].cursor
           list == Page(c)
<1>1. load'[l] = [stage |-> "answered", cursor |-> c + Len(list),
                  rows |-> Rows(c, list), more |-> c + Len(list) < Cardinality(Live)]
  BY AnswerFacts DEF BoardTypes
<1> HIDE DEF c, list
<1>2. load'[l].rows = Rows(c, list) /\ load'[l].cursor = c + Len(list)
  BY <1>1
<1>3. ASSUME c + Len(list) < Cardinality(Live) PROVE load'[l].more
  <2>1. (c + Len(list) < Cardinality(Live)) = TRUE
    BY <1>3
  <2>2. load'[l] = [stage |-> "answered", cursor |-> c + Len(list), rows |-> Rows(c, list), more |-> TRUE]
    BY <1>1, <2>1, Zenon
  <2>3. load'[l].more = TRUE
    BY <2>2
  <2> QED
    BY <2>3
<1> QED
  BY <1>2, <1>3 DEF c, list

(* What the server answers with begins where the cursor is.                *)
LEMMA AnswerMissesNone ==
  ASSUME BoardTypes, NEW l \in 1 .. Loads, Leaderboard(l), NEW u \in Live,
         load[l].cursor < Place(u),
         Place(u) <= load'[l].cursor \/ ~load'[l].more
  PROVE  Shown(u, load'[l].rows)
<1> DEFINE c == load[l].cursor
           list == Page(c)
<1>1. /\ c \in Nat /\ Len(list) \in Nat /\ Len(Rows(c, list)) = Len(list)
      /\ \A i \in 1 .. Len(list) : Rows(c, list)[i] = [user |-> list[i], position |-> c + i]
  BY AnswerFacts
<1>2. Place(u) \in 1 .. Len(Ranking) /\ Ranking[Place(u)] = u /\ Len(Ranking) = Cardinality(Live)
      /\ Len(Ranking) \in Nat
  BY RankingIsByPlace, LiveIsFinite
<1>3. c < Place(u) /\ (Place(u) <= load'[l].cursor \/ ~load'[l].more)
  OBVIOUS
<1>4. \A i \in 1 .. Len(list) : list[i] = Ranking[Bounded(c) + i]
  BY <1>1, PageIsASlice
<1>5. /\ load'[l].rows = Rows(c, list) /\ load'[l].cursor = c + Len(list)
      /\ c + Len(list) < Cardinality(Live) => load'[l].more
  BY Answered
<1> HIDE DEF c, list
<1>6. Place(u) <= c + Len(list)
  BY <1>1, <1>2, <1>3, <1>5
<1>7. Bounded(c) = c
  BY <1>1, <1>2, <1>3, BoundedIsCapped
<1>8. Place(u) - c \in 1 .. Len(list) /\ list[Place(u) - c] = u
  BY <1>1, <1>2, <1>3, <1>4, <1>6, <1>7
<1>9. Rows(c, list)[Place(u) - c] = [user |-> u, position |-> c + (Place(u) - c)]
  BY <1>1, <1>8
<1> QED
  BY <1>1, <1>5, <1>8, <1>9 DEF Shown

LEMMA PageMissesNone ==
  ASSUME BoardTypes, NoneMissing, NEW l \in 1 .. Loads,
         LoadMore(l) \/ Leaderboard(l) \/ Show(l) \/ Fail(l)
  PROVE  NoneMissing'
<1>1. UNCHANGED accountVars /\ sank' = sank
  BY DEF LoadMore, Leaderboard, Show, Fail, accountVars
<1>2. Staying' = Staying /\ \A u : Place(u)' = Place(u)
  BY <1>1, SameRanking
<1>3. CASE LoadMore(l)
  <2>1. UNCHANGED <<rows, cursor, more>> /\ load'[l].stage = "asked" /\ load'[l].cursor = cursor
        /\ \A m \in 1 .. Loads : m # l => load'[m] = load[m]
    BY <1>3 DEF LoadMore, BoardTypes
  <2> QED
    BY <1>1, <1>2, <2>1 DEF NoneMissing
<1>4. CASE Fail(l)
  <2>1. UNCHANGED <<rows, cursor, more>> /\ load'[l].stage = "none"
        /\ \A m \in 1 .. Loads : m # l => load'[m] = load[m]
    BY <1>4 DEF Fail, NoLoad, BoardTypes
  <2> QED
    BY <1>1, <1>2, <2>1 DEF NoneMissing
<1>5. CASE Show(l)
  <2>1. /\ load[l].stage = "answered" /\ rows' = rows \o load[l].rows
        /\ cursor' = load[l].cursor /\ more' = load[l].more /\ load'[l].stage = "none"
        /\ \A m \in 1 .. Loads : m # l => load'[m] = load[m]
    BY <1>5 DEF Show, NoLoad, BoardTypes
  <2>2. rows \in Seq(Row) /\ load[l].rows \in Seq(Row)
    BY DEF BoardTypes, LoadType
  <2>3. \A u : Shown(u, rows) \/ Shown(u, load[l].rows) => Shown(u, rows')
    BY <2>1, <2>2, ShownInBoth
  <2> QED
    BY <1>1, <1>2, <2>1, <2>3 DEF NoneMissing
<1>6. CASE Leaderboard(l)
  <2>1. /\ load[l].stage = "asked" /\ load'[l].stage = "answered"
        /\ UNCHANGED <<rows, cursor, more>>
        /\ \A m \in 1 .. Loads : m # l => load'[m] = load[m]
    BY <1>6 DEF Leaderboard, BoardTypes
  <2>2. ASSUME ~sank, NEW u \in Staying, Place(u) <= load'[l].cursor \/ ~load'[l].more
        PROVE  Shown(u, rows) \/ Shown(u, load'[l].rows)
    <3>1. u \in Live /\ Place(u) \in Nat /\ load[l].cursor \in Nat
      <4>1. u \in Live
        BY DEF Staying
      <4>2. Place(u) \in Nat
        BY <4>1, PlacesInRange, LiveIsFinite
      <4> QED
        BY <4>1, <4>2 DEF BoardTypes, LoadType
    <3>2. CASE Place(u) <= load[l].cursor
      BY <2>1, <2>2, <3>2 DEF NoneMissing
    <3>3. CASE load[l].cursor < Place(u)
      BY <1>6, <2>2, <3>1, <3>3, AnswerMissesNone
    <3> QED
      BY <3>1, <3>2, <3>3
  <2> QED
    BY <1>1, <1>2, <2>1, <2>2 DEF NoneMissing
<1> QED
  BY <1>3, <1>4, <1>5, <1>6

(* What changes the accounts is not quiet.                                 *)
LEMMA AccountsFit ==
  ASSUME NEW u \in Accounts, Register(u) \/ Win(u) \/ LoseWin(u) \/ DeleteMe(u)
  PROVE  PiecesFit'
<1>1. rose' # {} \/ sank'
  BY DEF Register, Win, LoseWin, DeleteMe
<1> QED
  BY <1>1 DEF PiecesFit, Quiet



LEMMA LoadMoreFits ==
  ASSUME BoardTypes, PiecesFit, NEW l \in 1 .. Loads, LoadMore(l)
  PROVE  PiecesFit'
<1> SUFFICES ASSUME Quiet' PROVE PiecesFit'
  BY DEF PiecesFit
<1>1. Quiet /\ \A m \in 1 .. Loads : load[m] = NoLoad
  BY DEF LoadMore, Quiet, accountVars, BoardTypes
<1>2. /\ load'[l].stage = "asked" /\ load'[l].cursor = cursor
      /\ \A m \in 1 .. Loads : m # l => load'[m] = NoLoad
      /\ UNCHANGED <<rows, cursor, more>> /\ UNCHANGED accountVars
  BY <1>1 DEF LoadMore, BoardTypes
<1>3. Len(rows) = cursor /\ Piece(0, rows) /\ Ends(cursor, more)
  BY <1>1 DEF PiecesFit
<1>4. Piece(0, rows)' /\ Ends(cursor, more)'
  BY <1>2, <1>3, SameRanking DEF Piece, Ends
<1>5. NoLoad.stage = "none"
  BY DEF NoLoad
<1> QED
  BY <1>2, <1>3, <1>4, <1>5 DEF PiecesFit

LEMMA FailFits ==
  ASSUME BoardTypes, PiecesFit, NEW l \in 1 .. Loads, Fail(l)
  PROVE  PiecesFit'
<1> SUFFICES ASSUME Quiet' PROVE PiecesFit'
  BY DEF PiecesFit
<1>1. UNCHANGED <<rows, cursor, more, overlapped>> /\ UNCHANGED accountVars /\ load[l] # NoLoad
  BY DEF Fail
<1>2. Quiet
  BY <1>1 DEF Quiet, accountVars
<1>3. \A m \in 1 .. Loads : load'[m] = NoLoad
  BY <1>1, <1>2 DEF Fail, PiecesFit, BoardTypes
<1>4. NoLoad.stage = "none"
  BY DEF NoLoad
<1>5. Len(rows) = cursor /\ Piece(0, rows) /\ Ends(cursor, more)
  BY <1>2 DEF PiecesFit
<1>6. Piece(0, rows)' /\ Ends(cursor, more)'
  BY <1>1, <1>5, SameRanking DEF Piece, Ends
<1> QED
  BY <1>1, <1>3, <1>4, <1>5, <1>6 DEF PiecesFit

(* The answer goes on where the rows end, and says whether it is the end.  *)
LEMMA AnswerFits ==
  ASSUME BoardTypes, PiecesFit, NEW l \in 1 .. Loads, Leaderboard(l)
  PROVE  PiecesFit'
<1> SUFFICES ASSUME Quiet' PROVE PiecesFit'
  BY DEF PiecesFit
<1>1. UNCHANGED <<rows, cursor, more, overlapped>> /\ UNCHANGED accountVars /\ load[l].stage = "asked"
  BY DEF Leaderboard
<1>2. Quiet /\ load[l] # NoLoad
  BY <1>1 DEF Quiet, accountVars, NoLoad
<1>3. /\ load[l].cursor = cursor /\ cursor \in Nat /\ Len(rows) = cursor /\ cursor <= Cardinality(Live)
      /\ Piece(0, rows) /\ Ends(cursor, more)
      /\ \A m \in 1 .. Loads : m # l => load[m] = NoLoad
  BY <1>1, <1>2 DEF PiecesFit, Ends, BoardTypes
<1>4. /\ \A m \in 1 .. Loads : m # l => load'[m] = NoLoad
      /\ load'[l].stage = "answered"
  BY <1>3 DEF Leaderboard, BoardTypes
<1> DEFINE list == Page(cursor)
<1>5. /\ load'[l].rows = Rows(cursor, list) /\ load'[l].cursor = cursor + Len(list)
      /\ cursor + Len(list) < Cardinality(Live) => load'[l].more
  BY <1>3, Answered
<1>6. /\ Len(list) \in Nat /\ Len(Rows(cursor, list)) = Len(list)
      /\ \A i \in 1 .. Len(list) : Rows(cursor, list)[i] = [user |-> list[i], position |-> cursor + i]
  BY <1>3, AnswerFacts
<1>7. /\ Bounded(cursor) = cursor /\ Len(Ranking) = Cardinality(Live) /\ Cardinality(Live) \in Nat
      /\ Bounded(cursor + Limit) <= Cardinality(Live) /\ Bounded(cursor + Limit) \in Nat
  BY <1>3, RankingIsByPlace, LiveIsFinite, BoundedIsCapped, BoardAssumption
<1>8. /\ Len(list) = Bounded(cursor + Limit) - Bounded(cursor)
      /\ \A i \in 1 .. Len(list) : list[i] = Ranking[Bounded(cursor) + i]
  BY <1>3, PageIsASlice
<1> HIDE DEF list
<1>9. Piece(cursor, load'[l].rows)
  BY <1>5, <1>6, <1>7, <1>8 DEF Piece
<1>10. Ends(load'[l].cursor, load'[l].more)
  BY <1>3, <1>5, <1>6, <1>7, <1>8 DEF Ends
<1>11. /\ Piece(0, rows)' /\ Ends(cursor, more)'
       /\ Piece(cursor, load[l].rows)' /\ Ends(load[l].cursor, load[l].more)'
  BY <1>1, <1>3, <1>9, <1>10, SameRanking DEF Piece, Ends
<1>12. NoLoad.stage = "none"
  BY DEF NoLoad
<1>13. load'[l].cursor = cursor + Len(load'[l].rows)
  BY <1>5, <1>6
<1> QED
  BY <1>1, <1>3, <1>4, <1>11, <1>12, <1>13 DEF PiecesFit

(* The answer is put after the rows that are shown.                        *)
LEMMA ShowFits ==
  ASSUME BoardTypes, PiecesFit, NEW l \in 1 .. Loads, Show(l)
  PROVE  PiecesFit'
<1> SUFFICES ASSUME Quiet' PROVE PiecesFit'
  BY DEF PiecesFit
<1>1. /\ load[l].stage = "answered" /\ rows' = rows \o load[l].rows
      /\ cursor' = load[l].cursor /\ more' = load[l].more
      /\ UNCHANGED overlapped /\ UNCHANGED accountVars
  BY DEF Show
<1>2. Quiet /\ load[l] # NoLoad
  BY <1>1 DEF Quiet, accountVars, NoLoad
<1>3. /\ load[l].cursor = cursor + Len(load[l].rows) /\ Len(rows) = cursor
      /\ Piece(0, rows) /\ Piece(cursor, load[l].rows) /\ Ends(load[l].cursor, load[l].more)
  BY <1>1, <1>2 DEF PiecesFit
<1>4. \A m \in 1 .. Loads : load'[m] = NoLoad
  BY <1>2 DEF Show, PiecesFit, BoardTypes
<1>5. rows \in Seq(Row) /\ load[l].rows \in Seq(Row)
  BY DEF BoardTypes, LoadType
<1>6. /\ Len(rows) \in Nat /\ Len(load[l].rows) \in Nat /\ Len(rows') = Len(rows) + Len(load[l].rows)
      /\ \A i \in 1 .. Len(rows) + Len(load[l].rows) :
           rows'[i] = IF i <= Len(rows) THEN rows[i] ELSE load[l].rows[i - Len(rows)]
  BY <1>1, <1>5, ConcatProperties
<1>7. Piece(0, rows')
  <2> SUFFICES ASSUME NEW i \in 1 .. Len(rows') PROVE rows'[i] = [user |-> Ranking[0 + i], position |-> 0 + i]
    BY DEF Piece
  <2>1. CASE i <= Len(rows)
    <3>1. i \in 1 .. Len(rows) /\ rows'[i] = rows[i]
      BY <1>6, <2>1
    <3>2. rows[i] = [user |-> Ranking[0 + i], position |-> 0 + i]
      BY <1>3, <3>1 DEF Piece
    <3> QED
      BY <3>1, <3>2
  <2>2. CASE i > Len(rows)
    <3>1. i - cursor \in 1 .. Len(load[l].rows) /\ cursor + (i - cursor) = 0 + i
      BY <1>3, <1>6, <2>2
    <3>2. rows'[i] = load[l].rows[i - cursor]
      BY <1>3, <1>6, <2>2
    <3> QED
      BY <1>3, <3>1, <3>2 DEF Piece
  <2> QED
    BY <1>6, <2>1, <2>2
<1>8. Piece(0, rows)' /\ Ends(cursor, more)'
  BY <1>1, <1>3, <1>7, SameRanking DEF Piece, Ends
<1>9. NoLoad.stage = "none"
  BY DEF NoLoad
<1> QED
  BY <1>1, <1>3, <1>4, <1>6, <1>8, <1>9 DEF PiecesFit

LEMMA InitBoardInv == BoardInit => BoardInv
<1> SUFFICES ASSUME BoardInit PROVE BoardInv
  OBVIOUS
<1>1. NoLoad \in LoadType /\ NoLoad.stage = "none"
  BY DEF NoLoad, LoadType
<1>2. \A l \in 1 .. Loads : load[l] = NoLoad
  BY DEF BoardInit
<1>3. BoardTypes
  <2>1. wins \in [Accounts -> Nat]
    BY DEF BoardInit
  <2>2. status \in [Accounts -> {"absent", "live", "deleted"}]
    BY DEF BoardInit
  <2> QED
    <3>1. load \in [1 .. Loads -> LoadType]
      BY <1>1 DEF BoardInit
    <3>2. rows \in Seq(Row)
      BY DEF BoardInit
    <3> QED
      BY <1>1, <1>2, <2>1, <2>2, <3>1, <3>2 DEF BoardInit, BoardTypes
<1>4. NoneMissing
  <2>1. ASSUME NEW u \in Staying, Place(u) <= 0 PROVE FALSE
    BY <1>3, <2>1, PlacesInRange, LiveIsFinite DEF Staying
  <2> QED
    BY <1>1, <1>2, <2>1 DEF BoardInit, NoneMissing
<1>5. PiecesFit
  BY <1>1, <1>2, LiveIsFinite DEF BoardInit, PiecesFit, Piece, Ends
<1> QED
  BY <1>3, <1>4, <1>5 DEF BoardInv

LEMMA NextBoardInv == BoardInv /\ [BoardNext]_boardVars => BoardInv'
<1> SUFFICES ASSUME BoardInv, [BoardNext]_boardVars PROVE BoardInv'
  OBVIOUS
<1>1. BoardTypes /\ NoneMissing /\ PiecesFit /\ BoardTypes'
  BY BoardTypesStep DEF BoardInv
<1>2. ASSUME NEW l \in 1 .. Loads, LoadMore(l) \/ Leaderboard(l) \/ Show(l) \/ Fail(l)
      PROVE  NoneMissing' /\ PiecesFit'
  BY <1>1, <1>2, PageMissesNone, LoadMoreFits, AnswerFits, ShowFits, FailFits
<1>3. ASSUME NEW u \in Accounts, Register(u) \/ Win(u) \/ LoseWin(u) \/ DeleteMe(u)
      PROVE  NoneMissing' /\ PiecesFit'
  BY <1>1, <1>3, AccountsMissNone, AccountsFit
<1>4. CASE UNCHANGED boardVars
  <2>1. UNCHANGED accountVars /\ UNCHANGED <<rows, cursor, more, load, overlapped>> /\ sank' = sank
    BY <1>4 DEF boardVars, accountVars
  <2>2. NoneMissing'
    BY <1>1, <2>1, SameRanking DEF NoneMissing
  <2>3. Quiet' <=> Quiet
    BY <2>1 DEF Quiet, accountVars
  <2>4. PiecesFit'
    BY <1>1, <2>1, <2>3, SameRanking DEF PiecesFit, Piece, Ends
  <2> QED
    BY <1>1, <2>2, <2>4 DEF BoardInv
<1> QED
  BY <1>1, <1>2, <1>3, <1>4 DEF BoardNext, BoardInv

THEOREM BoardInvariance == BoardSpec => []BoardInv
BY InitBoardInv, NextBoardInv, PTL DEF BoardSpec

(* Once the page has nothing more to ask for, everybody who was there all  *)
(* the time and did not win is shown, whoever else won or registered and   *)
(* in whatever order overlapping answers came.                             *)
THEOREM NobodySkipped == BoardSpec => []NobodyIsSkipped
<1>1. BoardInv => NobodyIsSkipped
  <2> SUFFICES ASSUME BoardInv, ~sank, ~more, NEW u \in Live \ rose
               PROVE  \E i \in DOMAIN rows : rows[i].user = u
    BY DEF NobodyIsSkipped
  <2>1. Shown(u, rows)
    BY DEF BoardInv, NoneMissing, Staying
  <2>2. DOMAIN rows = 1 .. Len(rows)
    BY DEF BoardInv, BoardTypes
  <2> QED
    BY <2>1, <2>2 DEF Shown
<1> QED
  BY <1>1, BoardInvariance, PTL

(* While nobody's place changes and one call waits at a time, the page is  *)
(* the ranking as far as it has been loaded, with its positions.           *)
THEOREM RankingIsShown == BoardSpec => []ShowsTheRanking
<1>1. BoardInv => ShowsTheRanking
  <2> SUFFICES ASSUME BoardInv, ~overlapped, rose = {}, ~sank PROVE ShowsTheRanking
    BY DEF ShowsTheRanking
  <2> DEFINE ranked == [i \in DOMAIN Ranking |-> [user |-> Ranking[i], position |-> i]]
  <2>1. /\ Len(rows) = cursor /\ Piece(0, rows) /\ Ends(cursor, more)
        /\ rows \in Seq(Row) /\ Len(rows) \in Nat /\ cursor \in Nat
    BY DEF BoardInv, BoardTypes, PiecesFit, Quiet
  <2>2. /\ Ranking \in Seq(Live) /\ Len(Ranking) = Cardinality(Live) /\ Len(Ranking) \in Nat
        /\ DOMAIN Ranking = 1 .. Len(Ranking)
        /\ \A i \in 1 .. Len(Ranking) : Ranking[i] \in Accounts
    BY RankingIsByPlace, LiveIsFinite DEF BoardInv
  <2>3. ranked \in [1 .. Len(Ranking) -> Row]
    BY <2>2 DEF Row
  <2>4. ranked \in Seq(Row) /\ Len(ranked) = Len(Ranking)
    BY <2>2, <2>3, SeqDef, LenProperties
  <2>5. \A i \in 1 .. Len(rows) : rows[i] = [user |-> Ranking[i], position |-> i]
    BY <2>1 DEF Piece
  <2>6. Len(rows) <= Len(Ranking)
    BY <2>1, <2>2 DEF Ends
  <2>7. \A i \in 1 .. Len(rows) : rows[i] = ranked[i]
    BY <2>1, <2>2, <2>5, <2>6
  <2> HIDE DEF ranked
  <2>8. IsPrefix(rows, ranked)
    <3>1. SubSeq(rows, 1, Len(rows)) = rows
      BY <2>1, SubSeqFull
    <3>2. /\ SubSeq(ranked, 1, Len(rows)) \in Seq(Row)
          /\ Len(SubSeq(ranked, 1, Len(rows))) = Len(rows)
          /\ \A i \in 1 .. Len(rows) : SubSeq(ranked, 1, Len(rows))[i] = ranked[i]
      <4>1. \A i \in 1 .. Len(rows) : ranked[i] \in Row
        BY <2>1, <2>2, <2>3, <2>6
      <4> QED
        BY <2>1, <4>1, SubSeqProperties
    <3>3. SubSeq(ranked, 1, Len(rows)) = rows
      BY <2>1, <2>7, <3>2, SeqEqual
    <3> QED
      BY <2>4, <2>6, <3>1, <3>3 DEF IsPrefix
  <2>9. ASSUME ~more PROVE rows = ranked
    <3>1. Len(rows) = Len(ranked)
      BY <2>1, <2>2, <2>4, <2>9 DEF Ends
    <3> QED
      BY <2>1, <2>4, <2>7, <3>1, SeqEqual
  <2> QED
    BY <2>8, <2>9 DEF ShowsTheRanking, ranked
<1> QED
  BY <1>1, BoardInvariance, PTL

-----------------------------------------------------------------------------
(* The three together.                                                     *)

(* Putting the parts side by side takes nothing away from any of them:     *)
(* each step of one leaves the others' variables alone.                    *)
THEOREM PartsKeepTheirPromises ==
  StandaloneSpec => Spec /\ PracticeSpec /\ BoardSpec
<1>1. StandaloneInit => Init /\ PracticeInit /\ BoardInit
  BY DEF StandaloneInit
<1>2. [StandaloneNext]_standaloneVars =>
        /\ [Next]_vars
        /\ [PracticeNext]_practiceVars
        /\ [BoardNext]_boardVars
  BY DEF StandaloneNext, standaloneVars, limiterVars
<1> QED
  BY <1>1, <1>2, PTL DEF StandaloneSpec, Spec, PracticeSpec, BoardSpec

=============================================================================
