----------------------------- MODULE VsComputer -----------------------------
(***************************************************************************)
(* Practice against the computer, web/static/js/ai.js: the browser plays a *)
(* match of its own and asks the server for objects only.  A step is one   *)
(* callback, a timer of the page or a click, together with the fetches it  *)
(* waits for: the page offers nothing to click on meanwhile.               *)
(*                                                                         *)
(* A definition headed "Mutant" is a plausible mistake in the definition it*)
(* names, for a property to catch; it is no part of the specification.     *)
(***************************************************************************)
EXTENDS Integers, FiniteSets

CONSTANTS Pool,           \* objects the server may send
          NoObject,
          ObjectCount,    \* cfg.objects
          GuessAttempts,  \* cfg.guessAttempts
          Rounds,         \* totalRounds to begin with
          MaxRounds       \* bound: rounds, sudden death included

ASSUME ObjectsAssumption == NoObject \notin Pool /\ IsFiniteSet(Pool)
ASSUME NumbersAssumption == /\ {ObjectCount, GuessAttempts, Rounds, MaxRounds} \subseteq Nat \ {0}
                            /\ 2 * ObjectCount <= Cardinality(Pool)
                            /\ GuessAttempts <= ObjectCount

VARIABLES page,         \* what the page shows, and so what it waits for
          round, totalRounds,
          scores,       \* of "you" and "ai"
          youStealFirst, youAreStealer,
          yourObjects, aiObjects,
          stolen,
          wrongIds, attemptsLeft

drawVars == <<youAreStealer, yourObjects, aiObjects>>
guessVars == <<wrongIds, attemptsLeft>>
practiceVars == <<page, round, totalRounds, scores, youStealFirst, drawVars, stolen, guessVars>>

Sides == {"you", "ai"}
OtherSide(s) == IF s = "you" THEN "ai" ELSE "you"

(* drawObjects: one list of 2 * ObjectCount objects, cut in two.           *)
DrawObjects ==
  \E all \in {S \in SUBSET Pool : Cardinality(S) = 2 * ObjectCount} :
    \E half \in {S \in SUBSET all : Cardinality(S) = ObjectCount} :
      yourObjects' = half /\ aiObjects' = all \ half

YouStealIn(r, first) == IF r % 2 = 1 THEN first ELSE ~first

(* playRound, up to renderMemorization, for round'.                        *)
PlayRound ==
  /\ DrawObjects
  /\ youAreStealer' = YouStealIn(round', youStealFirst')
  /\ page' = "memorize"

Start ==
  /\ page = "new"
  /\ round' = 1
  /\ youStealFirst' \in BOOLEAN
  /\ PlayRound
  /\ UNCHANGED <<totalRounds, scores, stolen, guessVars>>

(* Mutant of ComputerSteals: the guesses of an earlier round are kept.     *)
StealAndKeep ==
  /\ stolen' \in aiObjects
  /\ page' = "your_guess"
  /\ attemptsLeft' = GuessAttempts
  /\ UNCHANGED wrongIds

(* The computer picks among aiObjects, and renderYourGuess starts afresh.  *)
ComputerSteals ==
  /\ stolen' \in aiObjects
  /\ page' = "your_guess"
  /\ attemptsLeft' = GuessAttempts
  /\ wrongIds' = {}

(* beginSteal, when the memorization interval runs out.                    *)
BeginSteal ==
  /\ page = "memorize"
  /\ \/ youAreStealer /\ page' = "your_steal" /\ UNCHANGED <<stolen, guessVars>>
     \/ ~youAreStealer /\ ComputerSteals
  /\ UNCHANGED <<round, totalRounds, scores, youStealFirst, drawVars>>

YouSteal(o) ==
  /\ page = "your_steal"
  /\ o \in aiObjects
  /\ stolen' = o
  /\ page' = "ai_guess"
  /\ UNCHANGED <<round, totalRounds, scores, youStealFirst, drawVars, guessVars>>

ResolveRound(correct, guesserSide) ==
  /\ scores' = [scores EXCEPT ![IF correct THEN guesserSide ELSE OtherSide(guesserSide)] = @ + 1]
  /\ page' = "result"

(* Math.random() < aiAccuracy.                                             *)
ComputerGuesses ==
  /\ page = "ai_guess"
  /\ \E correct \in BOOLEAN : ResolveRound(correct, "ai")
  /\ UNCHANGED <<round, totalRounds, youStealFirst, drawVars, stolen, guessVars>>

(* A click on one of your cards that is not marked wrong yet.              *)
YouGuess(o) ==
  /\ page = "your_guess"
  /\ o \in yourObjects \ wrongIds
  /\ wrongIds' = IF o = stolen THEN wrongIds ELSE wrongIds \cup {o}
  /\ attemptsLeft' = IF o = stolen THEN attemptsLeft ELSE attemptsLeft - 1
  /\ IF o = stolen \/ attemptsLeft' <= 0
     THEN ResolveRound(o = stolen, "you")
     ELSE UNCHANGED <<scores, page>>
  /\ UNCHANGED <<round, totalRounds, youStealFirst, drawVars, stolen>>

(* Mutant of NextRound: the tie is not looked at.                          *)
FinishInTime ==
  /\ page = "result"
  /\ \/ /\ round >= totalRounds
        /\ page' = "over"
        /\ UNCHANGED <<round, totalRounds, youStealFirst, drawVars>>
     \/ /\ round < totalRounds
        /\ round < MaxRounds
        /\ round' = round + 1
        /\ UNCHANGED <<totalRounds, youStealFirst>>
        /\ PlayRound
  /\ UNCHANGED <<scores, stolen, guessVars>>

(* A level match goes on, one round at a time; finish shows the end.       *)
NextRound ==
  /\ page = "result"
  /\ LET last == round >= totalRounds
         level == scores["you"] = scores["ai"]
     IN  \/ /\ last /\ ~level
            /\ page' = "over"
            /\ UNCHANGED <<round, totalRounds, youStealFirst, drawVars>>
         \/ /\ ~last \/ level
            /\ round < MaxRounds
            /\ totalRounds' = IF last THEN totalRounds + 1 ELSE totalRounds
            /\ round' = round + 1
            /\ UNCHANGED youStealFirst
            /\ PlayRound
  /\ UNCHANGED <<scores, stolen, guessVars>>

PracticeInit ==
  /\ page = "new"
  /\ round = 1
  /\ totalRounds = Rounds
  /\ scores = [s \in Sides |-> 0]
  /\ youStealFirst = FALSE
  /\ youAreStealer = FALSE
  /\ yourObjects = {} /\ aiObjects = {}
  /\ stolen = NoObject
  /\ wrongIds = {} /\ attemptsLeft = 0

PracticeNext ==
  \/ Start \/ BeginSteal \/ ComputerGuesses \/ NextRound
  \/ \E o \in Pool : YouSteal(o) \/ YouGuess(o)

PracticeSpec == PracticeInit /\ [][PracticeNext]_practiceVars

-----------------------------------------------------------------------------
(* Properties.                                                             *)

(* Practice ends on a winner, after all its rounds, each of which gave one *)
(* point: a level score after the last round always brings another.        *)
EndsOnAWinner ==
  /\ scores["you"] + scores["ai"] = IF page \in {"result", "over"} THEN round ELSE round - 1
  /\ page = "over" => round >= Rounds /\ scores["you"] # scores["ai"]

(* While you guess there is a card to click, and the attempts left and the *)
(* cards marked wrong make up the allowance.                               *)
CanGoOnGuessing ==
  page = "your_guess" => /\ attemptsLeft + Cardinality(wrongIds) = GuessAttempts
                         /\ attemptsLeft > 0
                         /\ yourObjects \ wrongIds # {}
=============================================================================
