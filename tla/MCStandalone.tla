----------------------------- MODULE MCStandalone -----------------------------
(***************************************************************************)
(* Small instances of three parts that share no state with any other: the  *)
(* rate limiter, the leaderboard's page and practice against the computer. *)
(* A behaviour is of one of them, and the others stay where they began.    *)
(***************************************************************************)
EXTENDS RateLimiter, Leaderboard, VsComputer

VARIABLE part

limiterVars == vars
standaloneVars == <<part, limiterVars, practiceVars, boardVars>>

(* The parts that a behaviour is not about have one initial state.         *)
OtherBoard == /\ status = [u \in Accounts |-> "absent"] /\ wins = [u \in Accounts |-> 0]

StandaloneInit ==
  /\ part \in {"limiter", "board", "practice"}
  /\ Init /\ PracticeInit /\ BoardInit
  /\ part # "board" => OtherBoard

StandaloneNext ==
  \/ part = "limiter" /\ Next /\ UNCHANGED <<part, practiceVars, boardVars>>
  \/ part = "board" /\ BoardNext /\ UNCHANGED <<part, limiterVars, practiceVars>>
  \/ part = "practice" /\ PracticeNext /\ UNCHANGED <<part, limiterVars, boardVars>>

StandaloneSpec == StandaloneInit /\ [][StandaloneNext]_standaloneVars
=============================================================================
