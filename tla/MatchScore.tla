----------------------------- MODULE MatchScore -----------------------------
(***************************************************************************)
(* What a two-player SHIFT match promises, with no phases, timers, objects *)
(* or messages: every round is worth exactly one point, the players take   *)
(* the stealer's role in turn, a match lasts TotalRounds rounds and one    *)
(* sudden-death round if they end level, and it ends with a player ahead.  *)
(* GameRoom (the room actor of internal/game/room.go) implements it.       *)
(***************************************************************************)
EXTENDS Integers

CONSTANTS PlayerA, PlayerB, NoPlayer, TotalRounds

VARIABLES status,   \* "waiting", "in_progress", "completed" or "abandoned"
          round,    \* the round being played, 0 before the match starts
          stealer,  \* who steals in this round
          awarded,  \* whether this round's point has been given
          scores    \* points of each player

matchVars == <<status, round, stealer, awarded, scores>>

Players == {PlayerA, PlayerB}
Rival(p) == IF p = PlayerA THEN PlayerB ELSE PlayerA
Level == scores[PlayerA] = scores[PlayerB]

Init == /\ status = "waiting"
        /\ round = 0
        /\ stealer = NoPlayer
        /\ awarded = FALSE
        /\ scores = [p \in Players |-> 0]

(* Both players are in: the match starts and a coin picks the stealer.     *)
Start == /\ status = "waiting"
         /\ status' = "in_progress"
         /\ round' = 1
         /\ stealer' \in Players
         /\ UNCHANGED <<awarded, scores>>

(* The round is decided: one player, whichever, gets its single point.     *)
Award == /\ status = "in_progress"
         /\ ~awarded
         /\ awarded' = TRUE
         /\ \E p \in Players : scores' = [scores EXCEPT ![p] = @ + 1]
         /\ UNCHANGED <<status, round, stealer>>

(* The next round: only after a decided one, and past TotalRounds only     *)
(* for the one round that settles a level match.                           *)
NextRound == /\ status = "in_progress"
             /\ awarded
             /\ round < TotalRounds \/ (round = TotalRounds /\ Level)
             /\ round' = round + 1
             /\ stealer' = Rival(stealer)
             /\ awarded' = FALSE
             /\ UNCHANGED <<status, scores>>

(* The match is over when its rounds are and one player is ahead.          *)
Finish == /\ status = "in_progress"
          /\ awarded
          /\ round >= TotalRounds
          /\ ~Level
          /\ status' = "completed"
          /\ UNCHANGED <<round, stealer, awarded, scores>>

(* A player walks out of a running match and ends behind the other one.    *)
Forfeit == /\ status = "in_progress"
           /\ status' = "completed"
           /\ awarded' = TRUE
           /\ \E p \in Players :
                \/ scores[Rival(p)] > scores[p] /\ scores' = scores
                \/ /\ scores[Rival(p)] <= scores[p]
                   /\ scores' = [scores EXCEPT ![Rival(p)] = scores[p] + 1]
           /\ UNCHANGED <<round, stealer>>

(* A room nobody has started to play in is given up.                       *)
Abandon == /\ status = "waiting"
           /\ status' = "abandoned"
           /\ UNCHANGED <<round, stealer, awarded, scores>>

Next == Start \/ Award \/ NextRound \/ Finish \/ Forfeit \/ Abandon

Spec == Init /\ [][Next]_matchVars
=============================================================================
