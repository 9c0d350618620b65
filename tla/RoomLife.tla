------------------------------ MODULE RoomLife ------------------------------
(***************************************************************************)
(* The life of a room as the hub depends on it: who has to get ready, when *)
(* it takes what is put on its channel, and when it stops for good.        *)
(*                                                                         *)
(* Hub builds its rooms from these operators; GameRoom, which has all that *)
(* happens between the start and the end of a match, implements Spec.      *)
(***************************************************************************)
EXTENDS Naturals, Sequences

CONSTANT ActionsCap  \* make(chan Action, 16)

VARIABLE life  \* a record with fields players, status, ready and actions

Alive == life.status \in {"waiting", "in_progress"}

(* The same room, further on.                                              *)
Becomes(status, ready, actions) ==
  [players |-> life.players, status |-> status, ready |-> ready, actions |-> actions]

(* A send on r.Actions that does not find room drops the action.           *)
Offered(a) ==
  IF Len(life.actions) < ActionsCap
  THEN Becomes(life.status, life.ready, Append(life.actions, a))
  ELSE life

(* handleAction, as far as the status goes: the submit messages and resync *)
(* never change it.                                                        *)
MayTake == Alive /\ life.actions # <<>>
Taken ==
  LET a == Head(life.actions)
      ready == IF a.type = "set_ready" THEN life.ready \cup {a.from} ELSE life.ready
      left == a.type = "leave_room"
      status == CASE left /\ life.status = "waiting"     -> "abandoned"
                  [] left /\ life.status = "in_progress" -> "completed"
                  [] ~left /\ ready = life.players       -> "in_progress"
                  [] OTHER                               -> life.status
  IN  Becomes(status, ready, Tail(life.actions))

(* The last round is over.                                                 *)
MayEnd == life.status = "in_progress"
Played == Becomes("completed", life.ready, life.actions)

Init == /\ life.status = "waiting" /\ life.ready = {} /\ life.actions = <<>>

Next == \/ MayTake /\ life' = Taken
        \/ MayEnd /\ life' = Played
        \/ \E p \in life.players, t \in {"set_ready", "leave_room", "submit_steal", "submit_guess", "resync"} :
             life' = Offered([from |-> p, type |-> t])

Spec == Init /\ [][Next]_life
=============================================================================
