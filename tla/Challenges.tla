----------------------------- MODULE Challenges -----------------------------
(***************************************************************************)
(* The challenge manager of internal/lobby/challenges.go: challenges are   *)
(* made, answered by the player they are for, and expired by a sweep that  *)
(* runs every five seconds and looks for those older than a minute.        *)
(*                                                                         *)
(* A challenge that has expired is no longer in the manager's map; its     *)
(* status here says so.  Of its age only whether it is past the minute     *)
(* matters.  The match type, difficulty and mode are left out.             *)
(*                                                                         *)
(* A definition headed "Mutant" is a plausible mistake in the definition it*)
(* names, for a property to catch; it is no part of the specification.     *)
(***************************************************************************)
EXTENDS Naturals, FiniteSets

CONSTANTS Users,
          ChallengeIDs,  \* bound: challenges ever made
          RoomIDs,       \* bound: rooms ever made
          NoUser, NoRoom

ASSUME NothingAssumption == NoUser \notin Users /\ NoRoom \notin RoomIDs

VARIABLES challenges,  \* every challenge made, expired ones included
          toNotify     \* sweepLoop's expired slice: challengers still to be told

challengeVars == <<challenges, toNotify>>

NoChallenge == [challenger |-> NoUser, challenged |-> NoUser, status |-> "none",
                room |-> NoRoom, old |-> FALSE]

Pending(id) == challenges[id].status = "pending"
UsedRooms == {challenges[id].room : id \in ChallengeIDs}

(* A challenge past the minute and not answered.                           *)
Overdue(id) == Pending(id) /\ challenges[id].old

(* Create; idgen gives an id that is no one else's.                        *)
Create(id, challenger, challenged) ==
  /\ challenger # challenged
  /\ challenges[id] = NoChallenge
  /\ challenges' = [challenges EXCEPT ![id] =
                      [NoChallenge EXCEPT !.challenger = challenger, !.challenged = challenged,
                                          !.status = "pending"]]
  /\ UNCHANGED toNotify

Answerable(id, responder) == Pending(id) /\ challenges[id].challenged = responder

(* Respond, when it returns no error.                                      *)
Accept(id, responder) ==
  /\ Answerable(id, responder)
  /\ \E r \in RoomIDs \ UsedRooms :
       challenges' = [challenges EXCEPT ![id].status = "accepted", ![id].room = r]
  /\ UNCHANGED toNotify

Decline(id, responder) ==
  /\ Answerable(id, responder)
  /\ challenges' = [challenges EXCEPT ![id].status = "declined"]
  /\ UNCHANGED toNotify

(* now.Sub(c.CreatedAt) passes expirySeconds.                              *)
MinutePasses(id) ==
  /\ challenges[id].status # "none"
  /\ ~challenges[id].old
  /\ challenges' = [challenges EXCEPT ![id].old = TRUE]
  /\ UNCHANGED toNotify

(* Mutant of Sweepable: the answered ones are swept with the others.       *)
SweepAllOld == {id \in ChallengeIDs : challenges[id].old /\ challenges[id].status # "expired"}

(* Mutant of Sweepable: the age is compared the wrong way round.           *)
SweepYoung == {id \in ChallengeIDs : Pending(id) /\ ~challenges[id].old}

Sweepable == {id \in ChallengeIDs : Overdue(id)}

(* One tick of sweepLoop, under the lock.  The loop is one goroutine: it   *)
(* notifies everybody before it looks at the ticker again.                 *)
Sweep ==
  /\ toNotify = {}
  /\ Sweepable # {}
  /\ challenges' = [id \in ChallengeIDs |->
                      IF id \in Sweepable THEN [challenges[id] EXCEPT !.status = "expired"]
                      ELSE challenges[id]]
  /\ toNotify' = Sweepable

(* onExpire, outside the lock.                                             *)
NotifyExpired(id) ==
  /\ id \in toNotify
  /\ toNotify' = toNotify \ {id}
  /\ UNCHANGED challenges

Init == /\ challenges = [id \in ChallengeIDs |-> NoChallenge]
        /\ toNotify = {}

Next ==
  \/ \E id \in ChallengeIDs :
       \/ \E p, q \in Users : Create(id, p, q)
       \/ \E p \in Users : Accept(id, p) \/ Decline(id, p)
       \/ MinutePasses(id)
       \/ NotifyExpired(id)
  \/ Sweep

Spec == Init /\ [][Next]_challengeVars

(* Time passes, the ticker of sweepLoop keeps ticking and its goroutine    *)
(* runs.  Nobody has to answer a challenge.                                *)
Fairness == /\ \A id \in ChallengeIDs : WF_challengeVars(MinutePasses(id))
            /\ \A id \in ChallengeIDs : WF_challengeVars(NotifyExpired(id))
            /\ WF_challengeVars(Sweep)

FairSpec == Spec /\ Fairness

-----------------------------------------------------------------------------
(* Properties.                                                             *)

(* The values of the variables; the accepted challenges, and no others,    *)
(* have a room.                                                            *)
TypeOK ==
  /\ challenges \in [ChallengeIDs -> [challenger : Users \cup {NoUser}, challenged : Users \cup {NoUser},
                                      status : {"none", "pending", "accepted", "declined", "expired"},
                                      room : RoomIDs \cup {NoRoom}, old : BOOLEAN]]
  /\ \A id \in ChallengeIDs : challenges[id].status = "accepted" <=> challenges[id].room # NoRoom
  /\ toNotify \subseteq ChallengeIDs

(* A challenge has one outcome: an answer and the sweep, or two answers,   *)
(* exclude each other (Respond and sweepLoop look at the status under the  *)
(* lock).                                                                  *)
SettledOnce ==
  [][\A id \in ChallengeIDs :
       challenges[id].status \in {"accepted", "declined", "expired"}
         => challenges'[id].status = challenges[id].status]_challengeVars

(* The challenger is told of an expiry only when nobody can answer any     *)
(* more, and only of a challenge that had its full minute.                 *)
OnlyExpiredAnnounced ==
  \A id \in toNotify : challenges[id].status = "expired" /\ challenges[id].old

(* No challenge stays open for ever, answered or not.                      *)
EventuallySettled ==
  \A id \in ChallengeIDs : Pending(id) ~> ~Pending(id)
=============================================================================
