-------------------------- MODULE ChallengesProofs --------------------------
(***************************************************************************)
(* The challenge manager settles every challenge once, and announces an    *)
(* expiry only when it is certain: for any number of challenges and users. *)
(***************************************************************************)
EXTENDS Challenges, TLAPS

Statuses == {"none", "pending", "accepted", "declined", "expired"}

ChallengeRecord == [challenger : Users \cup {NoUser}, challenged : Users \cup {NoUser},
                    status : Statuses, room : RoomIDs \cup {NoRoom}, old : BOOLEAN]

LEMMA TypesUnfold ==
  TypeOK <=> /\ challenges \in [ChallengeIDs -> ChallengeRecord]
             /\ \A id \in ChallengeIDs : challenges[id].status = "accepted" <=> challenges[id].room # NoRoom
             /\ toNotify \subseteq ChallengeIDs
BY DEF TypeOK, ChallengeRecord, Statuses

LEMMA NothingMade ==
  NoChallenge \in ChallengeRecord /\ NoChallenge.status = "none" /\ NoChallenge.room = NoRoom
BY DEF NoChallenge, ChallengeRecord, Statuses

(* A step that changes one challenge and nothing else.                     *)
LEMMA OneChanges ==
  ASSUME TypeOK, NEW id \in ChallengeIDs, NEW c \in ChallengeRecord,
         challenges' = [challenges EXCEPT ![id] = c], UNCHANGED toNotify,
         c.status = "accepted" <=> c.room # NoRoom
  PROVE  TypeOK'
BY TypesUnfold DEF TypeOK, ChallengeRecord, Statuses

LEMMA InitTypes ==
  ASSUME Init
  PROVE  TypeOK
BY NothingMade, TypesUnfold DEF Init

LEMMA StepTypes ==
  ASSUME TypeOK, [Next]_challengeVars
  PROVE  TypeOK'
<1>1. CASE UNCHANGED challengeVars
  BY <1>1 DEF TypeOK, challengeVars
<1>2. ASSUME NEW id \in ChallengeIDs, NEW p \in Users, NEW q \in Users, Create(id, p, q)
      PROVE  TypeOK'
  <2> DEFINE c == [NoChallenge EXCEPT !.challenger = p, !.challenged = q, !.status = "pending"]
  <2>1. c \in ChallengeRecord /\ c.status = "pending" /\ c.room = NoRoom
    BY DEF NoChallenge, ChallengeRecord, Statuses
  <2>2. challenges' = [challenges EXCEPT ![id] = c] /\ UNCHANGED toNotify
    BY <1>2 DEF Create
  <2> HIDE DEF c
  <2> QED BY <2>1, <2>2, OneChanges
<1>3. ASSUME NEW id \in ChallengeIDs, NEW p \in Users, Accept(id, p)
      PROVE  TypeOK'
  <2>1. PICK r \in RoomIDs : /\ challenges' = [challenges EXCEPT ![id].status = "accepted", ![id].room = r]
                             /\ UNCHANGED toNotify
    BY <1>3 DEF Accept
  <2> DEFINE c == [challenges[id] EXCEPT !.status = "accepted", !.room = r]
  <2>2. challenges \in [ChallengeIDs -> ChallengeRecord]
    BY TypesUnfold
  <2>3. c \in ChallengeRecord /\ c.status = "accepted" /\ c.room = r /\ r # NoRoom
    BY <2>2, NothingAssumption DEF ChallengeRecord, Statuses
  <2>4. challenges' = [challenges EXCEPT ![id] = c]
    BY <2>1, <2>2
  <2> HIDE DEF c
  <2> QED BY <2>1, <2>3, <2>4, OneChanges
<1>4. ASSUME NEW id \in ChallengeIDs, NEW p \in Users, Decline(id, p)
      PROVE  TypeOK'
  BY <1>4 DEF TypeOK, Decline, Answerable, Pending
<1>5. ASSUME NEW id \in ChallengeIDs, MinutePasses(id)
      PROVE  TypeOK'
  BY <1>5 DEF TypeOK, MinutePasses
<1>6. ASSUME NEW id \in ChallengeIDs, NotifyExpired(id)
      PROVE  TypeOK'
  BY <1>6 DEF TypeOK, NotifyExpired
<1>7. CASE Sweep
  BY <1>7 DEF TypeOK, Sweep, Sweepable, Overdue, Pending
<1> QED BY <1>1, <1>2, <1>3, <1>4, <1>5, <1>6, <1>7 DEF Next

(* The types, and that the accepted challenges and no others have a room.  *)
THEOREM TypeCorrect == Spec => []TypeOK
<1>1. Init => TypeOK
  BY InitTypes
<1>2. TypeOK /\ [Next]_challengeVars => TypeOK'
  BY StepTypes
<1> QED BY <1>1, <1>2, PTL DEF Spec

-----------------------------------------------------------------------------

Settled == {"accepted", "declined", "expired"}

(* The status of a challenge that is settled is not touched again.         *)
LEMMA StepSettles ==
  ASSUME TypeOK, [Next]_challengeVars, NEW id \in ChallengeIDs, challenges[id].status \in Settled
  PROVE  challenges'[id].status = challenges[id].status
<1>1. CASE UNCHANGED challengeVars
  BY <1>1 DEF challengeVars
<1>2. ASSUME NEW k \in ChallengeIDs, NEW p \in Users, NEW q \in Users, Create(k, p, q)
      PROVE  challenges'[id] = challenges[id]
  BY <1>2 DEF Create, NoChallenge, TypeOK, Settled
<1>3. ASSUME NEW k \in ChallengeIDs, NEW p \in Users, Accept(k, p) \/ Decline(k, p)
      PROVE  challenges'[id] = challenges[id]
  BY <1>3 DEF Accept, Decline, Answerable, Pending, TypeOK, Settled
<1>4. ASSUME NEW k \in ChallengeIDs, MinutePasses(k) \/ NotifyExpired(k)
      PROVE  challenges'[id].status = challenges[id].status
  BY <1>4 DEF MinutePasses, NotifyExpired, TypeOK
<1>5. CASE Sweep
  BY <1>5 DEF Sweep, Sweepable, Overdue, Pending, Settled
<1> QED BY <1>1, <1>2, <1>3, <1>4, <1>5 DEF Next

(* An answer and the sweep, or two answers, never both settle a challenge  *)
(* (Respond and sweepLoop of challenges.go, both under the lock).          *)
THEOREM OneOutcome == Spec => SettledOnce
<1>1. TypeOK /\ [Next]_challengeVars =>
        [\A id \in ChallengeIDs :
           challenges[id].status \in {"accepted", "declined", "expired"}
             => challenges'[id].status = challenges[id].status]_challengeVars
  BY StepSettles DEF Settled
<1> QED BY <1>1, TypeCorrect, PTL DEF Spec, SettledOnce

-----------------------------------------------------------------------------

LEMMA StepAnnounces ==
  ASSUME TypeOK, OnlyExpiredAnnounced, [Next]_challengeVars
  PROVE  OnlyExpiredAnnounced'
<1>1. ASSUME NEW id \in ChallengeIDs, id \in toNotify, id \in toNotify'
      PROVE  challenges'[id].status = "expired" /\ challenges'[id].old
  <2>1. challenges[id].status = "expired" /\ challenges[id].old
    BY <1>1 DEF OnlyExpiredAnnounced
  <2>2. challenges'[id].status = "expired"
    BY <2>1, StepSettles DEF Settled
  <2>3. challenges'[id].old
    <3>1. CASE UNCHANGED challengeVars
      BY <2>1, <3>1 DEF challengeVars
    <3>2. CASE Sweep
      BY <1>1, <3>2 DEF Sweep
    <3>3. ASSUME NEW k \in ChallengeIDs, NEW p \in Users, NEW q \in Users, Create(k, p, q)
          PROVE  challenges'[id].old
      BY <2>1, <3>3 DEF Create, NoChallenge, TypeOK
    <3>4. ASSUME NEW k \in ChallengeIDs, NEW p \in Users,
                 Accept(k, p) \/ Decline(k, p)
          PROVE  challenges'[id].old
      BY <2>1, <3>4 DEF Accept, Decline, TypeOK
    <3>5. ASSUME NEW k \in ChallengeIDs, MinutePasses(k) \/ NotifyExpired(k)
          PROVE  challenges'[id].old
      BY <2>1, <3>5 DEF MinutePasses, NotifyExpired, TypeOK
    <3> QED BY <3>1, <3>2, <3>3, <3>4, <3>5 DEF Next
  <2> QED BY <2>2, <2>3
<1>2. ASSUME NEW id \in ChallengeIDs, id \notin toNotify, id \in toNotify'
      PROVE  challenges'[id].status = "expired" /\ challenges'[id].old
  <2>1. Sweep
    BY <1>2 DEF Next, challengeVars, Create, Accept, Decline, MinutePasses, NotifyExpired
  <2> QED BY <1>2, <2>1 DEF Sweep, Sweepable, Overdue, Pending, TypeOK
<1>3. toNotify' \subseteq ChallengeIDs
  BY StepTypes DEF TypeOK
<1> QED BY <1>1, <1>2, <1>3 DEF OnlyExpiredAnnounced

(* The challenger hears of an expiry only of a challenge that had its full *)
(* minute and that nobody can answer any more (sweepLoop of challenges.go).*)
THEOREM AnnouncedIsExpired == Spec => []OnlyExpiredAnnounced
<1>1. Init => OnlyExpiredAnnounced
  BY DEF Init, OnlyExpiredAnnounced
<1>2. TypeOK /\ OnlyExpiredAnnounced /\ [Next]_challengeVars => OnlyExpiredAnnounced'
  BY StepAnnounces
<1> QED BY <1>1, <1>2, TypeCorrect, PTL DEF Spec

-----------------------------------------------------------------------------
(* How an expiry goes through.                                             *)

(* What one step may do to challenge id on its way through the sweep.      *)
SweptOnce(id) ==
  /\ challenges[id].old => challenges'[id].old
  /\ Sweep => ~Overdue(id)'
  /\ id \in toNotify' \ toNotify
       <=> challenges[id].status # "expired" /\ challenges'[id].status = "expired"
  /\ id \in toNotify /\ id \notin toNotify' => NotifyExpired(id)

LEMMA StepSweeps ==
  ASSUME TypeOK, OnlyExpiredAnnounced, [Next]_challengeVars, NEW id \in ChallengeIDs
  PROVE  SweptOnce(id)
<1> USE DEF TypeOK, SweptOnce
<1>0. id \in toNotify => challenges[id].status = "expired"
  BY DEF OnlyExpiredAnnounced
<1>1. CASE Sweep
  <2>1. toNotify = {} /\ toNotify' = Sweepable
    BY <1>1 DEF Sweep
  <2>2. challenges'[id] = IF Overdue(id) THEN [challenges[id] EXCEPT !.status = "expired"] ELSE challenges[id]
    BY <1>1 DEF Sweep, Sweepable
  <2>3. CASE Overdue(id)
    <3>1. challenges'[id].status = "expired" /\ challenges'[id].old = challenges[id].old
      BY <2>2, <2>3
    <3> QED BY <2>1, <2>3, <3>1 DEF Sweepable, Overdue, Pending
  <2>4. CASE ~Overdue(id)
    BY <2>1, <2>2, <2>4 DEF Sweepable, Overdue, Pending
  <2> QED BY <2>3, <2>4
<1>2. CASE UNCHANGED challengeVars
  <2>1. UNCHANGED <<challenges, toNotify>>
    BY <1>2 DEF challengeVars
  <2>2. ~Sweep
    BY <2>1 DEF Sweep
  <2> QED BY <2>1, <2>2
<1>3. ASSUME NEW k \in ChallengeIDs, NEW p \in Users, NEW q \in Users, Create(k, p, q)
      PROVE  SweptOnce(id)
  <2>1. UNCHANGED toNotify /\ challenges[k] = NoChallenge
        /\ (k # id => challenges'[id] = challenges[id])
        /\ (k = id => challenges'[id].status = "pending")
    BY <1>3 DEF Create, NoChallenge
  <2>2. ~Sweep
    BY <2>1 DEF Sweep
  <2>3. ~NoChallenge.old
    BY DEF NoChallenge
  <2> QED BY <2>1, <2>2, <2>3
<1>4. ASSUME NEW k \in ChallengeIDs, NEW p \in Users, Accept(k, p) \/ Decline(k, p)
      PROVE  SweptOnce(id)
  <2>1. /\ UNCHANGED toNotify /\ challenges'[id].old = challenges[id].old
        /\ challenges'[id].status \in {challenges[id].status, "accepted", "declined"}
        /\ challenges[id].status = "expired" => challenges'[id].status = "expired"
    BY <1>4 DEF Accept, Decline, Answerable, Pending
  <2>2. ~Sweep
    BY <2>1 DEF Sweep
  <2> QED BY <2>1, <2>2
<1>5. ASSUME NEW k \in ChallengeIDs, MinutePasses(k)
      PROVE  SweptOnce(id)
  <2>1. /\ UNCHANGED toNotify
        /\ challenges[id].old => challenges'[id].old
        /\ challenges'[id].status = challenges[id].status
    BY <1>5 DEF MinutePasses
  <2>2. ~Sweep
    BY <2>1 DEF Sweep
  <2> QED BY <2>1, <2>2
<1>6. ASSUME NEW k \in ChallengeIDs, NotifyExpired(k)
      PROVE  SweptOnce(id)
  <2>1. UNCHANGED challenges /\ toNotify # {} /\ toNotify' = toNotify \ {k}
    BY <1>6 DEF NotifyExpired
  <2>2. ~Sweep
    BY <2>1 DEF Sweep
  <2>3. id \in toNotify /\ id \notin toNotify' => id = k
    BY <2>1
  <2> QED BY <1>6, <2>1, <2>2, <2>3
<1> QED BY <1>1, <1>2, <1>3, <1>4, <1>5, <1>6 DEF Next

(* A sweep leaves no overdue challenge open, and the challenger of each one*)
(* that expires is put down to be told exactly then, and struck off by     *)
(* nothing but being told: no expiry goes unannounced and none is announced*)
(* twice (sweepLoop of challenges.go).  What EventuallySettled adds is that*)
(* the ticker and the clock go on.                                         *)
THEOREM EveryExpiryIsToldOnce == Spec => [][\A id \in ChallengeIDs : SweptOnce(id)]_challengeVars
<1>1. TypeOK /\ OnlyExpiredAnnounced /\ [Next]_challengeVars =>
        [\A id \in ChallengeIDs : SweptOnce(id)]_challengeVars
  BY StepSweeps
<1> QED BY <1>1, TypeCorrect, AnnouncedIsExpired, PTL DEF Spec
=============================================================================
