----------------------------- MODULE RateLimiter -----------------------------
(***************************************************************************)
(* The sliding-window limiter of internal/auth/ratelimit.go, which Recover *)
(* asks before it looks at anything else.  It is kept in memory only.      *)
(*                                                                         *)
(* Abstractions: time is a number of ticks, the window a number of them; an*)
(* address (X-Forwarded-For as it stands, or the peer's) is a key; the     *)
(* slice of a key's times is the set of the attempts that have them.       *)
(*                                                                         *)
(* A definition headed "Mutant" is a plausible mistake in the definition it*)
(* names, for a property to catch; it is no part of the specification.     *)
(***************************************************************************)
EXTENDS Naturals, FiniteSets

CONSTANTS Keys,
          Window,   \* rl.window
          MaxHits,  \* rl.maxHits
          MaxTime   \* bound: how long the clock runs

ASSUME LimitsAssumption == Window \in Nat /\ MaxHits \in Nat /\ MaxTime \in Nat

VARIABLES now,       \* time.Now()
          attempts,  \* rl.attempts
          allowed,   \* history: the attempts allowed since the limiter was made
          answer     \* history: its last answer

vars == <<now, attempts, allowed, answer>>

(* n tells attempts at the same time apart.                                *)
Attempts == [key : Keys, at : Nat, n : Nat]
Answers == [key : Keys, at : Nat, ok : BOOLEAN]

-----------------------------------------------------------------------------

(* NewRateLimiter.                                                         *)
NewAttempts == [key \in Keys |-> {}]
NoAnswer == [key : Keys, at : {0}, ok : {TRUE}]

Init == now = 0 /\ attempts = NewAttempts /\ allowed = {} /\ answer \in NoAnswer

(* Mutant of Kept: an attempt counts one tick longer.                      *)
KeptTooLong(key) == {a \in attempts[key] : now <= a.at + Window}

(* Mutant of Kept: an attempt counts one tick less.                        *)
KeptTooShort(key) == {a \in attempts[key] : now + 1 < a.at + Window}

(* t.After(cutoff): an attempt as old as the window counts no more.        *)
Kept(key) == {a \in attempts[key] : now < a.at + Window}

Full(key) == Cardinality(Kept(key)) >= MaxHits

(* Allow, under the limiter's lock, for an attempt that is let through...  *)
Accept(key) ==
  /\ ~Full(key)
  /\ LET new == [key |-> key, at |-> now, n |-> Cardinality(allowed)]
     IN  /\ attempts' = [attempts EXCEPT ![key] = Kept(key) \cup {new}]
         /\ allowed' = allowed \cup {new}
  /\ answer' = [key |-> key, at |-> now, ok |-> TRUE]
  /\ UNCHANGED now

(* ... and for one that is not, which leaves no trace.                     *)
Refuse(key) ==
  /\ Full(key)
  /\ attempts' = [attempts EXCEPT ![key] = Kept(key)]
  /\ answer' = [key |-> key, at |-> now, ok |-> FALSE]
  /\ UNCHANGED <<now, allowed>>

Tick == /\ now < MaxTime
        /\ now' = now + 1
        /\ UNCHANGED <<attempts, allowed, answer>>

(* The server is started again: what the limiter knew is gone.             *)
Restart == /\ attempts' = NewAttempts
           /\ allowed' = {}
           /\ answer' \in NoAnswer
           /\ UNCHANGED now

Next == (\E key \in Keys : Accept(key) \/ Refuse(key)) \/ Tick \/ Restart

Spec == Init /\ [][Next]_vars

-----------------------------------------------------------------------------
(* Properties.                                                             *)

(* The values of the variables; an attempt that is kept was allowed.       *)
TypeOK ==
  /\ now \in Nat
  /\ allowed \subseteq Attempts /\ IsFiniteSet(allowed)
  /\ attempts \in [Keys -> SUBSET allowed]
  /\ answer \in Answers

(* What was allowed to a key in the window that ends at t.                 *)
AllowedIn(key, t) == {a \in allowed : a.key = key /\ a.at <= t /\ t < a.at + Window}

(* "max ~5 attempts per 10 minutes per IP" (ratelimit.go:11): whichever    *)
(* window of this length one takes, and not only those that begin with an  *)
(* attempt or a restarted count, at most MaxHits attempts fell into it.    *)
AtMostMaxHits == \A key \in Keys, t \in 0 .. now : Cardinality(AllowedIn(key, t)) <= MaxHits

(* Nobody is refused for what was itself refused, for attempts of another  *)
(* address, or for attempts that are old enough: when Allow refused,       *)
(* MaxHits of the key's attempts had been allowed within the window.       *)
RefusedOnlyWhenUsedUp == ~answer.ok => Cardinality(AllowedIn(answer.key, answer.at)) >= MaxHits
=============================================================================
