---------------------------- MODULE MCChallenges ----------------------------
(* Small instances of the challenge manager for TLC.                       *)
EXTENDS Challenges

CONSTANTS u1, u2, c1, c2, r1, r2
=============================================================================
