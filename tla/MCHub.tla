------------------------------- MODULE MCHub -------------------------------
(* Small instances of the hub for TLC.                                     *)
EXTENDS Hub, TLC

CONSTANTS u1, u2, u3, k1, k2, k3, k4, c1, c2, r1, r2

HubSymmetry == Permutations(Users) \cup Permutations(ConnIDs) \cup Permutations(ChallengeIDs)
                 \cup Permutations(RoomIDs)
=============================================================================
