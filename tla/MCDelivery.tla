----------------------------- MODULE MCDelivery -----------------------------
(* A small instance of the delivery of messages for TLC.                   *)
EXTENDS Delivery, TLC

CONSTANTS k1, k2

ConnSymmetry == Permutations(ConnIDs)
=============================================================================
