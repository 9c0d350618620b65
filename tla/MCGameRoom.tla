----------------------------- MODULE MCGameRoom -----------------------------
(* Small instances of the room actor for TLC.                              *)
EXTENDS GameRoom, TLC

CONSTANTS o1, o2, o3, o4, x

(* One object per player: every draw, steal and guess is decided by which  *)
(* of the two objects went to whom.                                        *)
TwoObjects == {o1, o2}
FourObjects == {o1, o2, o3, o4}
NoForeignIDs == {}
OneForeignID == {x}

(* The objects of the pool are interchangeable.                            *)
ObjectSymmetry == Permutations(Pool)
=============================================================================
