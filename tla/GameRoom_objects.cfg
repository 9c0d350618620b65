CONSTANTS
  PlayerA = A
  PlayerB = B
  NoPlayer = nobody
  NoObject = none
  o1 = o1
  o2 = o2
  o3 = o3
  o4 = o4
  x = x
  Pool <- FourObjects
  ForeignIDs <- OneForeignID
  ObjectCount = 2
  GuessAttempts = 2
  TotalRounds = 1
  Ranked = FALSE
  ActionsCap = 2
SPECIFICATION Spec
SYMMETRY ObjectSymmetry
INVARIANTS FairRound ObjectsKeptFromOpponent IInv
CHECK_DEADLOCK FALSE
