CONSTANTS
  PlayerA = A
  PlayerB = B
  NoPlayer = nobody
  NoObject = none
  o1 = o1
  o2 = o2
  o3 = o3
  o4 = o4
  x = x
  Pool <- TwoObjects
  ForeignIDs <- NoForeignIDs
  ObjectCount = 1
  GuessAttempts = 2
  TotalRounds = 1
  Ranked = TRUE
  ActionsCap = 1
SPECIFICATION Spec
PROPERTIES ForfeitOnlyWhenTimeIsUp
CHECK_DEADLOCK FALSE
