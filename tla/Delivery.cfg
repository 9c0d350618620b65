CONSTANTS
  k1 = k1
  k2 = k2
  Users = {a, b}
  Player = a
  ConnIDs = {k1, k2}
  NoConn = noconn
  SendCap = 1
  EventsCap = 2
  MaxRounds = 2
  Deleters = {b}
  TellCap = 1
SPECIFICATION Spec
SYMMETRY ConnSymmetry
INVARIANTS BroadcastsAreSafe PresenceSettles PageFollowsRoom
PROPERTIES PageNeverGoesBack
CHECK_DEADLOCK FALSE
