CONSTANTS
  u1 = u1
  u2 = u2
  u3 = u3
  k1 = k1
  k2 = k2
  k3 = k3
  k4 = k4
  c1 = c1
  c2 = c2
  r1 = r1
  r2 = r2
  Users = {u1, u2}
  ConnIDs = {k1, k2, k3}
  ChallengeIDs = {c1}
  RoomIDs = {r1}
  NoUser = nobody
  NoConn = noconn
  NoRoom = noroom
  ActionsCap = 1
SPECIFICATION Spec
SYMMETRY HubSymmetry
PROPERTIES ReconnectKeepsTheMatch
CHECK_DEADLOCK FALSE
