CONSTANTS
  u1 = u1
  u2 = u2
  c1 = c1
  c2 = c2
  r1 = r1
  r2 = r2
  Users = {u1, u2}
  ChallengeIDs = {c1, c2}
  RoomIDs = {r1, r2}
  NoUser = nobody
  NoRoom = noroom
SPECIFICATION FairSpec
INVARIANT OnlyExpiredAnnounced
PROPERTIES SettledOnce EventuallySettled
CHECK_DEADLOCK FALSE
