CONSTANTS
  Keys = {ip1, ip2}
  Window = 3
  MaxHits = 2
  MaxTime = 5
  Pool = {o1, o2, o3, o4, o5}
  NoObject = none
  ObjectCount = 2
  GuessAttempts = 2
  Rounds = 4
  MaxRounds = 5
  Accounts = {1, 2, 3}
  Limit = 1
  MaxWins = 1
  MaxRows = 3
  Loads = 2
SPECIFICATION StandaloneSpec
INVARIANTS
  AtMostMaxHits RefusedOnlyWhenUsedUp
  EndsOnAWinner CanGoOnGuessing
  ShowsTheRanking NobodyIsSkipped
CHECK_DEADLOCK FALSE
