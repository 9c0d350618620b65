CONSTANTS
  u1 = u1
  u2 = u2
  n1 = n1
  n2 = n2
  g1 = g1
  g2 = g2
  Users = {u1, u2}
  Names = {n1, n2}
  NoName = none
  Goroutines = {g1, g2}
  Nobody = nobody
  NoCopy = nocopy
  Edits = {"update", "logout", "delete"}
  SaveOutcomes = {TRUE, FALSE}
  Thresholds <- OneWinARank
  LevelBand = 2
  MaxMatches = 1
  MaxSecret = 2
SPECIFICATION Spec
SYMMETRY AccountSymmetry
INVARIANTS TypeOK RecordsAgree StatsBackedByMatches SavedIsDurable
PROPERTIES NamesFreeWhenTaken
CHECK_DEADLOCK FALSE
