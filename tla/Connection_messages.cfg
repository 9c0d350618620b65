CONSTANTS
  Deadline = 3
  MaxMessages = 2
  MaxParts = 3
  WireCap = 3
SPECIFICATION FairSpec
INVARIANTS MessagesArriveWhole NothingIsLost
PROPERTIES GoneIsNoticed
CHECK_DEADLOCK FALSE
