CONSTANTS
  Deadline = 3
  MaxMessages = 1
  MaxParts = 1
  WireCap = 2
SPECIFICATION Spec
INVARIANTS AttentivePeerStays
CHECK_DEADLOCK FALSE
