SPECIFICATION FairSpec
CONSTANTS
  p1 = p1
  Ports = {p1}
  Prefix = 2
  MaxLength = 2
  MaxMessages = 3
  MaxFaults = 2
  Garbage <- MCGarbage
INVARIANTS TypeOK WholeInOrder
PROPERTY Delivered
CHECK_DEADLOCK FALSE
