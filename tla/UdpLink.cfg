SPECIFICATION Spec
CONSTANTS
  MaxSplits = 2
  MaxSequence = 3
  Threads = 2
  MaxSent = 3
  MaxCrashes = 1
  MaxCopies = 1
INVARIANTS TypeOK OnlyWholeMessages RowIsDelivered
CHECK_DEADLOCK FALSE
