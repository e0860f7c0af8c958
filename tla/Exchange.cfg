SPECIFICATION FairSpec
CONSTANTS
  MaxQueue = 1
  Attempts = 2
  MaxQueries = 3
  MaxReports = 1
  MaxBoxDown = 1
  MaxDbDown = 1
  MaxHalfSent = 1
  StartMayFail = TRUE
INVARIANTS TypeOK ConnectedWhenSending ExecutedInOrder NothingForgotten DeliveredOnce
PROPERTIES RequestReturns AnsweredUnlessStuck
CHECK_DEADLOCK FALSE
