SPECIFICATION FairSpec
CONSTANTS
  MaxQueue = 1
  Attempts = 0
  MaxQueries = 1
  MaxReports = 0
  MaxBoxDown = 0
  MaxDbDown = 1
  MaxHalfSent = 0
  StartMayFail = FALSE
PROPERTY QueriesAnswered
CHECK_DEADLOCK FALSE
