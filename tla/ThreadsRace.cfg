SPECIFICATION FairSpec
CONSTANTS
  LocalCameras <- MCTwo
  HallLocals = {TRUE}
  MaxThreads = 2
  MaxFailed = 0
PROPERTY StaysStopped
CHECK_DEADLOCK FALSE
