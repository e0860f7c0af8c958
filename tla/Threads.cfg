SPECIFICATION FairSpec
CONSTANTS
  LocalCameras <- MCTwo
  HallLocals = {FALSE, TRUE}
  MaxThreads = 2
  MaxFailed = 2
INVARIANTS TypeOK OneThreadPerCamera
PROPERTIES ForgetsOnlyEnded CamerasWork StopServerReturns
CHECK_DEADLOCK FALSE
