CONSTANTS
  c1 = c1
  c2 = c2
  c3 = c3
  here = here
  there = there
  Cameras <- MCThree
  Hosts <- MCHosts
  HostOf <- MCThreeHostOf
  HallHost = here
  RequestNumber = 3
  MaxRuns = 3
  MaxLost = 3
  Timely = TRUE
  MayFail = TRUE
  Garbage = {FALSE}
SPECIFICATION FairSpec
INVARIANT OwnCount
PROPERTIES EveryMeasurementSaved MeasurementEnds
