CONSTANTS
  c1 = c1
  c2 = c2
  c3 = c3
  here = here
  there = there
  Cameras <- MCTwo
  Hosts <- MCHosts
  HostOf <- MCTwoHostOf
  HallHost = here
  RequestNumber = 1
  MaxRuns = 2
  MaxLost = 0
  Timely = FALSE
  MayFail = TRUE
  Garbage = {FALSE, TRUE}
SPECIFICATION Spec
INVARIANTS TypeOK CountsAreComplete NoRowTwice
