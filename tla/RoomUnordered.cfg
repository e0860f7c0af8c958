CONSTANTS
  c1 = c1
  f1 = f1
  f2 = f2
  NoFilm = nofilm
  Film <- MCFilm
  Cameras <- MCCameras
  MaxGuid = 4
  MaxCrash = 1
  MaxFailed = 1
  MaxSent = 3
  InOrder = FALSE
SPECIFICATION Spec
INVARIANTS TypeOK SameSessionSameFilm
SYMMETRY MCSymmetry
