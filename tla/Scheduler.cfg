CONSTANTS
  Tables <- MCPlans
  After = 1
  Before = 2
  Period = 2
  Horizon = 17
  MaxProcess = 3
  MaxFailed = 1
  MaxEdits = 2
  NoFilm = nofilm
  Unset = unset
SPECIFICATION Spec
INVARIANTS TypeOK ActionMatchesServer OnlyInWindow NoFilmMissed
PROPERTY OneSessionPerFilm
