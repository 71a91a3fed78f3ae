SPECIFICATION Spec
CONSTANTS
  Rotators = {r1}
  Candidates = {c1, c2}
  Master = Master
  Torn = Torn
  NoImage = NoImage
  Unit = Unit
  Free = Free
  KeepN = 1
  MaxRuns = 1
  MaxFaults = 1
INVARIANTS NothingPublishedChangesNothing
