\* Two rotators promoting two images, two rotations in all, under fairness.
SPECIFICATION FairSpec
CONSTANTS
  Rotators = {r1, r2}
  Candidates = {c1, c2}
  Master = Master
  Torn = Torn
  NoImage = NoImage
  Unit = Unit
  Free = Free
  KeepN = 1
  MaxRuns = 2
  MaxFaults = 2
INVARIANTS PublishedWhole OutcomeTrue RamFollowsDisk
PROPERTIES RollbackKept OnlyGoldenKept RecoveryCopyHeld ImplementsAtomic EventuallyInService
