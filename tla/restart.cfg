\* Two failures of lives or marker writes.
SPECIFICATION Spec
CONSTANT MaxFaults = 2
INVARIANTS TrueIsWarm PostureAgrees
PROPERTY StoppedStays
