\* Two builds in flight, a reset every two rebakes, two failures.
SPECIFICATION Spec
CONSTANTS
  Builds = {b1, b2}
  MaxChain = 2
  MaxDepth = 2
  MaxFaults = 2
  NoBuild = NoBuild
SYMMETRY BuildSymmetry
INVARIANTS DepthKept MasterDue
