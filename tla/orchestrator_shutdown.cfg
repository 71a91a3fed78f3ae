SPECIFICATION Spec
CONSTANTS
  Main = main
  Threads = {main, t1, t2}
  Workers = {w1}
  Jobs = {j1, j2}
  Free = Free
  NoVm = NoVm
  NoJob = NoJob
  MaxPools = 2
  MaxFaults = 2
  MaxRows = 1
  MaxThreads = 1
CHECK_DEADLOCK FALSE
INVARIANTS NothingLeftBehind
