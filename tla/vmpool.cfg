SPECIFICATION PoolSpec
CONSTANTS
  Threads = {t1, t2}
  Workers = {w1, w2}
  Free = Free
  NoVm = NoVm
  MaxPools = 2
  MaxFaults = 2
CHECK_DEADLOCK FALSE
INVARIANTS OnePool Reapable LeasesHeld NothingLeftBehind
PROPERTIES GuestNotBlamed EventuallyAnswered
