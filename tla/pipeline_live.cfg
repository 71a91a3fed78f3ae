\* One job, one manager with two claim threads, under fairness.
SPECIFICATION FairSpec
CONSTANTS
  j1 = j1 j2 = j2 m1 = m1 m2 = m2 t1 = t1 t2 = t2
  Jobs = {j1}
  Managers = {m1}
  Threads = {t1, t2}
  Owner <- OwnerOne
  Exclusive = TRUE
  MaxFaults = 2
  NoJob = NoJob
  NoThread = NoThread
INVARIANT NoLiveJobOrphaned
PROPERTIES EventuallyDecided EventuallyReclaimed
