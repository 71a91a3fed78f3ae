\* One job, two pool-managers side by side.
SPECIFICATION Spec
CONSTANTS
  j1 = j1 j2 = j2 m1 = m1 m2 = m2 t1 = t1 t2 = t2
  Jobs = {j1}
  Managers = {m1, m2}
  Threads = {t1, t2}
  Owner <- OwnerEach
  Exclusive = FALSE
  MaxFaults = 3
  NoJob = NoJob
  NoThread = NoThread
INVARIANTS AcceptedKeepsInput EvidenceKept
PROPERTIES RetentionSparesLive ImplementsLifecycle
