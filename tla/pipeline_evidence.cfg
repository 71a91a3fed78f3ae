\* The comment on a kept spool, against a lost failure write and a restart.
SPECIFICATION Spec
CONSTANTS
  j1 = j1 j2 = j2 m1 = m1 m2 = m2 t1 = t1 t2 = t2
  Jobs = {j1}
  Managers = {m1}
  Threads = {t1}
  Owner <- OwnerOne
  Exclusive = TRUE
  MaxFaults = 2
  NoJob = NoJob
  NoThread = NoThread
INVARIANTS LoggedEvidenceStays
