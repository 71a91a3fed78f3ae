\* Two processes on three image names: the timer's cycles and one operator's run, two failures or kills.
SPECIFICATION FairSpec
CONSTANTS
  Pids = {p1, p2}
  Files = {f1, f2, f3}
  KeepN = 1
  MaxJobs = 1
  MaxFaults = 2
  NoFile = NoFile
  NoPid = NoPid
PROPERTIES BackingKept RetryKept NewestRetained Reclaimed
