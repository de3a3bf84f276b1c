\* Two processes and one job; stops, crashes and failing modules.
CONSTANTS
  p1 = p1
  p2 = p2
  l1 = l1
  l2 = l2
  Procs <- MCProcs
  Loops <- MCLoops
  MaxJobs = 1
  MaxSize = 3
  Watched = 1
  Faults = {"module", "stop", "crash"}
SPECIFICATION FairSpec
INVARIANTS
  OneRunner
  FinishedMeansAll
PROPERTIES
  JobKept
  ServedJobsEnd
CHECK_DEADLOCK FALSE
