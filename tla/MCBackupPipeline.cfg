\* One process (BERKUT_RUN_MODE=all) with failing steps.
CONSTANTS
  all = all
  api = api
  worker = worker
  c1 = c1
  Procs <- MCProcs
  Worker = all
  Clients <- MCClients
  Keep = 1
  MaxParallel = 1
  MaxFiles = 2
  MaxArts = 2
  MaxRuns = 2
  MaxRests = 1
  Faults = {"step"}
SPECIFICATION FairSpec
INVARIANTS
  ActiveRowsOwned
  MaintenanceOnlyInRestore
PROPERTIES
  PipelineFrees
CHECK_DEADLOCK FALSE
