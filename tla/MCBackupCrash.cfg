\* An api and a worker process, with restarts and ended contexts.
CONSTANTS
  all = all
  c1 = c1
  api = api
  worker = worker
  Procs <- MCTwoProcs
  Worker = worker
  Clients <- MCClients
  Keep = 1
  MaxParallel = 2
  MaxFiles = 1
  MaxArts = 1
  MaxRuns = 1
  MaxRests = 1
  Faults = {"step", "cancel", "crash"}
SPECIFICATION Spec
INVARIANTS
  DeleteSparesDownloads
  DownloadsCounted
  LockMatchesTask
CHECK_DEADLOCK FALSE
