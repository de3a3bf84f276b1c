\* The limit changes once; checks that overlap at their ends, a loop that is left behind.
CONSTANTS
  m1 = m1
  m2 = m2
  m3 = m3
  c1 = c1
  c2 = c2
  c3 = c3
  l1 = l1
  l2 = l2
  Monitors <- MCTwoMonitors
  Checks <- MCTwoChecks
  Loops <- MCLoops
  Caller = Caller
  NoMonitor = NoMonitor
  Limits = {0, 2}
  MaxChannels = 2
SPECIFICATION FairSpec
INVARIANTS
  OneCheckPerMonitor
  TokensOwned
  OneLoop
PROPERTIES
  SlotFrees
  LoopEnds
CHECK_DEADLOCK FALSE
