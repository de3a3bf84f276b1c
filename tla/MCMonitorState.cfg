\* Checks and the pass over every kind of result; any statement may fail.
CONSTANTS
  r1 = r1
  Services = {"up", "down", "dns"}
  Requests = {}
  CloseOnUp = TRUE
  Failures = {"check", "pass", "request"}
  MaxIncidents = 2
SPECIFICATION Spec
INVARIANTS
  NoticesAlternate
  OneOpenIncident
CHECK_DEADLOCK FALSE
