\* A check, a pass and a request at a time, over a service that is up.
CONSTANTS
  r1 = r1
  Services = {"up"}
  Requests <- MCRequests
  CloseOnUp = FALSE
  Failures = {"check", "request"}
  MaxIncidents = 1
SPECIFICATION FairSpec
PROPERTIES
  DisplaySettles
CHECK_DEADLOCK FALSE
