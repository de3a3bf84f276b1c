\* Days and weeks, from the last day of a week on; the metrics of two days are kept.
CONSTANTS
  Kinds <- MCKinds
  Starts <- MCStarts
  FirstDay = 5
  LastDay = 6
  Histories <- MCMixed
  Targets = {5000, 6667}
  Policies <- MCPolicies
  Retention = 2
  Maintained = {5}
  MaxChanges = 1
  MaxFailures = 1
SPECIFICATION SlaFairSpec
INVARIANTS SlaTypeOK OneIncidentEach
PROPERTIES RowsSettle ViolationsReported
CHECK_DEADLOCK FALSE
