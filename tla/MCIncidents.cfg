SPECIFICATION Spec
CONSTANTS
  r1 = r1
  r2 = r2
  s1 = s1
  Requests <- TwoRequests
  Stages <- OneStage
  MaxVersion = 4
  MaxStageVersion = 3
SYMMETRY Symmetry
INVARIANTS TypeOK NoLostUpdate
PROPERTIES ClosedIsFinal DoneIsFinal
CHECK_DEADLOCK FALSE
