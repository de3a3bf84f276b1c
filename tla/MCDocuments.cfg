\* Versions and files: two requests at a time, no pruning, no approvals.
CONSTANTS
  q1 = q1
  q2 = q2
  text1 = text1
  text2 = text2
  u1 = u1
  u2 = u2
  Requests <- MCRequests
  Handlers = {"import", "restore", "office", "classify", "delete"}
  Contents <- MCContents
  Approvers <- MCApprovers
  MaxStage = 2
  Plans <- MCPlans
  Watched = 1
  Limit = 0
  MaxVersion = 3
  MaxApprovals = 1
  MaxTokens = 1
SPECIFICATION Spec
INVARIANTS
  TypeOK
  VersionsKept
SYMMETRY Symmetric
PROPERTIES
  RestoresTrue
  OfficeSavesOnTop
CHECK_DEADLOCK FALSE
