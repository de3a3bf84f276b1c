\* Approvals of a document that is edited meanwhile, with one version kept.
CONSTANTS
  q1 = q1
  q2 = q2
  text1 = text1
  text2 = text2
  u1 = u1
  u2 = u2
  Requests <- MCRequests
  Handlers = {"edit", "start", "decide"}
  Contents = {text1}
  Approvers <- MCApprovers
  MaxStage = 2
  Plans <- MCPlans
  Watched = 1
  Limit = 1
  MaxVersion = 2
  MaxApprovals = 1
  MaxTokens = 1
SPECIFICATION Spec
INVARIANTS
  ApprovedMeansAsked
SYMMETRY SymmetricRequests
PROPERTIES
  ApprovalKept
CHECK_DEADLOCK FALSE
