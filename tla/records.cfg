SPECIFICATION Spec
CONSTANTS
  Kind = "ReleaseDecision"
  Reqs = {r1, r2, r3}
  Ids = {i1}
  Codes = {k1}
  Roles = {"operator", "admin"}
  PredictedVersions = {}
  Null = Null
SYMMETRY Symmetry
INVARIANTS TypeOK IInv HistoryFollowsWorkflow AuditMatchesRevision AnswerMatchesEffect RevisionChain AtMostOneWinner DetailCoversVersion
PROPERTIES ImplementsLedger StepsFollowWorkflow
CHECK_DEADLOCK FALSE
