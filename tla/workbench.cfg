SPECIFICATION FairSpec
CONSTANTS
  Kind = "ReleaseDecision"
  Roles = {"operator", "reviewer"}
  Ids = {i1}
  Fresh = {i1}
  Codes = {c1}
  Queries = {q1, q2}
  DefaultQuery = q1
  Null = Null
  MaxCalls = 4
  MaxDialogs = 1
  MaxChanges = 2
INVARIANTS TypeOK RefusedOnlyWhenChanged ConfirmedIsApplied
PROPERTY LoadingEnds
CHECK_DEADLOCK FALSE
