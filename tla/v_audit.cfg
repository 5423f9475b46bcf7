SPECIFICATION Spec
CONSTANTS
  Kind = "PrintRun"
  Reqs = {r1, r2}
  Ids = {i1}
  Codes = {k1}
  Roles = {"operator", "admin"}
  PredictedVersions = {}
  Null = Null
SYMMETRY Symmetry
INVARIANT EveryTransitionAudited
CHECK_DEADLOCK FALSE
