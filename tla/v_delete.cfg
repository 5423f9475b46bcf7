SPECIFICATION Spec
CONSTANTS
  Kind = "ReleaseDecision"
  Reqs = {r1, r2}
  Ids = {i1}
  Codes = {k1}
  Roles = {"operator", "admin"}
  PredictedVersions = {}
  Null = Null
SYMMETRY Symmetry
INVARIANT DeletedOnlyWhileDeletable
CHECK_DEADLOCK FALSE
