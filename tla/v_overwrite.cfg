SPECIFICATION Spec
CONSTANTS
  Kind = "ReleaseDecision"
  Reqs = {r1, r2}
  Ids = {i1}
  Codes = {k1}
  Roles = {"operator", "admin"}
  PredictedVersions = {2}
  Null = Null
SYMMETRY Symmetry
PROPERTY ResolvedNeverOverwritten
CHECK_DEADLOCK FALSE
