SPECIFICATION FairSpec
CONSTANTS
  Kind = "ColorProof"
  Reqs = {r1, r2}
  Ids = {i1, i2}
  Codes = {k1}
  Roles = {"operator", "admin"}
  PredictedVersions = {}
  Null = Null
INVARIANTS CodeIdentifiesOneRecord ConflictHasWinner
PROPERTY EveryRequestAnswered
CHECK_DEADLOCK FALSE
