SPECIFICATION FilterSpec
CONSTANTS
  Kind = "PressUnit"
  Roles = {"operator", "reviewer"}
  Ids = {i1}
  Fresh = {}
  Codes = {c1}
  Queries = {q1, q2}
  DefaultQuery = q1
  Null = Null
  MaxCalls = 4
  MaxDialogs = 0
  MaxChanges = 0
SYMMETRY Symmetry
INVARIANT ShownIsCurrentFilter
CHECK_DEADLOCK FALSE
