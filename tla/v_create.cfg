SPECIFICATION Spec
CONSTANTS
  Kind = "PrintRun"
  Roles = {"operator"}
  Ids = {i1, i2}
  Fresh = {i1, i2}
  Codes = {c1, c2}
  Queries = {q1}
  DefaultQuery = q1
  Null = Null
  MaxCalls = 5
  MaxDialogs = 1
  MaxChanges = 0
INVARIANT OneRecordPerDialog
CHECK_DEADLOCK FALSE
