SPECIFICATION Spec
CONSTANTS
  Ids = {1, 2, 3, 4}
  Seeds = {1, 2, 3}
  DefaultSize = 1
  MaxSize = 2
  MaxTime = 2
  MaxWrites = 3
  Entities = {e1, e2}
  Limit = 1
  Window = 1
  MaxStamp = 2
  MaxChanges = 3
INVARIANTS ListTypeOK AuditTypeOK RecordsMissedForAReason AuditsMissedForAReason QuietWalkShowsOnce SummaryOnlyGrows HistoryInOrder
SYMMETRY Symmetry
CHECK_DEADLOCK FALSE
