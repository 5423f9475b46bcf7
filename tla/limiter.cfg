SPECIFICATION Spec
CONSTANTS
  Reqs = {r1, r2, r3}
  Keys = {k1, k2, k3}
  Instances = {s1, s2}
  RedisEnabled = TRUE
  Limit = 1
  MaxTracked = 2
  Retention = 2
  MaxWindow = 3
SYMMETRY Symmetry
INVARIANTS TypeOK AdmittedWithinBudget RefusedOnlyOverBudget StaleBucketsBounded
CHECK_DEADLOCK FALSE
