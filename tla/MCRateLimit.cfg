SPECIFICATION RateSpec
CONSTANTS
  k1 = k1
  k2 = k2
  Requests = {r1, r2, r3, r4}
  Keys = {k1, k2}
  Limit <- OneOrTwo
  Window = 3
  Deadline = 3
  MaxTime = 6
  MaxFailures = 1
SYMMETRY RequestSymmetry
INVARIANTS
  RateTypeOK
  LimitHolds
  BurstIsBounded
  RefusedOnlyWhenFull
CHECK_DEADLOCK FALSE
