SPECIFICATION Spec
CONSTANTS
  r1 = r1
  r2 = r2
  r3 = r3
  Request = {r1, r2, r3}
  Class <- GroupClass
  Api <- TryApi
  Cohorts = {}
  QueueCapacity = 2
  MaxBatch = 2
  Permits = 1
  Budget = 1
  Expires = TRUE
  Faults = {"storage", "sweep"}
SYMMETRY Symmetry
INVARIANT SweepDelayBounded
CHECK_DEADLOCK FALSE
