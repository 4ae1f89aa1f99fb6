SPECIFICATION FairSpec
CONSTANTS
  r1 = r1
  r2 = r2
  r3 = r3
  Request = {r1, r2, r3}
  Class <- MixedClass
  Api <- BlockingApi
  Cohorts = {}
  QueueCapacity = 2
  MaxBatch = 2
  Permits = 1
  Budget = 1
  Expires = FALSE
  Faults = {"storage"}
PROPERTY Fifo
PROPERTY CallsEnd
PROPERTY ShutdownEnds
CHECK_DEADLOCK FALSE
