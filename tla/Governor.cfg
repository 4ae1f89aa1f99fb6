SPECIFICATION FairSpec
CONSTANTS
  Caller = {c1, c2, c3}
  None = None
  Mode = "Bulk"
  Workers = 3
  IoSlots = 1
  MemoryBytes = 2
  QueueCapacity = 2
  BurstLimit = 1
  MaxInterrupts = 1
  MaxCalls = 4
  Call <- MCCall
INVARIANTS SelectionSound NoLostWakeup BurstBounded WithinBudget TokensExact
CHECK_DEADLOCK FALSE
PROPERTY AdmissionsReturn
