SPECIFICATION FairSpec
CONSTANTS
  Worker <- MCWorker
  Pool <- MCPool
  Caller = {c1, c2}
  Parent <- MCParent
  Width <- MCWidth
  Call <- MCCall
  BurstLimit = 1
  MaxCalls = 2
  None = None
  w1 = w1
  w2 = w2
  m1 = m1

INVARIANTS NestedExact ReturnsClean ResultsHonest NoJobStranded NoStarvation
CHECK_DEADLOCK FALSE
PROPERTIES PoolCallsReturn JoinsEnd
