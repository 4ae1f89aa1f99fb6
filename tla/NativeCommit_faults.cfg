SPECIFICATION Spec
CONSTANTS
  t1 = t1
  t2 = t2
  t3 = t3
  k1 = k1
  k2 = k2
  b1 = b1
  NoBlob = NoBlob
  Txn = {t1, t2, t3}
  Key = {k1, k2}
  Content = {b1}
  Workload <- EveryBatch
  MaxCohort = 2
  Faults = {"io", "kill", "power", "writeback"}
  MaxFaults = 1
SYMMETRY TxnSymmetry
INVARIANT AckDurable
INVARIANT FirstCommitterWins
INVARIANT RejectedNeverCommits
INVARIANT StrictOpens
INVARIANT RootShowsLastWriter
PROPERTY KeptWhilePowered
PROPERTY ImplementsStore
CHECK_DEADLOCK FALSE
