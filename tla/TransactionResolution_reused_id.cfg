SPECIFICATION Spec
CONSTANTS
  c1 = c1
  c2 = c2
  c3 = c3
  k1 = k1
  None = None
  Call = {c1, c2, c3}
  Token = {k1}
  Offers <- StatementCalls
  Faults = {}
  MaxFaults = 0
SYMMETRY CallSymmetry
INVARIANT ResolvedTruly
CHECK_DEADLOCK FALSE
