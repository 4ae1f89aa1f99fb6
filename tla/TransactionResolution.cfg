SPECIFICATION Spec
CONSTANTS
  c1 = c1
  c2 = c2
  c3 = c3
  k1 = k1
  None = None
  Call = {c1, c2, c3}
  Token = {k1}
  Offers <- MixedCalls
  Faults = {"io", "kill", "power"}
  MaxFaults = 2
SYMMETRY CallSymmetry
INVARIANTS TokenCommitsOnce StatusTrue
PROPERTIES SettledStays OpenSettles
CHECK_DEADLOCK FALSE
