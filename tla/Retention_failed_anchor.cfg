SPECIFICATION Spec
CONSTANTS
  Pin = {}
  NoPin = NoPin
  NoAnchor = NoAnchor
  Faults = {"kill", "io"}
  MaxFaults = 2
  MaxCsn = 4
  MaxManifest = 1
  MaxEpoch = 1
  MaxBlob = 0
INVARIANTS AckedKept
CHECK_DEADLOCK FALSE
