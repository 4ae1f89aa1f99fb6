SPECIFICATION Spec
CONSTANTS
  Pin = {}
  NoPin = NoPin
  NoAnchor = NoAnchor
  Faults = {"kill"}
  MaxFaults = 1
  MaxCsn = 5
  MaxManifest = 1
  MaxEpoch = 1
  MaxBlob = 0
INVARIANTS NeverRefused
CHECK_DEADLOCK FALSE
