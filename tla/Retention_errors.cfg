SPECIFICATION Spec
CONSTANTS
  Pin = {p1}
  NoPin = NoPin
  NoAnchor = NoAnchor
  Faults = {"io", "kill", "orphan"}
  MaxFaults = 2
  MaxCsn = 4
  MaxManifest = 2
  MaxEpoch = 1
  MaxBlob = 2
INVARIANTS RefusedOnlyOvertaken
CHECK_DEADLOCK FALSE
