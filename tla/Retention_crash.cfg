SPECIFICATION Spec
CONSTANTS
  Pin = {p1}
  NoPin = NoPin
  NoAnchor = NoAnchor
  Faults = {"kill", "power"}
  MaxFaults = 2
  MaxCsn = 4
  MaxManifest = 2
  MaxEpoch = 2
  MaxBlob = 2
INVARIANTS AckedKept RootServed RefusedOnlyRetired PinsReadable TxnIdsFresh StagingClear
PROPERTY CompletionDropsRetired
CHECK_DEADLOCK FALSE
