SPECIFICATION Spec
CONSTANTS
  Artifacts = {a1}
  Bindings = {b1, b2}
  NoBinding = unbound
  Jobs = {j1, j2}
  NoJob = none
  Formats = {"LEROBOT_V3", "MCAP", "CAPTURE_BUNDLE"}
  Callers = {api, scan}
  MaxAttempts = 0
  MaxFaults = 1
  MaxRetries = 1
  MaxStops = 1
SYMMETRY Interchangeable
INVARIANTS
  CopyIsCurrent CancelStopsTransfer ReceiptNotStranded
PROPERTIES
  KeepsPromise
CHECK_DEADLOCK FALSE
