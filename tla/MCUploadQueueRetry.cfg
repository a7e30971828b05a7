SPECIFICATION Spec
CONSTANTS
  Artifacts = {a1}
  Bindings = {b1}
  NoBinding = unbound
  Jobs = {j1}
  NoJob = none
  Formats = {"CAPTURE_BUNDLE"}
  Callers = {api}
  MaxAttempts = 0
  MaxFaults = 1
  MaxRetries = 1
  MaxStops = 1
INVARIANTS
  AcceptedRetryIsSent
CHECK_DEADLOCK FALSE
