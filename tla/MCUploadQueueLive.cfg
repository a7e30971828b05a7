SPECIFICATION FairSpec
CONSTANTS
  Artifacts = {a1}
  Bindings = {b1}
  NoBinding = unbound
  Jobs = {j1}
  NoJob = none
  Formats = {"LEROBOT_V3", "MCAP"}
  Callers = {api}
  MaxAttempts = 0
  MaxFaults = 1
  MaxRetries = 1
  MaxStops = 1
PROPERTIES
  CancelEnds EveryJobEnds
CHECK_DEADLOCK FALSE
