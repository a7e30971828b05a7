SPECIFICATION Spec
CONSTANTS
  Ids = {r1, r2, r3}
  MaxSessions = 2
  MaxEpoch = 4
  MaxRestarts = 1
  MaxFaults = 1
SYMMETRY Interchangeable
INVARIANTS OneRecorder CaptureIsOfSession
PROPERTIES OldRequestsStopNothing
CHECK_DEADLOCK FALSE
