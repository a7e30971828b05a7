SPECIFICATION FairSpec
CONSTANTS
  Callers = {"http"}
  StartsOver = FALSE
  MayFail = TRUE
  Budget = 2
  MaxCaptures = 2
  MaxEvents = 3
INVARIANTS
  ClosedIsComplete
  CaptureHasInputs
PROPERTIES
  StopReturns
CHECK_DEADLOCK FALSE
