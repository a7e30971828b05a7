SPECIFICATION FairSpec
CONSTANTS
  Callers = {"http"}
  StartsOver = TRUE
  MayFail = FALSE
  Budget = 2
  MaxCaptures = 2
  MaxEvents = 3
INVARIANTS
  CaptureHasInputs
CHECK_DEADLOCK FALSE
