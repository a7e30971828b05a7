SPECIFICATION Spec
CONSTANTS
  Threads = {p1, p2, p3}
  NoThread = NoThread
  MaxEpoch = 6
  MaxQueued = 2
SYMMETRY Interchangeable
INVARIANTS
  InterlockHasPlayback
  CommandsOfThisReplay
CHECK_DEADLOCK FALSE
