SPECIFICATION Spec
CONSTANTS
  Threads = {p1, p2, p3}
  NoThread = NoThread
  MaxEpoch = 6
  MaxQueued = 2
SYMMETRY Interchangeable
INVARIANT OnePlayback
CHECK_DEADLOCK FALSE
