SPECIFICATION Spec
CONSTANTS
  Recordings = {r1, r2}
  Requests = {q1, q2}
  Tasks = {t1, t2}
  NoTask = NoTask
  NoRecording = NoRecording
  MaxRestarts = 1
SYMMETRY Interchangeable
INVARIANT DurableIntent
CHECK_DEADLOCK FALSE
