SPECIFICATION ResetFairSpec
CONSTANTS
  Peers = {motion}
  Instances = {i1}
  NoInstance = none
  Devices = {d1}
  NoDevice = nodev
  Samples <- ResumeSamples
  RecordingEnabled = FALSE
  MaxEpoch = 3
  MaxCommands = 0
  Sources = {"vr", "motion"}
  MaxOutputEpoch = 3
  QueueSize = 2
  MaxResets = 2
INVARIANTS
  LatchedHardwareIsStopped
PROPERTIES
  ArmedByValidRequest
  ClosedOutputReachesHardware
CHECK_DEADLOCK FALSE
