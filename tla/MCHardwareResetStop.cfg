SPECIFICATION ResetSpec
CONSTANTS
  Peers = {motion}
  Instances = {i1}
  NoInstance = none
  Devices = {d1}
  NoDevice = nodev
  Samples <- ResumeSamples
  RecordingEnabled = FALSE
  MaxEpoch = 3
  MaxCommands = 0
  Sources = {"vr", "motion"}
  MaxOutputEpoch = 4
  QueueSize = 2
  MaxResets = 2
PROPERTY StopOutlivesReset
CHECK_DEADLOCK FALSE
