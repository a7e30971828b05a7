SPECIFICATION LiveSpec
CONSTANTS
  Peers = {motion}
  Instances = {i1}
  NoInstance = none
  Devices = {d1}
  NoDevice = nodev
  Samples <- GripSamples
  RecordingEnabled = FALSE
  MaxEpoch = 3
  MaxCommands = 0
  Sources = {"vr", "motion"}
  MaxOutputEpoch = 5
INVARIANT ReplayEndNeedsResume
CHECK_DEADLOCK FALSE
