SPECIFICATION LiveSpec
CONSTANTS
  Peers = {motion}
  Instances = {i1}
  NoInstance = none
  Devices = {d1}
  NoDevice = nodev
  Samples <- GripSamples
  RecordingEnabled = FALSE
  MaxEpoch = 3
  MaxCommands = 1
  Sources = {"vr", "motion"}
  MaxOutputEpoch = 4
INVARIANT EvidenceForEveryOutput
CHECK_DEADLOCK FALSE
