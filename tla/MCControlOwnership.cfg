SPECIFICATION FairSpec
CONSTANTS
  Peers = {motion, teleop}
  Instances = {i1, i2}
  NoInstance = none
  Devices = {d1, d2}
  NoDevice = nodev
  Samples <- AllSamples
  RecordingEnabled = TRUE
  MaxEpoch = 4
  MaxCommands = 1
INVARIANTS
  ProgramIsLicensed
  CaptureCoversManual
PROPERTIES
  RearmNeedsRelease
  GapEndsManual
  AuthorityKept
  HandshakeKept
  HandoverResolves
  StaleManualStops
CHECK_DEADLOCK FALSE
