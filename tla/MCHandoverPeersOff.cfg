SPECIFICATION TopicFairSpec
CONSTANTS
  Peers = {"solver", "teleop"}
  Instances = {i1, i2}
  NoInstance = none
  MaxEpoch = 2
PROPERTIES
  OffReachesPeers
CHECK_DEADLOCK FALSE
