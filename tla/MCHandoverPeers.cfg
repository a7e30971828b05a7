SPECIFICATION PeersFairSpec
CONSTANTS
  Peers = {"solver", "teleop"}
  Instances = {i1, i2}
  NoInstance = none
  MaxEpoch = 2
INVARIANTS
  PermissionMeansPeersSwitched
  GrantsAgree
PROPERTIES
  BrokenPeerStops
CHECK_DEADLOCK FALSE
