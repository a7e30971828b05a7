SPECIFICATION ArmSpec
CONSTANTS
  HomeOnStart = TRUE
  Watched = {"hit"}
  MaxEvents = 1
INVARIANTS
  ReleasedAfterCollision
