SPECIFICATION ArmSpec
CONSTANTS
  HomeOnStart = TRUE
  Watched = {"other", "break"}
  MaxEvents = 1
INVARIANTS
  RightGripIsNew
  ArmsFollowResetSolver
