SPECIFICATION CaptureSpec
CONSTANTS
  PreparedSlots = 2
  SessionEvents = 2
  ActionItems = 1
  MaxWindows = 2
  MaxCommands = 2
  MaxFaults = 2
INVARIANTS
  GradeIsHonest
  StopSettles
PROPERTIES
  ClosedStaysClosed
CHECK_DEADLOCK FALSE
