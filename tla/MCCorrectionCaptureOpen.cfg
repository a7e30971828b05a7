SPECIFICATION CaptureSpec
CONSTANTS
  PreparedSlots = 2
  SessionEvents = 2
  ActionItems = 1
  MaxWindows = 3
  MaxCommands = 2
  MaxFaults = 1
CHECK_DEADLOCK FALSE
PROPERTY OpenIsRecorded
