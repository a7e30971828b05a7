SPECIFICATION CaptureFairSpec
CONSTANTS
  PreparedSlots = 2
  SessionEvents = 2
  ActionItems = 2
  MaxWindows = 2
  MaxCommands = 1
  MaxFaults = 1
PROPERTIES
  DrainedIsSettled
CHECK_DEADLOCK FALSE
