\* Any three commands while the UI acquires and releases views; anything may fail.
CONSTANTS
  Backends = {"device", "file", "link"}
  Commands <- MCCommands
  MaxGroups = 1
  MaxStack = 2
  MaxCmds = 3
  MaxTick = 1
  MaxHolds = 1
SPECIFICATION FairSpec
INVARIANTS HoldsExact OnCurrentView
PROPERTIES CommandsShown
CHECK_DEADLOCK FALSE
