\* Two groups over a store that drops blocks while they read, losses told at any time.
CONSTANTS
  d0 = d0
  d1 = d1
  live = live
  replay = replay
  DataChannels <- MCDataChannels
  Block <- MCBlock
  Captures <- MCCaptures
  SmallTicks = 4
  Groups = {live, replay}
  Live = live
  C = 2
  GroupHold = 1
  ReadMax = 2
  ReplayStep = 2
  FedMax = 2
  KnownLines = 64
  BlockRecords = 1
  BlockCost = 3
  Limit = 18
  Late = 2
  OPEN = 99
SPECIFICATION Spec
INVARIANTS FedRight NoneStuck
CHECK_DEADLOCK FALSE
