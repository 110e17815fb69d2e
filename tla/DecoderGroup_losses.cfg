\* More losses than the group asks the store for at once; the store drops nothing.
CONSTANTS
  d0 = d0
  d1 = d1
  live = live
  replay = replay
  DataChannels <- MCDataChannels
  Block <- MCBlock
  Captures <- MCCaptures
  SmallTicks = 4
  Groups = {live, replay}
  Live = live
  C = 2
  GroupHold = 1
  ReadMax = 2
  ReplayStep = 2
  FedMax = 1
  KnownLines = 64
  BlockRecords = 1
  BlockCost = 3
  Limit = 99
  Late = 2
  OPEN = 99
SPECIFICATION Spec
INVARIANT EveryLossInPlace
CHECK_DEADLOCK FALSE
