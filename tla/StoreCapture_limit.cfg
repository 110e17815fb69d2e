\* Two data channels, any change lost, losses told early and late, a limit of a few records.
CONSTANTS
  d0 = d0
  d1 = d1
  DataChannels <- MCDataChannels
  Block <- MCBlock
  BlockRecords = 2
  BlockCost = 3
  Limit = 14
  Late = 2
  OPEN = 99
  MaxTick = 4
  MaxReports = 2
  MaxSpan = 2
  C = 2
  Busy = {1}
  Apart = 1
SPECIFICATION Spec
INVARIANTS ReadsTrue WithinLimit
PROPERTIES GivenStays
CHECK_DEADLOCK FALSE
