SPECIFICATION Spec
CONSTANTS
  C = 2
  Lines = 2
  IndexMod = 16
  ResyncMax = 4
  Starts <- MCStarts
  MaxBeats = 5
  MaxChanges = 2
  MaxLosses = 1
  MaxDrops = 2
  CheckValues = {0, 1}
INVARIANTS ReadRight Resynced
PROPERTIES WatermarkHolds
CHECK_DEADLOCK FALSE
