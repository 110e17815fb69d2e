\* Two data channels, every way two lines change in a few ticks with any one change dropped,
\* and the lines of an I2C master and of a UART.
CONSTANTS
  d0 = d0
  d1 = d1
  DataChannels <- MCDataChannels
  Block <- MCBlock
  Decoders <- MCDecoders
  Captures <- MCCaptures
  CmdWords <- MCCmdWords
  Crc <- MCCrc
  SmallTicks = 4
  C = 2
  MaxLead = 3
  Hold = 1
  ByteBits = 1
  ActivityGap = 1
  ActivityMax = 0
  FrameBits = 1
  BitTicks = 1
  BurstGap = 4
  ChipAddr = 0
  ByteRange = 2
  RegBytes = 1
  ChipRegs = {0, 1}
  CalReg = 1
  ScaledRegs = {0}
  ChipCmds = {0, 1, 2, 3}
SPECIFICATION Spec
INVARIANTS ReleasedInOrder SaysRight LateLossMarked
CHECK_DEADLOCK FALSE
