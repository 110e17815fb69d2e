--------------------------- MODULE MCCodecSession ---------------------------
(***************************************************************************)
(* Captures of two lines, 0 and 1, on two data channels: every way the     *)
(* lines can change in a few ticks, with any one change dropped, and the   *)
(* lines of an I2C master and of a UART.                                   *)
(***************************************************************************)
EXTENDS CodecSession

CONSTANTS
  d0, d1,
  SmallTicks      \* ticks of the small captures

MCDataChannels == {d0, d1}
MCBlock == (d0 :> {0}) @@ (d1 :> {1})

MCDecoders ==
  << I2c(1, 0, 1), Activity(2, {0, 1}), Uart(3, <<0, 1>>), Chip(4, 1, "register"),
     Chip(5, 1, "command") >>

MCCmdWords(cmd) == 1
MCCrc(a, b) == (a + b) % 2

-----------------------------------------------------------------------------
Small == Lines!SmallCaptures(SmallTicks)

-----------------------------------------------------------------------------
(* An I2C master on SCL 0 and SDA 1.  w: the tick reached, the changes, and *)
(* the levels.                                                             *)

Idle == [t |-> 1, ch |-> {}, l |-> <<1, 1>>]

Put(w, line, level) ==
  IF w.l[line + 1] = level THEN w
  ELSE [w EXCEPT !.ch = @ \union {Lines!Change(w.t, line, level)}, !.l[line + 1] = level]

Tick(w) == [w EXCEPT !.t = @ + 1]

(* SCL falls with SDA at the bit, then rises. *)
SendBit(w, b) == Tick(Put(Tick(Put(Put(w, 0, 0), 1, b)), 0, 1))

SendStart(w) == LET high == IF w.ch = {} \/ w.l = <<1, 1>> THEN w ELSE SendBit(w, 1)
                IN  Tick(Put(high, 1, 0))
SendStop(w) == Tick(Tick(Put(SendBit(w, 0), 1, 1)))

SendWord(w, x) == SendBit(SendBit(w, x.value), IF x.nak THEN 1 ELSE 0)
SendSegment(w, seg) == FoldLeft(SendWord, SendStart(w), seg)
SendAll(w, t) == SendStop(FoldLeft(SendSegment, w, t))

Ack(v) == [value |-> v, nak |-> FALSE]
Nak(v) == [value |-> v, nak |-> TRUE]

ReadBack(reg, v) == << <<Ack(0), Ack(reg)>>, <<Ack(1), Nak(v)>> >>   \* pointer, then a read
Read(v) == << <<Ack(1), Nak(v)>> >>                                  \* at the pointer
Write(reg, v) == << <<Ack(0), Ack(reg), Ack(v)>> >>
Refused == << <<Nak(0)>> >>
Command(a, b) == << <<Ack(0), Ack(a), Ack(b)>>, <<Ack(1), Ack(1), Ack(0), Nak(1)>> >>

(* Chip 4 reads each for the register last pointed at, chip 5 for the      *)
(* command last sent (-1: none, 2 * a + b).                                *)
I2cCapture(ts, registers, commands) ==
  LET w == FoldLeft(SendAll, Idle, ts)
  IN  [last |-> w.t + BurstGap, changes |-> w.ch, drop |-> {},
       sent |-> (1 :> ts) @@ (4 :> registers) @@ (5 :> commands)]

ReadOf(reg, data) == [of |-> reg, data |-> data]

I2cCaptures ==
  { I2cCapture(<<ReadBack(1, 0), Read(1)>>, <<ReadOf(1, <<0>>), ReadOf(1, <<1>>)>>,
               <<ReadOf(-1, <<0>>), ReadOf(-1, <<1>>)>>),
    I2cCapture(<<Read(0), Write(0, 1), Refused, Read(1)>>,
               <<ReadOf(-1, <<0>>), ReadOf(0, <<1>>)>>, <<ReadOf(-1, <<0>>), ReadOf(1, <<1>>)>>),
    I2cCapture(<<Command(1, 1), Read(1)>>,
               <<ReadOf(1, <<1, 0, 1>>), ReadOf(1, <<1>>)>>, <<ReadOf(3, <<1, 0, 1>>), ReadOf(3, <<1>>)>>) }

-----------------------------------------------------------------------------
(* A UART's two lines: frames of a start bit, a data bit and a stop bit.   *)

Frame(lane, tick, bit) ==
  {Lines!Change(tick, lane, 0)} \union
  (IF bit = 1 THEN {Lines!Change(tick + BitTicks, lane, 1)} ELSE {Lines!Change(tick + 2 * BitTicks, lane, 1)})

UartByte(lane, bit) == [lane |-> lane, bits |-> <<bit>>, error |-> FALSE]

(* The second frame starts within the gap after the first. *)
UartCaptures ==
  { [last |-> 12 * BitTicks + 2 * BurstGap, drop |-> {},
     changes |-> Frame(0, 1, 1) \union Frame(0, 1 + 2 * BitTicks + g, 0)
                 \union Frame(1, 2 + 5 * BitTicks + BurstGap, b),
     sent |-> 3 :> << UartByte(1, 1), UartByte(1, 0), UartByte(2, b) >>]
    : b \in {0, 1}, g \in 1..BurstGap }

MCCaptures == Small \union I2cCaptures \union UartCaptures
=============================================================================
