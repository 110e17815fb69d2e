---------------------------- MODULE ChipDecoder ----------------------------
(***************************************************************************)
(* Chips read from the I2C transactions of the decoder they are on         *)
(* (host/codec/chips/chip.c): a register device with a pointer, whose      *)
(* calibration register scales another one (chips/ina219.c), and a command *)
(* device whose data words carry a CRC (chips/sht3x.c).                    *)
(***************************************************************************)
EXTENDS CodecItem

CONSTANTS
  ChipAddr,      \* the chip's address
  ByteRange,     \* values of a byte (256 in the code)
  RegBytes,      \* bytes of a register
  ChipRegs,      \* the registers in the chip's table
  CalReg,        \* the calibration register
  ScaledRegs,    \* the registers that need it
  ChipCmds,      \* the commands in the chip's table
  CmdWords(_),   \* the data words each reads
  Crc(_, _)      \* the check byte of a data word

Unknown == -1

(* pattern: "register" or "command" *)
ChipFresh(dec, lower, pattern) ==
  Decoder(dec, "chip", {}, lower,
          [pattern |-> pattern, pointer |-> Unknown, cmd |-> Unknown, cal |-> 0])

-----------------------------------------------------------------------------
(* seg_get(): a segment the chip reads, its data bytes after the address.  *)

Reads(t, seg) ==
  seg.hasAddr /\ seg.addr = ChipAddr /\ ~t.body.words[seg.first].nak

DataOf(t, seg) ==
  [i \in 1..(seg.count - 1) |-> t.body.words[seg.first + i].value]

BigEndian(bytes) == FoldLeft(LAMBDA v, b : v * ByteRange + b, 0, bytes)

(* reading(): it shares the transaction's flags. *)
Reading(a, seg, start, op, reg) ==
  [ dec |-> a.s.dec, op |-> op, reg |-> reg, start |-> start, end |-> seg.end, loss |-> a.t.loss,
    incomplete |-> a.t.incomplete, unknown |-> FALSE, short |-> FALSE, long |-> FALSE,
    crc |-> FALSE, scale |-> 0, data |-> << >> ]

(* a: the decoder, its transaction, and whether the next segment is taken. *)
Add(a, reading) == [a EXCEPT !.t.readings = Append(@, reading)]

-----------------------------------------------------------------------------
(* pointer_write(), register_read(), register_write(), calibration()       *)

(* The value of a register's transfer; the scale is the calibration known  *)
(* when a scaled register is read, 0 when there is none.                   *)
Transfer(a, reading, data, reg) ==
  LET n == Len(data)
      known == reg \in ChipRegs
      calibrates == known /\ reg = CalReg /\ n >= RegBytes
      scaled == known /\ reg \in ScaledRegs /\ n >= RegBytes
      r == [reading EXCEPT !.unknown = ~known, !.short = n < RegBytes, !.long = n > RegBytes,
                           !.data = data, !.scale = IF scaled THEN a.s.cal ELSE 0]
      a1 == Add(a, r)
  IN  IF calibrates THEN [a1 EXCEPT !.s.cal = BigEndian(SubSeq(data, 1, RegBytes))] ELSE a1

PointerWrite(a, seg) ==
  Add(a, [Reading(a, seg, seg.start, "pointer", a.s.pointer)
            EXCEPT !.unknown = a.s.pointer \notin ChipRegs])

RegisterRead(a, seg, start) ==
  Transfer(a, Reading(a, seg, start, "read", a.s.pointer), DataOf(a.t, seg), a.s.pointer)

RegisterWrite(a, seg) ==
  LET data == DataOf(a.t, seg)
  IN  Transfer([a EXCEPT !.s.pointer = data[1]], Reading(a, seg, seg.start, "write", data[1]),
               Tail(data), data[1])

-----------------------------------------------------------------------------
(* command_write(), command_read(), words_get()                            *)

Words(data) == Len(data) \div 3
BadWord(data, i) == Crc(data[3 * i - 2], data[3 * i - 1]) # data[3 * i]

Checked(reading, data) ==
  [reading EXCEPT !.crc = \E i \in 1..Words(data) : BadWord(data, i),
                  !.short = Len(data) % 3 # 0, !.data = data]

(* A command that gives words is only remembered when its read follows. *)
Remembered(cmd, data, readFollows) ==
  readFollows /\ Len(data) = 2 /\ cmd \in ChipCmds /\ CmdWords(cmd) > 0

CommandWrite(a, seg, readFollows) ==
  LET data == DataOf(a.t, seg)
      cmd == IF Len(data) < 2 THEN Unknown ELSE BigEndian(SubSeq(data, 1, 2))
      a1 == [a EXCEPT !.s.cmd = cmd]
      r == Reading(a, seg, seg.start, "command", cmd)
  IN  IF cmd = Unknown THEN Add(a1, [r EXCEPT !.short = TRUE, !.data = data])
      ELSE IF Remembered(cmd, data, readFollows) THEN a1
      ELSE Add(a1, Checked([r EXCEPT !.unknown = cmd \notin ChipCmds],
                           SubSeq(data, 3, Len(data))))

CommandRead(a, seg, start) ==
  LET data == DataOf(a.t, seg)
      known == a.s.cmd \in ChipCmds
      r == Checked([Reading(a, seg, start, "read", a.s.cmd) EXCEPT !.unknown = ~known], data)
      wants == IF known THEN CmdWords(a.s.cmd) ELSE Words(data)
  IN  Add(a, [r EXCEPT !.short = @ \/ Words(data) < wants, !.long = Words(data) > wants])

-----------------------------------------------------------------------------
(* chip_item(): a reading of each segment to the chip's address.  A        *)
(* pointer write or command and the read after it are one reading.         *)

RegisterSegment(a, seg, next, readFollows) ==
  LET data == DataOf(a.t, seg)
      pointed == [a EXCEPT !.s.pointer = data[1]]
  IN  IF seg.read THEN RegisterRead(a, seg, seg.start)
      ELSE IF Len(data) > 1 THEN RegisterWrite(a, seg)
      ELSE IF readFollows THEN [RegisterRead(pointed, next, seg.start) EXCEPT !.skip = TRUE]
      ELSE PointerWrite(pointed, seg)

CommandSegment(a, seg, next, readFollows) ==
  LET data == DataOf(a.t, seg)
      written == CommandWrite(a, seg, readFollows)
  IN  IF seg.read THEN CommandRead(a, seg, seg.start)
      ELSE IF Len(data) >= 2 /\ Remembered(BigEndian(SubSeq(data, 1, 2)), data, readFollows)
      THEN [CommandRead(written, next, seg.start) EXCEPT !.skip = TRUE]
      ELSE written

ChipSegment(a, i) ==
  LET segs == a.t.body.segs
      seg == segs[i]
      next == IF i < Len(segs) THEN segs[i + 1] ELSE seg
      readFollows == i < Len(segs) /\ Reads(a.t, next) /\ next.read
  IN  IF a.skip THEN [a EXCEPT !.skip = FALSE]
      ELSE IF ~Reads(a.t, seg) THEN a
      ELSE IF ~seg.read /\ seg.count = 1
      THEN Add(a, Reading(a, seg, seg.start, "empty", Unknown))
      ELSE IF a.s.pattern = "command" THEN CommandSegment(a, seg, next, readFollows)
      ELSE RegisterSegment(a, seg, next, readFollows)

ChipItem(s, t) ==
  FoldLeft(ChipSegment, [s |-> s, t |-> t, skip |-> FALSE],
           [i \in 1..Len(t.body.segs) |-> i])

(* chip_loss(): what came before is not known.  The calibration stays. *)
ChipLoss(s) == [s EXCEPT !.pointer = Unknown, !.cmd = Unknown]
=============================================================================
