-------------------------------- MODULE Wire --------------------------------
(***************************************************************************)
(* The parser of one data channel (host/capture/wire.c): bytes in, records *)
(* and heartbeats out.  A parser is a record and every function of the     *)
(* interface is an operator from parsers to parsers; what it hands over is *)
(* appended to its field out, for the caller to take.                      *)
(*                                                                         *)
(* A byte is a record: v is its value, is what the device meant by it (no  *)
(* code reads it, the properties compare with it), new says it is the      *)
(* first after a check byte or the first of the capture, check that it is  *)
(* a check byte, and cut that bytes before it were lost unnoticed.  W is 1 *)
(* byte.  The CRC-8 is taken to be perfect: a check byte matches when      *)
(* exactly the bytes it covers were read before it.                        *)
(***************************************************************************)
EXTENDS Integers, Sequences, FiniteSets, SequencesExt

CONSTANTS
  C,          \* ticks between two grid points
  Lines,      \* how many logical channels the data channel carries
  IndexMod,   \* heartbeats carry their grid count modulo this (256 in the code)
  ResyncMax   \* RESYNC_STEP_MAX: how far after the last one a resync may land

ASSUME WireAssumption ==
  /\ C \in Nat \ {0}
  /\ Lines \in Nat \ {0}
  /\ IndexMod \in Nat \ {0}
  /\ ResyncMax \in 1..IndexMod

Line == 0 .. (Lines - 1)
None == [t |-> "none"]

Bigger(a, b) == IF a > b THEN a ELSE b
Tags == CHOOSE m \in {2 ^ i : i \in 0..Lines} : m >= Lines /\ m < 2 * Lines
Bit(v, k) == (v \div 2 ^ k) % 2
HbLen == 4    \* the zero record, the grid index, the levels, the check byte
NoLevel == [k \in Line |-> -1]
NoTick == [k \in Line |-> 0]

-----------------------------------------------------------------------------
(* wire_init(), wire_start_at(). *)

Fresh ==
  [ buf |-> << >>, synced |-> FALSE, anchor |-> FALSE, trusted |-> FALSE,
    crc |-> "init", cut |-> FALSE, haveGrid |-> FALSE, startUnverified |-> FALSE,
    firstGrid |-> 0, grid |-> 0, hbTick |-> 0, latest |-> 0, lastGood |-> 0,
    level |-> NoLevel, last |-> NoTick, losses |-> << >>, mismatches |-> << >>,
    counted |-> 0, excused |-> 0, out |-> << >> ]

StartAt(w, grid) == [w EXCEPT !.firstGrid = grid, !.startUnverified = TRUE]

Break(w) ==
  [w EXCEPT !.buf = << >>, !.synced = FALSE, !.trusted = FALSE, !.crc = "init",
            !.cut = FALSE]

-----------------------------------------------------------------------------
(* crc8() over bytes read, as what it can still match. *)

CrcStep(crc, b) ==
  CASE crc = "init"  -> IF b.new THEN "clean" ELSE "bad"
    [] crc = "clean" -> IF b.new \/ b.cut THEN "bad" ELSE "clean"
    [] OTHER         -> "bad"

Crc8(crc, bytes) == FoldLeft(CrcStep, crc, bytes)

-----------------------------------------------------------------------------
(* Losses and the mismatches they excuse: covered(), mismatch(),           *)
(* wire_add_loss_span(), wire_tail_mismatches().                           *)

Overlaps(a, b) == a.start <= b.end /\ a.end >= b.start
Covered(losses, span) == \E l \in Range(losses) : Overlaps(l, span)

Mismatch(w, span) ==
  IF Covered(w.losses, span)
  THEN [w EXCEPT !.excused = @ + 1]
  ELSE [w EXCEPT !.counted = @ + 1, !.mismatches = Append(@, span)]

(* A loss that ended before the latest heartbeat explains no later one. *)
StillExplains(w, loss) == loss.end >= w.hbTick

AddLossSpan(w, span) ==
  LET losses == Append(SelectSeq(w.losses, LAMBDA l : StillExplains(w, l)), span)
      open == SelectSeq(w.mismatches, LAMBDA m : ~Covered(losses, m))
      found == Len(w.mismatches) - Len(open)
  IN  [w EXCEPT !.losses = losses, !.mismatches = open,
                !.counted = @ - found, !.excused = @ + found]

TailMismatches(w) ==
  Cardinality({i \in DOMAIN w.mismatches : w.mismatches[i].start >= w.lastGood})

-----------------------------------------------------------------------------
(* sync_at(): the first place a heartbeat may start whose grid index       *)
(* follows the last one; any index before the first.  The bytes before it  *)
(* are skipped, and when there is none the last ones are kept.             *)

Step(w, index) == (index - w.grid) % IndexMod

MayFollow(w, index) == w.haveGrid => Step(w, index) \in 1..(ResyncMax - 1)

SyncPoints(w) ==
  {i \in 1..(Len(w.buf) - HbLen + 1) : w.buf[i].v = 0 /\ MayFollow(w, w.buf[i + 1].v)}

SyncAt(w) ==
  IF SyncPoints(w) # {}
  THEN LET i == CHOOSE i \in SyncPoints(w) : \A j \in SyncPoints(w) : i <= j
       IN  [w EXCEPT !.buf = SubSeq(@, i, Len(@)), !.synced = TRUE,
                     !.anchor = w.haveGrid, !.crc = "init"]
  ELSE LET keep == IF Len(w.buf) < HbLen THEN Len(w.buf) ELSE HbLen - 1
       IN  [w EXCEPT !.buf = SubSeq(@, Len(@) - keep + 1, Len(@))]

-----------------------------------------------------------------------------
(* heartbeat().  One found by a resync is an anchor: its check byte covers *)
(* bytes that were skipped, so the next one decides.                       *)

FirstUnverified(w) == ~w.haveGrid /\ w.startUnverified

AcceptedByCheck(w, hb) ==
  hb[HbLen].check /\ Crc8(w.crc, SubSeq(hb, 1, HbLen - 1)) = "clean"

Accepted(w, hb) ==
  \/ w.anchor
  \/ FirstUnverified(w)
  \/ /\ hb[HbLen].check
     /\ ~hb[HbLen].cut
     /\ Crc8(w.crc, SubSeq(hb, 1, HbLen - 1)) = "clean"

TrustedAtOnce(w) == TRUE

TrustedAfter(w) == ~w.anchor

CheckFails(w) ==
  [w EXCEPT !.trusted = FALSE, !.synced = FALSE, !.crc = "init", !.cut = FALSE]

CompareLine(w, k, lvl, span) ==
  LET wrong == w.trusted /\ w.level[k] >= 0 /\ w.level[k] # lvl
      w1 == IF wrong THEN Mismatch(w, span) ELSE w
  IN  [w1 EXCEPT !.level[k] = lvl]

Heartbeat(w, hb) ==
  LET index == hb[2].v
      grid == IF w.haveGrid THEN w.grid + Step(w, index)
              ELSE w.firstGrid + ((index - w.firstGrid) % IndexMod)
      tick == grid * C
      span == [start |-> w.hbTick, end |-> tick]
      w1 == FoldLeft(LAMBDA x, k : CompareLine(x, k, Bit(hb[3].v, k), span),
                     w, [i \in 1..Lines |-> i - 1])
      good == w1.counted + w1.excused = w.counted + w.excused
      unverified == w.anchor \/ FirstUnverified(w)
  IN  [w1 EXCEPT
        !.grid = grid, !.haveGrid = TRUE, !.hbTick = tick, !.crc = "init",
        !.lastGood = IF good THEN tick ELSE @,
        !.trusted = TrustedAfter(w), !.anchor = FALSE, !.cut = FALSE,
        !.out = Append(@, [t |-> "hb", grid |-> grid, tick |-> tick, levels |-> hb[3].v,
                           unverified |-> unverified, cut |-> FALSE, is |-> hb[1].is])]

TakeHeartbeat(w) ==
  LET hb == SubSeq(w.buf, 1, HbLen)
      w1 == [w EXCEPT !.buf = SubSeq(@, HbLen + 1, Len(@))]
  IN  IF Accepted(w, hb) THEN Heartbeat(w1, hb) ELSE CheckFails(w1)

-----------------------------------------------------------------------------
(* record(): nothing is handed over before a heartbeat has checked good. *)

TakeRecord(w) ==
  LET b == w.buf[1]
      k == b.v % Tags
      z == b.v \div Tags
      gap == (z + 1) \div 2
      tick == Bigger(w.last[k], w.hbTick) + gap
      level == 1 - (z % 2)
      cut == w.cut \/ b.cut
      w1 == [w EXCEPT !.buf = Tail(@), !.crc = CrcStep(@, b), !.cut = cut]
  IN  IF ~w.trusted \/ k >= Lines \/ gap > C THEN w1
      ELSE [w1 EXCEPT
             !.last[k] = tick, !.level[k] = level, !.latest = Bigger(@, tick),
             !.out = Append(@, [t |-> "rec", tick |-> tick, line |-> k, level |-> level,
                                cut |-> cut, is |-> b.is])]

-----------------------------------------------------------------------------
(* wire_feed(): steps until what is held is too short.  A step consumes a  *)
(* byte, finds the next heartbeat, or leaves the parser as it is.          *)

ParseStep(w) ==
  LET s == IF w.synced THEN w ELSE SyncAt(w)
  IN  CASE ~s.synced \/ s.buf = << >> -> s
        [] s.synced /\ s.buf # << >> /\ s.buf[1].v # 0 -> TakeRecord(s)
        [] OTHER -> IF Len(s.buf) < HbLen THEN s ELSE TakeHeartbeat(s)

Feed(w, bytes) ==
  FoldLeft(LAMBDA s, i : ParseStep(s), [w EXCEPT !.buf = @ \o bytes],
           [i \in 1..(Len(w.buf) + Len(bytes) + 1) |-> i])

(* wire_watermark(): a heartbeat follows every record of its tick. *)
WatermarkLatest(w) == Bigger(w.latest, w.hbTick)

Watermark(w) == IF w.latest > w.hbTick + 1 THEN w.latest - 1 ELSE w.hbTick

-----------------------------------------------------------------------------
(* The writer, as the device writes a data channel: wire_write_record(),   *)
(* wire_write_heartbeat().                                                 *)

Byte(v, is, new) == [v |-> v, is |-> is, new |-> new, check |-> FALSE, cut |-> FALSE]

WriterFresh == [new |-> TRUE, grid |-> 0, hbTick |-> 0, last |-> NoTick]

GapReference(wr, k) == Bigger(wr.last[k], wr.hbTick)

CanWrite(wr, k, tick) ==
  tick > GapReference(wr, k) /\ tick - GapReference(wr, k) <= C

ZigZag(gap, level) == IF level = 1 THEN 2 * gap ELSE 2 * gap - 1

RecordBytes(wr, k, tick, level) ==
  << Byte(ZigZag(tick - GapReference(wr, k), level) * Tags + k,
          [t |-> "rec", tick |-> tick, line |-> k, level |-> level], wr.new) >>

WriteRecord(wr, k, tick) == [wr EXCEPT !.last[k] = tick, !.new = FALSE]

BitMask(levels) ==
  FoldLeft(LAMBDA v, i : v + levels[i - 1] * 2 ^ (i - 1), 0, [i \in 1..Lines |-> i])

HeartbeatBytes(wr, grid, levels, checkValue) ==
  << Byte(0, [t |-> "hb", grid |-> grid], wr.new),
     Byte(grid % IndexMod, None, FALSE),
     Byte(BitMask(levels), None, FALSE),
     [Byte(checkValue, None, FALSE) EXCEPT !.check = TRUE] >>

WriteHeartbeat(wr, grid) ==
  [wr EXCEPT !.grid = grid, !.hbTick = grid * C, !.new = TRUE]
=============================================================================
