----------------------------- MODULE I2cDecoder -----------------------------
(***************************************************************************)
(* I2C transactions (host/codec/i2c/i2c.c).  The edges of one tick are     *)
(* taken together, in the order valid I2C implies: SCL falls, SDA changes, *)
(* SCL rises.  A byte has ByteBits data bits (8 in the code) and its ACK.  *)
(***************************************************************************)
EXTENDS CodecItem

CONSTANT ByteBits

I2cFresh(dec, scl, sda) ==
  Decoder(dec, "i2c", {scl, sda}, 0,
    [ scl |-> scl, lscl |-> -1, lsda |-> -1, group |-> FALSE, gtick |-> 0, gscl |-> -1,
      gsda |-> -1, cur |-> NoItem, byte |-> 0, nbits |-> 0, byteStart |-> 0, last |-> 0 ])

-----------------------------------------------------------------------------
(* segment_open(), segment_close(), bit(): the open transaction's words    *)
(* and segments; the open segment is the last.                             *)

Segment(tick, first) ==
  [ start |-> tick, end |-> tick, hasAddr |-> FALSE, addr |-> 0, read |-> FALSE,
    first |-> first, count |-> 0 ]

Later(a, b) == IF a > b THEN a ELSE b

CloseSegment(item, tick) ==
  LET n == Len(item.body.segs)
  IN  [item EXCEPT !.body.segs[n].end = Later(@, tick)]

OpenSegment(item, tick) ==
  [item EXCEPT !.body.segs = Append(@, Segment(tick, Len(item.body.words) + 1))]

CutByte(s) == s.cur.body.cut \/ s.nbits > 1

AddWord(item, word) ==
  LET n == Len(item.body.segs)
      seg == item.body.segs[n]
      addressed == [seg EXCEPT !.hasAddr = TRUE, !.addr = word.value \div 2,
                               !.read = word.value % 2 = 1]
  IN  [item EXCEPT !.body.words = Append(@, word),
         !.body.segs[n] = [(IF seg.count = 0 THEN addressed ELSE seg)
                            EXCEPT !.count = @ + 1, !.end = word.end]]

TakeBit(s, tick, b) ==
  LET start == IF s.nbits = 0 THEN tick ELSE s.byteStart
      s1 == [s EXCEPT !.cur.end = tick, !.byteStart = start]
  IN  IF s.nbits < ByteBits
      THEN [s1 EXCEPT !.byte = 2 * @ + b, !.nbits = @ + 1]
      ELSE [s1 EXCEPT !.byte = 0, !.nbits = 0,
              !.cur = AddWord(@, [start |-> start, end |-> tick, value |-> s.byte,
                                  nak |-> b = 1])]

-----------------------------------------------------------------------------
(* close_transaction(): what its words say.  A NAK on the last byte a      *)
(* master reads ends the read; it is not an error.                         *)

SegmentWords(seg) == seg.first .. (seg.first + seg.count - 1)

NakAddr(body) ==
  \E seg \in Range(body.segs) : seg.hasAddr /\ body.words[seg.first].nak

NakData(body) ==
  \E seg \in Range(body.segs) : seg.hasAddr /\
    \E i \in SegmentWords(seg) \ {seg.first} :
      body.words[i].nak /\ (~seg.read \/ i # seg.first + seg.count - 1)

Status(body) ==
  CASE body.cut -> "ERR"
    [] ~body.cut /\ NakAddr(body) -> "NAK addr"
    [] ~body.cut /\ ~NakAddr(body) /\ NakData(body) -> "NAK"
    [] ~body.cut /\ ~NakAddr(body) /\ ~NakData(body) ->
         IF \E seg \in Range(body.segs) : seg.hasAddr THEN "ACK" ELSE "empty"

CloseTransaction(s, end) ==
  LET item == CloseSegment([s.cur EXCEPT !.end = end], end)
  IN  Emit([s EXCEPT !.cur = NoItem], [item EXCEPT !.body.status = Status(item.body)])

-----------------------------------------------------------------------------
(* start(), stop(), and the changes of one tick: group_take(),             *)
(* sda_change(), scl_change().                                             *)

StartCondition(s, tick) ==
  LET cur == IF Open(s.cur)
             THEN CloseSegment([s.cur EXCEPT !.body.cut = CutByte(s)], tick)
             ELSE Item(s.dec, tick, [segs |-> << >>, words |-> << >>, cut |-> FALSE,
                                     status |-> ""])
  IN  [s EXCEPT !.cur = OpenSegment(cur, tick), !.byte = 0, !.nbits = 0]

StopCondition(s, tick) ==
  IF Open(s.cur) THEN CloseTransaction([s EXCEPT !.cur.body.cut = CutByte(s)], tick) ELSE s

SdaChange(s, tick, l) ==
  LET s1 == CASE l = s.lsda \/ s.lscl # 1 -> s
              [] l # s.lsda /\ s.lscl = 1 /\ l = 0 -> StartCondition(s, tick)
              [] l # s.lsda /\ s.lscl = 1 /\ l = 1 -> StopCondition(s, tick)
  IN  [s1 EXCEPT !.lsda = l]

SclChange(s, tick, l) ==
  LET s1 == [s EXCEPT !.lscl = l]
  IN  IF l # s.lscl /\ l = 1 /\ Open(s.cur) /\ s.lsda >= 0 THEN TakeBit(s1, tick, s.lsda)
      ELSE s1

(* A line not known yet was at the other level before its first record. *)
Known(level, changed) == IF level < 0 /\ changed >= 0 THEN 1 - changed ELSE level

(* A tick's changes: a fall of SCL comes before SDA's, a rise after it.    *)
Falls(s) == IF s.gscl = 0 THEN <<[line |-> "scl", l |-> 0]>> ELSE << >>
Turns(s) == IF s.gsda >= 0 THEN <<[line |-> "sda", l |-> s.gsda]>> ELSE << >>
Rises(s) == IF s.gscl = 1 THEN <<[line |-> "scl", l |-> 1]>> ELSE << >>

GroupOrder(s) == Falls(s) \o Turns(s) \o Rises(s)

GroupTake(s) ==
  FoldLeft(LAMBDA x, e : IF e.line = "scl" THEN SclChange(x, s.gtick, e.l)
                         ELSE SdaChange(x, s.gtick, e.l),
           [s EXCEPT !.group = FALSE, !.last = s.gtick, !.lscl = Known(@, s.gscl),
                     !.lsda = Known(@, s.gsda), !.gtick = 0, !.gscl = -1, !.gsda = -1],
           GroupOrder(s))

GroupUpTo(s, tick) == IF s.group /\ s.gtick <= tick THEN GroupTake(s) ELSE s

-----------------------------------------------------------------------------
(* The decoder's interface: record(), level(), advance(), loss(), finish() *)

I2cRecord(s, tick, ch, level) ==
  [(IF s.group /\ tick # s.gtick THEN GroupTake(s) ELSE s)
     EXCEPT !.group = TRUE, !.gtick = tick,
            !.gscl = IF ch = s.scl THEN level ELSE @,
            !.gsda = IF ch = s.scl THEN @ ELSE level]

(* A level that is not the last known one: a change was lost. *)
LevelTaken(s, ch, level) ==
  LET was == IF ch = s.scl THEN s.lscl ELSE s.lsda
  IN  [s EXCEPT !.cur = IF was >= 0 /\ was # level /\ Open(@) THEN [@ EXCEPT !.loss = TRUE] ELSE @,
                !.lscl = IF ch = s.scl THEN level ELSE @,
                !.lsda = IF ch = s.scl THEN @ ELSE level]

I2cLevel(s, tick, ch, level) == LevelTaken(GroupUpTo(s, tick), ch, level)

I2cAdvance(s, tick) ==
  LET Held(x) == IF Open(x.cur) THEN Horizon(x, x.cur.start) ELSE x
  IN  Held(GroupUpTo(s, tick))

I2cLoss(s, end) == [s EXCEPT !.cur = MarkOpen(@, end)]

(* A transaction still open never saw its STOP. *)
I2cFinish(s) ==
  LET Cut(x) == IF Open(x.cur) THEN CloseTransaction([x EXCEPT !.cur.incomplete = TRUE], x.last)
                ELSE x
  IN  Cut(IF s.group THEN GroupTake(s) ELSE s)
=============================================================================
