------------------------------- MODULE Codec -------------------------------
(***************************************************************************)
(* A codec session (host/codec/codec.c): the merge of the data channels    *)
(* hands records, levels and the time reached to the decoders; the items   *)
(* they emit wait until none can start earlier, and until the hold after   *)
(* their end has passed, so that a loss told in that time still marks them.*)
(***************************************************************************)
EXTENDS Integers, Sequences, FiniteSets, SequencesExt

CONSTANTS
  DataChannels, Block,
  ByteBits, ActivityGap, ActivityMax, FrameBits, BitTicks, BurstGap,
  ChipAddr, ByteRange, RegBytes, ChipRegs, CalReg, ScaledRegs, ChipCmds,
  CmdWords(_), Crc(_, _),
  Hold           \* ticks an item is held after its end

ASSUME MergeAssumption ==
  /\ IsFiniteSet(DataChannels)
  /\ \A d \in DataChannels : Block[d] \subseteq Nat
  /\ \A d, e \in DataChannels : d # e => Block[d] \intersect Block[e] = {}

Mg == INSTANCE Merge
LOCAL INSTANCE I2cDecoder
LOCAL INSTANCE ActivityDecoder
LOCAL INSTANCE UartDecoder
LOCAL INSTANCE ChipDecoder

Channels == Mg!Channel

(* codec_new(), codec_add(): a session with its decoders. *)
I2c(dec, scl, sda) == I2cFresh(dec, scl, sda)
Activity(dec, lines) == ActivityFresh(dec, lines)
Uart(dec, lanes) == UartFresh(dec, lanes)
Chip(dec, lower, pattern) == ChipFresh(dec, lower, pattern)

CodecNew(decs) ==
  [ m |-> Mg!MergeFresh, decs |-> decs, level |-> [ch \in Channels |-> -1],
    pending |-> << >>, nextId |-> 0, tick |-> 0, finished |-> FALSE ]

-----------------------------------------------------------------------------
(* codec_emit(), assign_ids(), pending_insert(): the decoders stacked on   *)
(* the item's decoder see it first; then it waits in order of its start.   *)

Stacked(c, dec, item) ==
  LET See(a, i) ==
        IF a.c.decs[i].kind # "chip" \/ a.c.decs[i].lower # dec THEN a
        ELSE LET read == ChipItem(a.c.decs[i], a.item)
             IN  [c |-> [a.c EXCEPT !.decs[i] = read.s], item |-> read.t]
  IN  FoldLeft(See, [c |-> c, item |-> item], [i \in 1..Len(c.decs) |-> i])

Children(item) ==
  Len(item.readings) + (IF "segs" \in DOMAIN item.body THEN Len(item.body.segs) ELSE 0)

PendingInsert(pending, item) ==
  LET before == Cardinality({i \in DOMAIN pending : pending[i].start <= item.start})
  IN  InsertAt(pending, before + 1, item)

Taken(c, item) ==
  [c EXCEPT !.pending = PendingInsert(@, [id |-> c.nextId + 1] @@ item),
            !.nextId = @ + 1 + Children(item)]

CodecEmit(c, item) ==
  LET Seen(a) == Taken(a.c, a.item)
  IN  Seen(Stacked(c, item.dec, item))

(* What decoder i has emitted in a call of one of its operations. *)
Took(c, i) == FoldLeft(CodecEmit, [c EXCEPT !.decs[i].emitted = << >>], c.decs[i].emitted)

(* Every decoder's operation Op; the items come in order of the decoders'  *)
(* addition, and no operation looks at another decoder's.                  *)
EachDecoder(c, Op(_)) ==
  FoldLeft(Took, [c EXCEPT !.decs = [i \in DOMAIN @ |-> Op(@[i])]],
           [i \in 1..Len(c.decs) |-> i])

-----------------------------------------------------------------------------
(* on_record(), on_level(), on_advance(): the merge's handler.             *)

OnRecord(s, e) ==
  IF e.ch \notin s.lines THEN s
  ELSE CASE s.kind = "i2c" -> I2cRecord(s, e.tick, e.ch, e.level)
         [] s.kind = "activity" -> ActivityRecord(s, e.tick, e.ch)
         [] s.kind = "uart" -> UartRecord(s, e.tick, e.ch, e.level)

OnLevel(s, e) ==
  IF e.ch \notin s.lines THEN s
  ELSE CASE s.kind = "i2c" -> I2cLevel(s, e.tick, e.ch, e.level)
         [] s.kind = "uart" -> UartLevel(s, e.tick, e.ch, e.level)
         [] OTHER -> s

OnAdvance(s, tick) ==
  CASE s.kind = "i2c" -> I2cAdvance(s, tick)
    [] s.kind = "activity" -> ActivityAdvance(s, tick)
    [] s.kind = "uart" -> UartAdvance(s, tick)
    [] s.kind = "chip" -> s

Handle(c, e) ==
  LET Op(s) == CASE e.t = "record" -> OnRecord(s, e)
                 [] e.t = "level" -> OnLevel(s, e)
                 [] e.t = "advance" -> OnAdvance([s EXCEPT !.horizon = e.tick], e.tick)
  IN  EachDecoder(IF e.t = "advance" THEN [c EXCEPT !.tick = e.tick]
                  ELSE [c EXCEPT !.level[e.ch] = e.level], Op)

(* The merge's calls, as it made them. *)
Handed(c, m) == FoldLeft(Handle, [c EXCEPT !.m = [m EXCEPT !.out = << >>]], m.out)

-----------------------------------------------------------------------------
(* The interface: codec_record(), codec_heartbeat() of data channel d, and *)
(* for a store, whose levels and ticks come one by one,                    *)
(* codec_line_level(), codec_advance().                                    *)

CodecTake(c, d, e) ==
  Handed(c, CASE e.t = "record" -> Mg!MergeRecord(c.m, e.tick, e.ch, e.level)
              [] e.t = "heartbeat" -> Mg!MergeHeartbeat(c.m, d, e.tick, e.levels)
              [] e.t = "level" -> Mg!MergeLevel(c.m, e.tick, e.ch, e.level)
              [] e.t = "advance" -> Mg!MergeAdvance(c.m, e.tick))

Overlaps(item, loss) == item.start <= loss.end /\ item.end >= loss.start

(* lost_lines(): of its own lines, or its lower decoder's. *)
LinesOf(c, s) == IF s.lower = 0 THEN s.lines ELSE c.decs[s.lower].lines

CodecLoss(c, loss) ==
  LET Hit(s) == LinesOf(c, s) \intersect loss.lost # {}
      Mark(item) == IF Hit(c.decs[item.dec]) /\ Overlaps(item, loss)
                    THEN [item EXCEPT !.loss = TRUE] ELSE item
      Hear(s) == IF ~Hit(s) THEN s
                 ELSE CASE s.kind = "i2c" -> I2cLoss(s, loss.end)
                        [] s.kind = "activity" -> ActivityLoss(s, loss.end)
                        [] s.kind = "uart" -> UartLoss(s, loss.end)
                        [] s.kind = "chip" -> ChipLoss(s)
  IN  [c EXCEPT !.pending = [i \in DOMAIN @ |-> Mark(@[i])],
                !.decs = [i \in DOMAIN @ |-> Hear(@[i])]]

CodecFinish(c) ==
  LET Flushed(x) ==
        LET Op(s) == CASE s.kind = "i2c" -> I2cFinish(s)
                       [] s.kind = "activity" -> ActivityFinish(s)
                       [] s.kind = "uart" -> UartFinish(s, x.tick)
                       [] s.kind = "chip" -> s
        IN  EachDecoder([x EXCEPT !.finished = TRUE], Op)
  IN  Flushed(Handed(c, Mg!MergeFlush(c.m)))

(* codec_next() gives the first item once it can be released. *)
CanRelease(c) ==
  /\ c.pending # << >>
  /\ \/ c.finished
     \/ /\ \A i \in DOMAIN c.decs : Head(c.pending).start < c.decs[i].horizon
        /\ Head(c.pending).end + Hold <= c.tick

CodecNext(c) == [c EXCEPT !.pending = Tail(@)]
=============================================================================
