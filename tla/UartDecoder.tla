---------------------------- MODULE UartDecoder ----------------------------
(***************************************************************************)
(* UART bytes in bursts (host/codec/uart/uart.c).  A line's edges wait     *)
(* until a whole frame after them has been handed over.  Times inside a    *)
(* frame are in half ticks, so that the middle of a bit is a whole number. *)
(***************************************************************************)
EXTENDS CodecItem

CONSTANTS
  FrameBits,   \* data bits of a frame
  BitTicks,    \* ticks of a bit time
  BurstGap     \* idle ticks that end a burst

Half(tick) == 2 * tick
LastSample == (2 * FrameBits + 3) * BitTicks    \* (bits + 1.5) bit times, in half ticks

LineFresh == [base |-> -1, busy |-> 0, edges |-> << >>]

(* lanes: the channel of TX, then that of RX; a UART may have one only. *)
UartFresh(dec, lanes) ==
  Decoder(dec, "uart", Range(lanes), 0,
    [ lanes |-> lanes, line |-> [i \in DOMAIN lanes |-> LineFresh], burst |-> NoItem,
      last |-> 0, errors |-> 0 ])

Lane(s, ch) == CHOOSE i \in DOMAIN s.lanes : s.lanes[i] = ch

(* level_at(), pop() *)
LevelAt(l, half) ==
  LET past == SelectSeq(l.edges, LAMBDA e : Half(e.tick) <= half)
  IN  IF past = << >> THEN l.base ELSE past[Len(past)].level

Pop(l) == [l EXCEPT !.base = Head(l.edges).level, !.edges = Tail(@)]

PopUpTo(l, tick) ==
  [l EXCEPT !.edges = SelectSeq(@, LAMBDA e : e.tick > tick)]

-----------------------------------------------------------------------------
(* frames(): the frames of a line that end by upto, as bytes.  A rising    *)
(* edge, or an edge inside a frame already read, starts none.              *)

StartsNone(l) == Half(Head(l.edges).tick) < l.busy \/ Head(l.edges).level # 0

FrameByte(l, lane, tick) ==
  [ start |-> tick, end |-> (Half(tick) + LastSample) \div 2, lane |-> lane,
    bits |-> [k \in 1..FrameBits |-> LevelAt(l, Half(tick) + (2 * k + 1) * BitTicks)],
    error |-> \/ LevelAt(l, Half(tick) + BitTicks) # 0
              \/ LevelAt(l, Half(tick) + LastSample) # 1 ]

FrameStep(f, lane, upto) ==
  IF f.l.edges = << >> THEN f
  ELSE IF StartsNone(f.l) THEN [f EXCEPT !.l = Pop(@)]
  ELSE LET tick == Head(f.l.edges).tick
           end == Half(tick) + LastSample
       IN  IF end > Half(upto) THEN f
           ELSE [l |-> [Pop(f.l) EXCEPT !.busy = end],
                 read |-> Append(f.read, FrameByte(f.l, lane, tick))]

Frames(l, lane, upto) ==
  FoldLeft(LAMBDA f, i : FrameStep(f, lane, upto), [l |-> l, read |-> << >>],
           [i \in 1..Len(l.edges) |-> i])

-----------------------------------------------------------------------------
(* take(), burst_close(): the other direction or a gap closes a burst. *)

BurstClose(s) ==
  [Emit(s, [s.burst EXCEPT !.body.errors = s.errors]) EXCEPT !.burst = NoItem]

Ends(s, b) == s.burst.body.lane # b.lane \/ b.start > s.last + BurstGap

(* take() *)
AddByte(s, burst, errors, b) ==
  [s EXCEPT !.burst = [burst EXCEPT !.end = b.end, !.body.words = Append(@, b)],
            !.last = b.end, !.errors = errors + (IF b.error THEN 1 ELSE 0)]

NewBurst(s, b) == Item(s.dec, b.start, [lane |-> b.lane, words |-> << >>, errors |-> 0])

TakeByte(s, b) ==
  IF Open(s.burst) /\ ~Ends(s, b) THEN AddByte(s, s.burst, s.errors, b)
  ELSE AddByte(IF Open(s.burst) THEN BurstClose(s) ELSE s, NewBurst(s, b), 0, b)

ByStart(a, b) == a.start < b.start \/ (a.start = b.start /\ a.lane < b.lane)

-----------------------------------------------------------------------------
(* The decoder's interface. *)

UartRecord(s, tick, ch, level) ==
  LET i == Lane(s, ch)
      l == s.line[i]
      base == IF l.base < 0 /\ l.edges = << >> THEN 1 - level ELSE l.base
  IN  [s EXCEPT !.line[i] = [l EXCEPT !.base = base,
                                      !.edges = Append(@, [tick |-> tick, level |-> level])]]

(* A line whose records say otherwise lost some: what waits is dropped. *)
UartLevel(s, tick, ch, level) ==
  LET i == Lane(s, ch)
      l == s.line[i]
      now == LevelAt(l, Half(tick))
      marked == Open(s.burst) /\ s.burst.body.lane = i
  IN  CASE now < 0 -> [s EXCEPT !.line[i].base = level]
        [] now >= 0 /\ now # level ->
             [s EXCEPT !.burst = IF marked THEN [@ EXCEPT !.loss = TRUE] ELSE @,
                       !.line[i] = [PopUpTo(l, tick) EXCEPT !.base = level,
                                                            !.busy = Half(tick)]]
        [] OTHER -> s

(* A frame waiting for its end starts a burst no later than its start bit. *)
Waiting(l) == {e.tick : e \in {f \in Range(l.edges) : f.level = 0 /\ Half(f.tick) >= l.busy}}

(* Every frame that ends by tick, of all lines, in order of its start. *)
Framed(s, framed) ==
  FoldLeft(TakeByte, [s EXCEPT !.line = [i \in DOMAIN framed |-> framed[i].l]],
           Ranked(UNION {Range(framed[i].read) : i \in DOMAIN framed}, ByStart))

IdleClosed(s, tick) ==
  IF Open(s.burst) /\ tick > s.last + BurstGap THEN BurstClose(s) ELSE s

Held(s) ==
  UNION {Waiting(s.line[i]) : i \in DOMAIN s.lanes}
    \union (IF Open(s.burst) THEN {s.burst.start} ELSE {})

UartHorizon(s, held) ==
  IF held = {} THEN s ELSE Horizon(s, CHOOSE t \in held : \A u \in held : t <= u)

UartAdvance(s, tick) ==
  LET Read(x) == Framed(x, [i \in DOMAIN x.lanes |-> Frames(x.line[i], i, tick)])
      Told(x) == UartHorizon(x, Held(x))
  IN  Told(IdleClosed(Read(s), tick))

UartLoss(s, end) == [s EXCEPT !.burst = MarkOpen(@, end)]

(* A frame not finished by the end of the input is not read. *)
UartFinish(s, tick) ==
  LET Closed(x) == IF Open(x.burst) THEN BurstClose(x) ELSE x
  IN  Closed(UartAdvance(s, tick))
=============================================================================
