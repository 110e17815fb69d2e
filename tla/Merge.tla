------------------------------- MODULE Merge -------------------------------
(***************************************************************************)
(* The merge of a capture's data channels into one stream in tick order    *)
(* (host/codec/merge.c).  A merge is a record: a queue and a watermark per *)
(* data channel, and the tick everything has been handed over up to.  The  *)
(* calls of its handler are appended to out.                               *)
(***************************************************************************)
EXTENDS Integers, Sequences, FiniteSets, SequencesExt

CONSTANTS
  DataChannels,  \* the capture's data channels
  Block          \* the channels each data channel carries, per data channel

NoTick == -1
Channel == UNION {Block[d] : d \in DataChannels}
Carrier(ch) == CHOOSE d \in DataChannels : ch \in Block[d]
Lowest(S) == CHOOSE x \in S : \A y \in S : x <= y
Higher(a, b) == IF a > b THEN a ELSE b
InOrder(S) == SetToSortSeq(S, <)

(* merge_init() *)
MergeFresh ==
  [ q |-> [d \in DataChannels |-> << >>], wm |-> [d \in DataChannels |-> NoTick],
    released |-> NoTick, out |-> << >> ]

Carriers == {d \in DataChannels : Block[d] # {}}

-----------------------------------------------------------------------------
(* release(), next_queue(): the heads of the queues in order of tick,      *)
(* records before levels, then channel.                                    *)

Record(tick, ch, level) == [t |-> "record", tick |-> tick, ch |-> ch, level |-> level]
Level(tick, ch, level) == [t |-> "level", tick |-> tick, ch |-> ch, level |-> level]
Advance(tick) == [t |-> "advance", tick |-> tick]

Before(a, b) ==
  \/ a.tick < b.tick
  \/ a.tick = b.tick /\ a.t = "record" /\ b.t = "level"
  \/ a.tick = b.tick /\ a.t = b.t /\ a.ch < b.ch

Ready(m, limit) == {d \in DataChannels : m.q[d] # << >> /\ Head(m.q[d]).tick <= limit}

NextQueue(m, limit) ==
  CHOOSE d \in Ready(m, limit) :
    \A e \in Ready(m, limit) \ {d} : Before(Head(m.q[d]), Head(m.q[e]))

HandOver(m, limit) ==
  IF Ready(m, limit) = {} THEN m
  ELSE LET d == NextQueue(m, limit)
       IN  [m EXCEPT !.out = Append(@, Head(m.q[d])), !.q[d] = Tail(@)]

Held(m) == FoldFunction(LAMBDA q, n : n + Len(q), 0, m.q)

HandAllOver(m, limit) ==
  FoldLeft(LAMBDA x, i : HandOver(x, limit), m, [i \in 1..Held(m) |-> i])

Advanced(m, tick) ==
  IF tick > m.released
  THEN [m EXCEPT !.released = tick, !.out = Append(@, Advance(tick))]
  ELSE m

(* Mutant: the limit is where the furthest data channel has come. *)
LimitFurthest(m) == CHOOSE x \in {m.wm[d] : d \in Carriers} : \A d \in Carriers : x >= m.wm[d]

Limit(m) == Lowest({m.wm[d] : d \in Carriers})

Release(m) ==
  IF Carriers = {} \/ \E d \in Carriers : m.wm[d] = NoTick THEN m
  ELSE Advanced(HandAllOver(m, Limit(m)), Limit(m))

-----------------------------------------------------------------------------
(* The interface. *)

Push(m, d, entry) == [m EXCEPT !.q[d] = Append(@, entry)]

MergeRecord(m, tick, ch, level) == Push(m, Carrier(ch), Record(tick, ch, level))
MergeLevel(m, tick, ch, level) == Push(m, Carrier(ch), Level(tick, ch, level))

(* A heartbeat's levels follow the records of its data channel. *)
MergeHeartbeat(m, d, tick, levels) ==
  LET pushed == FoldLeft(LAMBDA x, ch : Push(x, d, Level(tick, ch, levels[ch])),
                         m, InOrder(Block[d]))
  IN  Release([pushed EXCEPT !.wm[d] = Higher(@, tick)])

MergeAdvance(m, tick) ==
  Release([m EXCEPT !.wm = [d \in DataChannels |-> Higher(@[d], tick)]])

MergeFlush(m) ==
  LET ticks == {m.released} \union
               {e.tick : e \in UNION {Range(m.q[d]) : d \in DataChannels}}
      top == CHOOSE t \in ticks : \A u \in ticks : t >= u
  IN  Advanced(HandAllOver(m, top), Higher(top, 0))
=============================================================================
