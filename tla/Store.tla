------------------------------- MODULE Store -------------------------------
(***************************************************************************)
(* The viewer's store of a capture (host/ui/store/store.c): per channel    *)
(* the records held, in blocks, the heartbeats kept as anchors, the spans  *)
(* its level is unknown in and the spans its losses cover; per data        *)
(* channel the watermark and the heartbeats held for late losses.  A store *)
(* is a record; a query under the mutex is an operator of it.              *)
(* Arrays sorted by tick are sets, and an array's capacity is its length.  *)
(***************************************************************************)
EXTENDS Integers, Sequences, FiniteSets, SequencesExt

CONSTANTS
  DataChannels,  \* the capture's data channels
  Block,         \* the channels each data channel carries, per data channel
  BlockRecords,  \* STORE_BLOCK_RECORDS
  BlockCost,     \* what a block counts in the memory limit; all else counts 1
  Limit,         \* the memory limit
  Late,          \* ticks heartbeats are held for late losses
  OPEN           \* past every tick

ASSUME StoreAssumption ==
  /\ \A d, e \in DataChannels : d # e => Block[d] \intersect Block[e] = {}
  /\ BlockRecords \in Nat \ {0} /\ OPEN \in Nat

LOW == 0
HIGH == 1
UNKNOWN == 2

NoTick == -1
Channels == UNION {Block[d] : d \in DataChannels}
Carrier(ch) == CHOOSE d \in DataChannels : ch \in Block[d]
Least(S) == CHOOSE x \in S : \A y \in S : x <= y
Most(S) == CHOOSE x \in S : \A y \in S : x >= y
Total(f) == Cardinality(UNION {{k} \X (1..f[k]) : k \in DOMAIN f})

(* The channel of S with the least key, the lowest of equals. *)
First(S, Key(_)) ==
  CHOOSE ch \in S : \A o \in S \ {ch} :
    \/ Key(ch) < Key(o)
    \/ Key(ch) = Key(o) /\ ch < o

(* store_new() *)
ChannelNew ==
  [ recs |-> << >>, blocks |-> 0, first |-> 0, last |-> NoTick, cur |-> UNKNOWN,
    cover |-> NoTick, base |-> UNKNOWN, anchors |-> {}, ivals |-> {},
    spans |-> {[start |-> 0, from |-> 0, known |-> OPEN]} ]

StoreNew ==
  [ chans |-> [ch \in Channels |-> ChannelNew],
    wm |-> [d \in DataChannels |-> NoTick], ring |-> [d \in DataChannels |-> << >>],
    oldest |-> 0, losses |-> << >> ]

Dropped(c) == c.cover # NoTick
NextPos(c) == c.first + Len(c.recs)

-----------------------------------------------------------------------------
(* level_k(): the newest of the last record and the last anchor, an anchor *)
(* after the records of its tick, or the base of what was dropped.         *)

Unknown(c, tick) ==
  \/ Dropped(c) /\ tick < c.cover
  \/ \E s \in c.spans : s.start <= tick /\ tick < s.known

Counts(c, tick) == ~Dropped(c) \/ tick >= c.cover

CountLt(c, tick) == Cardinality({i \in DOMAIN c.recs : c.recs[i].tick < tick})
CountLe(c, tick) == CountLt(c, tick + 1)

LevelK(c, tick, k) ==
  LET said == {a.tick : a \in {a \in c.anchors : a.tick <= tick}}
      anchor == Most(said \union {NoTick})
      record == IF k = 0 THEN NoTick ELSE c.recs[k].tick
  IN  IF Unknown(c, tick) THEN UNKNOWN
      ELSE IF record > anchor /\ Counts(c, record) THEN c.recs[k].level
      ELSE IF anchor # NoTick /\ Counts(c, anchor)
      THEN (CHOOSE a \in c.anchors : a.tick = anchor).level
      ELSE c.base

LevelAt(c, tick) == LevelK(c, tick, CountLe(c, tick))

-----------------------------------------------------------------------------
(* Levels that became unknown, and what makes them known again.            *)

(* anchor_put() *)
AnchorPut(c, tick, level) ==
  [c EXCEPT !.anchors = {a \in @ : a.tick # tick} \union {[tick |-> tick, level |-> level]}]

(* span_resolve(): the first record, anchor or held heartbeat from a tick  *)
(* on, with the heartbeat if it is the first.                              *)
Resolve(c, ring, from) ==
  LET givers == {r.tick : r \in Range(c.recs)} \union {a.tick : a \in c.anchors}
      known == Least({t \in givers : t >= from} \union {OPEN})
      beats == SelectSeq(ring, LAMBDA b : b.tick >= from)
  IN  IF beats # << >> /\ Head(beats).tick < known
      THEN [known |-> Head(beats).tick, beat |-> <<Head(beats)>>]
      ELSE [known |-> known, beat |-> << >>]

(* span_add(): the new span takes in the one it starts in and those that   *)
(* start in it; it ends at what makes known from the last loss's end on.   *)
SpanAdd(c, ring, ch, start, from) ==
  LET prev == {s \in c.spans : s.start <= start /\ start <= s.known}
      later == {s \in c.spans : s.start > start}
      least == Most({from} \union {s.from : s \in prev})
      Settled(f) == \A s \in later : s.start <= Resolve(c, ring, f).known => s.from <= f
      end == Least({f \in {least} \union {s.from : s \in later} : f >= least /\ Settled(f)})
      r == Resolve(c, ring, end)
      merged == [start |-> Least({start} \union {s.start : s \in prev}), from |-> end,
                 known |-> r.known]
      kept == c.spans \ (prev \union {s \in later : s.start <= r.known})
      c1 == [c EXCEPT !.spans = kept \union {merged}]
  IN  IF r.known = OPEN THEN [c1 EXCEPT !.cur = UNKNOWN]
      ELSE IF r.beat = << >> THEN c1
      ELSE AnchorPut(c1, r.known, r.beat[1].levels[ch])

(* ival_add() *)
IvalAdd(c, start, end) ==
  LET met == {v \in c.ivals : v.start <= end + 1 /\ start <= v.end + 1}
      one == [start |-> Least({start} \union {v.start : v \in met}),
              end |-> Most({end} \union {v.end : v \in met})]
  IN  [c EXCEPT !.ivals = (@ \ met) \union {one}]

(* The open span of a channel whose level is to become known at a tick. *)
ClosedBy(c, tick) == {s \in c.spans : s.known = OPEN /\ tick >= s.from}
IsOpen(c) == \E s \in c.spans : s.known = OPEN

Known(c, tick) ==
  [c EXCEPT !.spans = (@ \ ClosedBy(c, tick)) \union
                      {[s EXCEPT !.known = tick] : s \in ClosedBy(c, tick)}]

-----------------------------------------------------------------------------
(* The memory limit. *)

Bytes(st) ==
  Total([ch \in Channels |->
           BlockCost * st.chans[ch].blocks + Cardinality(st.chans[ch].anchors) +
           Cardinality(st.chans[ch].spans) + Cardinality(st.chans[ch].ivals)])
  + Total([d \in DataChannels |-> Len(st.ring[d])]) + Len(st.losses)


(* Mutant: the base is the channel's newest level. *)
TrimToNewest(st, ch, tick) ==
  LET c == st.chans[ch]
      c1 == [c EXCEPT !.base = c.cur, !.cover = tick,
                      !.anchors = {a \in @ : a.tick > tick},
                      !.spans = {s \in @ : s.known > tick},
                      !.ivals = {v \in @ : v.end >= tick}]
  IN  [st EXCEPT !.chans[ch] = c1, !.oldest = Most({@, tick})]

(* trim_to(): losses go from the front of the list, in order of start. *)
TrimTo(st, ch, tick) ==
  LET c == st.chans[ch]
      lift == ~Dropped(c) \/ tick > c.cover
      c1 == [c EXCEPT !.base = IF lift THEN LevelAt(c, tick) ELSE @,
                      !.cover = IF lift THEN tick ELSE @,
                      !.anchors = {a \in @ : a.tick > tick},
                      !.spans = {s \in @ : s.known > tick},
                      !.ivals = {v \in @ : v.end >= tick}]
      oldest == Most({st.oldest, tick})
      stays == {i \in DOMAIN st.losses : st.losses[i].end >= oldest}
  IN  [st EXCEPT !.chans[ch] = c1, !.oldest = oldest,
                 !.losses = IF stays = {} THEN << >> ELSE SubSeq(@, Least(stays), Len(@))]

Full(st) == {ch \in Channels : st.chans[ch].blocks >= 2}

(* drop_oldest(): the full block whose newest record is the oldest. *)
DropOldest(st) ==
  LET Newest(ch) == st.chans[ch].recs[BlockRecords].tick
      best == First(Full(st), Newest)
  IN  [TrimTo(st, best, Newest(best))
        EXCEPT !.chans[best].blocks = @ - 1, !.chans[best].first = @ + BlockRecords,
               !.chans[best].recs = SubSeq(@, BlockRecords + 1, Len(@))]

Beside(c) == Most({Cardinality(c.anchors), Cardinality(c.ivals)})
Trimmable(st) == {ch \in Channels : Beside(st.chans[ch]) > 1}

(* Element n of a set of ticks in order, from 0. *)
Nth(ticks, n) == CHOOSE t \in ticks : Cardinality({u \in ticks : u < t}) = n

(* trim_side(): the older half of what the channel with the most of it keeps. *)
TrimSide(st) ==
  LET best == First(Trimmable(st), LAMBDA ch : -Beside(st.chans[ch]))
      c == st.chans[best]
      ticks == IF Cardinality(c.anchors) >= Cardinality(c.ivals)
               THEN {a.tick : a \in c.anchors} ELSE {v.end : v \in c.ivals}
  IN  TrimTo(st, best, Nth(ticks, Cardinality(ticks) \div 2))

(* Mutant: one block is dropped, however far past the limit. *)
EnforceOnce(st) ==
  IF Bytes(st) <= Limit \/ Full(st) = {} THEN st ELSE DropOldest(st)

(* enforce() *)
Enforce(st) ==
  LET Step(s) == CASE Bytes(s) > Limit /\ Full(s) # {} -> DropOldest(s)
                   [] Bytes(s) > Limit /\ Full(s) = {} /\ Trimmable(s) # {} -> TrimSide(s)
                   [] OTHER -> s
      most == Total([ch \in Channels |-> st.chans[ch].blocks + Beside(st.chans[ch])])
  IN  IF Bytes(st) <= Limit THEN st
      ELSE FoldLeft(LAMBDA s, i : Step(s), st, [i \in 1..most |-> i])

-----------------------------------------------------------------------------
(* store_write(): entries are [t, tick, ch, level], [t, tick, d, levels]   *)
(* and [t, tick, end, lost].                                               *)

(* block_add() *)
BlockAdded(st, ch) ==
  IF Len(st.chans[ch].recs) < BlockRecords * st.chans[ch].blocks THEN st
  ELSE Enforce([st EXCEPT !.chans[ch].blocks = @ + 1])

ApplyRecord(st, e) ==
  IF e.tick <= st.chans[e.ch].last THEN st
  ELSE LET s == BlockAdded(st, e.ch)
           c == [s.chans[e.ch] EXCEPT !.recs = Append(@, [tick |-> e.tick, level |-> e.level]),
                                      !.last = e.tick, !.cur = e.level]
       IN  [s EXCEPT !.chans[e.ch] = Known(c, e.tick)]

(* ring_push() *)
RingPush(ring, tick, levels) ==
  Append(SelectSeq(ring, LAMBDA b : b.tick + Late >= tick), [tick |-> tick, levels |-> levels])

(* Mutant: a heartbeat inside a loss makes the level known. *)
BeatTakenAtOnce(c, tick, level) ==
  LET keep == IF IsOpen(c) THEN TRUE ELSE c.cur # level
      known == [c EXCEPT !.spans = {IF s.known = OPEN THEN [s EXCEPT !.known = tick] ELSE s
                                    : s \in @}]
  IN  IF keep THEN [AnchorPut(known, tick, level) EXCEPT !.cur = level] ELSE c

(* A heartbeat is kept for a channel it makes known or corrects. *)
BeatTaken(c, tick, level) ==
  LET keep == IF IsOpen(c) THEN ClosedBy(c, tick) # {} ELSE c.cur # level
  IN  IF keep THEN [AnchorPut(Known(c, tick), tick, level) EXCEPT !.cur = level] ELSE c

ApplyHeartbeat(st, e) ==
  [st EXCEPT !.chans = [ch \in Channels |-> IF ch \in Block[e.d]
                                            THEN BeatTaken(@[ch], e.tick, e.levels[ch])
                                            ELSE @[ch]],
             !.wm[e.d] = Most({@, e.tick}),
             !.ring[e.d] = RingPush(@, e.tick, e.levels)]

(* A loss takes its place in the list, in order of start. *)
ApplyLoss(st, e) ==
  LET before == Cardinality({i \in DOMAIN st.losses : st.losses[i].start <= e.tick})
      loss == [start |-> e.tick, end |-> e.end, lost |-> e.lost]
      Hit(ch) == SpanAdd(IvalAdd(st.chans[ch], e.tick, e.end), st.ring[Carrier(ch)], ch,
                         e.tick, e.end + 1)
  IN  [st EXCEPT !.losses = InsertAt(@, before + 1, loss),
                 !.chans = [ch \in Channels |-> IF ch \in e.lost THEN Hit(ch) ELSE @[ch]]]

Apply(st, e) ==
  CASE e.t = "record" -> ApplyRecord(st, e)
    [] e.t = "heartbeat" -> ApplyHeartbeat(st, e)
    [] e.t = "loss" -> ApplyLoss(st, e)

StoreWrite(st, batch) == Enforce(FoldLeft(Apply, st, batch))

-----------------------------------------------------------------------------
(* Queries. *)

(* store_stats(): NoTick until every data channel has sent a heartbeat. *)
Watermark(st) == Least({st.wm[d] : d \in DataChannels})

(* store_level(): NoTick (-ERANGE) for a tick that is not held. *)
StoreLevel(st, ch, tick) ==
  IF tick < st.oldest \/ tick > st.wm[Carrier(ch)] THEN NoTick
  ELSE LevelAt(st.chans[ch], tick)

UnknownIn(c, a, b) ==
  \/ Dropped(c) /\ a < c.cover
  \/ \E s \in c.spans : s.start <= b /\ s.known > a
LossIn(c, a, b) == \E v \in c.ivals : v.start <= b /\ v.end >= a

(* store_columns(), one column: ticks a to b - 1, not empty. *)
Column(st, ch, a, b) ==
  LET c == st.chans[ch]
      Held(tick) == IF tick >= st.oldest THEN LevelAt(c, tick) ELSE UNKNOWN
  IN  [ start |-> IF a > 0 THEN Held(a - 1) ELSE UNKNOWN, end |-> Held(b - 1),
        changes |-> CountLt(c, b) - CountLt(c, a), loss |-> LossIn(c, a, b - 1),
        unknown |-> UnknownIn(c, a, b - 1),
        noData |-> a < st.oldest \/ b - 1 > st.wm[Carrier(ch)] ]

(* store_losses(): at most max of those that overlap the span, in order. *)
StoreLosses(st, from, to, max) ==
  LET hit == SelectSeq(st.losses, LAMBDA l : l.start <= to /\ l.end >= from)
  IN  SubSeq(hit, 1, Least({max, Len(hit)}))

(* store_read_merged(): at most max records up to the watermark wm read    *)
(* before, in order of tick and channel, from the positions pos on.        *)
OutOfRange(st, pos) ==
  \E ch \in Channels : pos[ch] < st.chans[ch].first \/ pos[ch] > NextPos(st.chans[ch])

ReadOne(st, wm, r) ==
  LET At(ch) == st.chans[ch].recs[r.pos[ch] - st.chans[ch].first + 1]
      ready == {ch \in Channels : r.pos[ch] < NextPos(st.chans[ch]) /\ At(ch).tick <= wm}
      best == First(ready, LAMBDA ch : At(ch).tick)
  IN  IF ready = {} THEN r
      ELSE [pos |-> [r.pos EXCEPT ![best] = @ + 1],
            out |-> Append(r.out, [tick |-> At(best).tick, ch |-> best,
                                   level |-> At(best).level])]

ReadMerged(st, pos, max, wm) ==
  FoldLeft(LAMBDA r, i : ReadOne(st, wm, r), [pos |-> pos, out |-> << >>], [i \in 1..max |-> i])
=============================================================================
