---------------------------- MODULE StoreCapture ----------------------------
(***************************************************************************)
(* A capture written to the viewer's store: the records and heartbeats of  *)
(* each data channel in its own order, any record of which the device may  *)
(* have lost, and the losses, told in any order, early or late.            *)
(***************************************************************************)
EXTENDS Store

CONSTANTS
  MaxTick,     \* bound: the last tick of the capture
  MaxReports,  \* bound: losses told
  MaxSpan,     \* bound: ticks a loss covers
  C,           \* ticks between heartbeats
  Busy,        \* channels that change at every tick and lose nothing
  Apart        \* bound: ticks one data channel may be ahead of another

VARIABLES
  st,       \* the store
  line,     \* the level each channel's line really had, from tick 0 on
  told,     \* losses told
  missing   \* changes lost and not told of

vars == <<st, line, told, missing>>

Ticks == 0..MaxTick
Now(d) == Len(line[CHOOSE ch \in Block[d] : TRUE])  \* the next tick of data channel d
LevelOf(ch, tick) == line[ch][tick + 1]
Changes(ch, a, b) ==
  Cardinality({t \in a..b : LevelOf(ch, t) # IF t = 0 THEN 0 ELSE LevelOf(ch, t - 1)})

Covers(l, ch, tick) == ch \in l.lost /\ l.tick <= tick /\ tick <= l.end

Init ==
  /\ st = StoreNew
  /\ line = [ch \in Channels |-> << >>]
  /\ told = {} /\ missing = {}

-----------------------------------------------------------------------------
(* What a pull brings for one tick of a data channel, in one write.        *)

Before(ch) == IF line[ch] = << >> THEN 0 ELSE Last(line[ch])

InOrder(S) == [i \in 1..Cardinality(S) |-> Nth(S, i - 1)]

Batch(d, tick, changed, lost, levels) ==
  LET order == InOrder(changed \ lost)
      records == [i \in DOMAIN order |->
                    [t |-> "record", tick |-> tick, ch |-> order[i], level |-> levels[order[i]]]]
      beat == [t |-> "heartbeat", tick |-> tick, d |-> d, levels |-> levels]
  IN  IF tick % C = 0 THEN Append(records, beat) ELSE records

Arrive(d) ==
  /\ Now(d) <= MaxTick
  /\ \A e \in DataChannels : Now(d) < Now(e) + Apart
  /\ \E changed \in {(Block[d] \intersect Busy) \union s : s \in SUBSET (Block[d] \ Busy)} :
       \E lost \in SUBSET (changed \ Busy) :
       LET levels == [ch \in Block[d] |-> IF ch \in changed THEN 1 - Before(ch) ELSE Before(ch)]
       IN  /\ st' = StoreWrite(st, Batch(d, Now(d), changed, lost, levels))
           /\ line' = [ch \in Channels |-> IF ch \in Block[d] THEN Append(line[ch], levels[ch])
                                           ELSE line[ch]]
           /\ missing' = missing \union
                {[tick |-> Now(d), ch |-> ch] :
                   ch \in {ch \in lost : ~\E l \in told : Covers(l, ch, Now(d))}}
  /\ UNCHANGED told

(* A loss report says more than was lost: its span runs from one report to *)
(* the next.                                                               *)
ReportLoss ==
  /\ Cardinality(told) < MaxReports
  /\ \E start, end \in Ticks, lost \in SUBSET (Channels \ Busy) \ {{}} :
       LET loss == [t |-> "loss", tick |-> start, end |-> end, lost |-> lost]
       IN  /\ start <= end /\ end < start + MaxSpan /\ loss \notin told
           /\ st' = StoreWrite(st, <<loss>>)
           /\ told' = told \union {loss}
           /\ missing' = {m \in missing : ~Covers(loss, m.ch, m.tick)}
  /\ UNCHANGED line

Done == \A d \in DataChannels : Now(d) > MaxTick

Next == (\E d \in DataChannels : Arrive(d)) \/ ReportLoss

Spec == Init /\ [][Next]_vars

-----------------------------------------------------------------------------
Arrived(ch) == st.wm[Carrier(ch)]
Doubtful(ch, tick) == \E m \in missing : m.ch = ch /\ m.tick <= tick

(* Once every loss up to a tick has been told, a level the store gives is  *)
(* the level the line had, or unknown, whatever order records, heartbeats  *)
(* and losses came in and whatever was dropped (store.h, span_add).        *)
LevelsTrue ==
  \A ch \in Channels : \A tick \in 0..Arrived(ch) :
    Doubtful(ch, tick) \/ StoreLevel(st, ch, tick) \in {NoTick, UNKNOWN, LevelOf(ch, tick)}

(* A column without flags shows what the line did: its levels, and each of *)
(* its changes (store_columns).  A record at the oldest tick itself may be *)
(* gone, so the column starts after it.                                    *)
ColumnsTrue ==
  \A ch \in Channels : \A a, b \in Ticks :
    LET col == Column(st, ch, a, b + 1)
    IN  a <= b /\ (a > st.oldest \/ st.oldest = 0) /\ ~Doubtful(ch, b)
        /\ ~col.noData /\ ~col.loss /\ ~col.unknown
        => /\ col.changes = Changes(ch, a, b)
           /\ col.end = LevelOf(ch, b)
           /\ col.start \in {UNKNOWN} \union (IF a = 0 THEN {} ELSE {LevelOf(ch, a - 1)})

(* What the store shows of any tick or column is what the line did.        *)
ReadsTrue == LevelsTrue /\ ColumnsTrue

(* Once every loss up to a tick has been told, a level the store has given *)
(* for it does not change, except that another loss told late makes it     *)
(* unknown, or the limit drops it (store.h: everything up to the watermark *)
(* does not change).                                                       *)
GivenStays ==
  [][\A ch \in Channels : \A tick \in Ticks :
       LET was == StoreLevel(st, ch, tick)
           is == StoreLevel(st', ch, tick)
       IN  ~Doubtful(ch, tick) /\ was # NoTick =>
             \/ is = was
             \/ is = NoTick /\ tick < st'.oldest
             \/ is = UNKNOWN /\ told' # told]_vars

(* The store stays within its limit as long as a full block, or more than  *)
(* one kept heartbeat or loss span of a channel, is left to let go of      *)
(* (enforce, trim_side).                                                   *)
WithinLimit == Bytes(st) > Limit => Full(st) = {} /\ Trimmable(st) = {}
=============================================================================
