---------------------------- MODULE CaptureLines ----------------------------
(***************************************************************************)
(* A capture as the decoders' modules choose it: [last, changes, drop] are *)
(* its last tick, the changes of its lines and those the device lost.  All *)
(* lines are high before their first change.                               *)
(***************************************************************************)
EXTENDS CodecItem

CONSTANTS
  DataChannels, Block,
  C           \* ticks between heartbeats

LineChannels == UNION {Block[d] : d \in DataChannels}

Change(tick, ch, level) == [tick |-> tick, ch |-> ch, level |-> level]

LevelOf(k, ch, tick) ==
  LET before == {x \in k.changes : x.ch = ch /\ x.tick <= tick}
  IN  IF before = {} THEN 1 ELSE (CHOOSE x \in before : \A y \in before : y.tick <= x.tick).level

Levels(k, tick) == [ch \in LineChannels |-> LevelOf(k, ch, tick)]
Beats(k) == {C * n : n \in 0..(k.last \div C)}

Written(k, d) == {x \in k.changes \ k.drop : x.ch \in Block[d]}

Rec(x) == [t |-> "record", tick |-> x.tick, ch |-> x.ch, level |-> x.level]
Hb(k, tick) == [t |-> "heartbeat", tick |-> tick, levels |-> Levels(k, tick)]

Sooner(a, b) ==
  \/ a.tick < b.tick
  \/ a.tick = b.tick /\ a.t = "record" /\ (b.t = "heartbeat" \/ a.ch < b.ch)

(* What data channel d brings. *)
Stream(k, d) ==
  Ranked({Rec(x) : x \in Written(k, d)} \union {Hb(k, t) : t \in Beats(k)}, Sooner)

(* The ways a line can change in ticks k. *)
Toggles(k, ch) == {Change(t, ch, Cardinality({u \in k : u < t}) % 2) : t \in k}

(* Every way lines 0 and 1 can change in last ticks, with at most one      *)
(* change lost.                                                            *)
SmallCaptures(last) ==
  UNION { LET all == Toggles(a, 0) \union Toggles(b, 1)
          IN  {[last |-> last, changes |-> all, drop |-> drop, sent |-> << >>] :
                 drop \in {{}} \union {{x} : x \in all}}
          : a \in SUBSET (1..last), b \in SUBSET (1..last) }

(* The losses of a capture: one for every tick with changes lost, in order. *)
Losses(k) ==
  LET lost == Ranked({x.tick : x \in k.drop}, LAMBDA t, u : t < u)
  IN  [i \in DOMAIN lost |-> [start |-> lost[i], end |-> lost[i],
                              lost |-> {x.ch : x \in {x \in k.drop : x.tick = lost[i]}}]]

(* The one loss of a small capture. *)
Loss(k) == IF k.drop = {} THEN [start |-> 0, end |-> 0, lost |-> {}] ELSE Losses(k)[1]
=============================================================================
