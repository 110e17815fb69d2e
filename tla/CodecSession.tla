---------------------------- MODULE CodecSession ----------------------------
(***************************************************************************)
(* Decoding a capture as it arrives (host/modes/decoding.c): the records   *)
(* and heartbeats of each data channel come in its own order, the channels *)
(* interleave as they please, a loss is told at some time of its own, and  *)
(* what can be released is written.  The capture is chosen at the start:   *)
(* level changes of the lines, one of which the device may have dropped.   *)
(***************************************************************************)
EXTENDS Codec

CONSTANTS
  Captures,   \* captures: [last, changes, drop, sent]
  Decoders,   \* the session's decoders
  C,          \* ticks between heartbeats
  MaxLead     \* heartbeats one data channel may be ahead of another

VARIABLES
  cap,        \* the capture: its streams, its loss, and what decoding it all at once gives
  pos,        \* events delivered, per data channel
  c,          \* the codec session
  told,       \* the loss: "no", told "early" or "late"
  released    \* items written, with what was told when they were

vars == <<cap, pos, c, told, released>>

LOCAL INSTANCE CodecItem
Lines == INSTANCE CaptureLines

-----------------------------------------------------------------------------
(* The reference: everything in order and at once, as the viewer gives it  *)
(* from its store (host/ui/session/session.c, feed(), levels_before()).    *)
Entries(k) ==
  {Mg!Record(x.tick, x.ch, x.level) : x \in k.changes} \union
  {Mg!Level(t, ch, Lines!LevelOf(k, ch, t)) : t \in Lines!Beats(k), ch \in Channels}

InTime(k) == Append(Ranked(Entries(k), Mg!Before), Mg!Advance(k.last))

FromStore(x, e) == CodecTake(x, "store", e)

AllAtOnce(k) ==
  IF k.sent # << >> THEN << >>
  ELSE CodecFinish(FoldLeft(FromStore, CodecNew(Decoders), InTime(k))).pending

Plain(item) == [f \in DOMAIN item \ {"id"} |-> item[f]]
Of(items, dec) ==
  LET own == SelectSeq(items, LAMBDA item : item.dec = dec)
  IN  [i \in DOMAIN own |-> Plain(own[i])]

-----------------------------------------------------------------------------
Init ==
  /\ \E k \in Captures :
       cap = [stream |-> [d \in DataChannels |-> Lines!Stream(k, d)], loss |-> Lines!Loss(k),
              sent |-> k.sent, reference |-> AllAtOnce(k)]
  /\ pos = [d \in DataChannels |-> 0]
  /\ c = CodecNew(Decoders)
  /\ told = "no" /\ released = << >>

Given(d) == [i \in 1..pos[d] |-> cap.stream[d][i]]
Left(d) == pos[d] < Len(cap.stream[d])

BeatsGiven(d) == Cardinality({i \in 1..pos[d] : cap.stream[d][i].t = "heartbeat"})

(* on_record(), on_heartbeat() *)
Deliver(d) ==
  /\ Left(d) /\ ~c.finished
  /\ \A e \in DataChannels : BeatsGiven(d) < BeatsGiven(e) + MaxLead
  /\ pos' = [pos EXCEPT ![d] = @ + 1]
  /\ c' = CodecTake(c, d, cap.stream[d][pos[d] + 1])
  /\ UNCHANGED <<cap, told, released>>

(* on_loss(): reported once the device has come that far, or later. *)
ReportLoss ==
  /\ told = "no" /\ cap.loss.lost # {} /\ ~c.finished
  /\ \E d \in DataChannels : \E e \in Range(Given(d)) :
       /\ Block[d] \intersect cap.loss.lost # {}
       /\ e.t = "heartbeat" /\ cap.loss.end <= e.tick + C
  /\ c' = CodecLoss(c, cap.loss)
  /\ told' = IF c.tick >= cap.loss.end THEN "late" ELSE "early"
  /\ UNCHANGED <<cap, pos, released>>

(* decoding_drain() *)
Drained(x) ==
  FoldLeft(LAMBDA a, i : IF CanRelease(a.c)
                         THEN [c |-> CodecNext(a.c),
                               out |-> Append(a.out, Head(a.c.pending) @@ [told |-> told])]
                         ELSE a,
           [c |-> x, out |-> << >>], [i \in 1..Len(x.pending) |-> i])

Writes(x) ==
  \E drained \in {Drained(x)} :
    c' = drained.c /\ released' = released \o drained.out

Drain ==
  /\ CanRelease(c)
  /\ Writes(c)
  /\ UNCHANGED <<cap, pos, told>>

(* decoding_finish(): the capture may end before everything has come. *)
Finish ==
  /\ ~c.finished
  /\ Writes(CodecFinish(c))
  /\ UNCHANGED <<cap, pos, told>>

Next == (\E d \in DataChannels : Deliver(d)) \/ ReportLoss \/ Drain \/ Finish

Spec == Init /\ [][Next]_vars

-----------------------------------------------------------------------------
(* Items are written in order of their start, whichever decoder emits      *)
(* them and however the data channels interleave (codec_horizon,           *)
(* codec_next).                                                            *)
ReleasedInOrder ==
  \A i, j \in DOMAIN released : i < j => released[i].start <= released[j].start

Whole == c.finished /\ cap.loss.lost = {} /\ \A d \in DataChannels : ~Left(d)

Untold(item) == [f \in DOMAIN item \ {"told"} |-> item[f]]

(* What decoder dec's items say: those of a UART say its bytes, however    *)
(* they are cut into bursts.                                               *)
Says(items, dec) ==
  IF Decoders[dec].kind # "uart" THEN Of(items, dec)
  ELSE FlattenSeq([k \in DOMAIN Of(items, dec) |-> Of(items, dec)[k].body.words])

(* What a decoder's items say does not depend on how the data channels     *)
(* interleaved, on when the time reached was told, or on when items were   *)
(* taken: a capture decoded as it arrives says what the viewer shows of it *)
(* (merge.c: the merge makes the input of every decoder the same).         *)
SameAsAtOnce ==
  Whole /\ cap.sent = << >> =>
    LET items == [k \in DOMAIN released |-> Untold(released[k])]
    IN  \A dec \in DOMAIN Decoders : Says(items, dec) = Says(cap.reference, dec)

ReadsLost(item) == LinesOf(c, c.decs[item.dec]) \intersect cap.loss.lost # {}

(* A loss told once its records were handed over, while an item that       *)
(* overlaps it is open or held, marks it (codec_loss).  The frames of a    *)
(* UART that wait for their end are not items yet, and are left out.       *)
LateLossMarked ==
  \A r \in Range(released) :
    r.told = "late" /\ ReadsLost(r) /\ Overlaps(r, cap.loss) /\ Decoders[r.dec].kind # "uart"
    => r.loss

-----------------------------------------------------------------------------
(* What a capture of an I2C master, or of a UART, shows is what was sent.  *)

Bytes(item, seg) ==
  [i \in 1..seg.count |-> [value |-> item.body.words[seg.first + i - 1].value,
                           nak |-> item.body.words[seg.first + i - 1].nak]]

Transaction(item) ==
  [i \in DOMAIN item.body.segs |-> Bytes(item, item.body.segs[i])]

(* The reads of chips: which register or command each was a read of. *)
ReadsOf(item, dec) ==
  LET reads == SelectSeq(item.readings, LAMBDA r : r.op = "read" /\ r.dec = dec)
  IN  [i \in DOMAIN reads |-> [of |-> reads[i].reg, data |-> reads[i].data]]

Sent(item) ==
  [i \in DOMAIN item.body.words |->
     [lane |-> item.body.lane, bits |-> item.body.words[i].bits,
      error |-> item.body.words[i].error]]

Shown(dec) ==
  LET own == SelectSeq(released, LAMBDA item : item.dec = dec)
  IN  CASE Decoders[dec].kind = "i2c" -> [i \in DOMAIN own |-> Transaction(own[i])]
        [] Decoders[dec].kind = "uart" -> FlattenSeq([i \in DOMAIN own |-> Sent(own[i])])
        [] Decoders[dec].kind = "chip" ->
             [i \in DOMAIN released |->
                IF released[i].dec = Decoders[dec].lower THEN ReadsOf(released[i], dec) ELSE << >>]

(* Every byte and acknowledgement of every transaction, every byte of a    *)
(* UART, and the register or command every chip read is for, are those     *)
(* that were sent (i2c.c, uart.c, chips/chip.c).                           *)
AsSent ==
  Whole => \A dec \in DOMAIN cap.sent :
             LET shown == Shown(dec)
             IN  IF Decoders[dec].kind = "chip" THEN FlattenSeq(shown) = cap.sent[dec]
                 ELSE shown = cap.sent[dec]

(* What decoders say is right, and the same in whatever way their input    *)
(* comes.                                                                  *)
SaysRight == SameAsAtOnce /\ AsSent
=============================================================================
