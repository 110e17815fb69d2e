-------------------------- MODULE ActivityDecoder --------------------------
(***************************************************************************)
(* Packets of activity on any line, split by idle gaps                     *)
(* (host/codec/activity/activity.c).                                       *)
(***************************************************************************)
EXTENDS CodecItem

CONSTANTS
  ActivityGap,   \* ticks without a change that end a packet
  ActivityMax    \* the longest packet, 0 for no limit

ActivityFresh(dec, lines) == Decoder(dec, "activity", lines, 0, [open |-> NoItem, last |-> 0])

ActivityClose(s) == [Emit(s, s.open) EXCEPT !.open = NoItem]

ActivityRecord(s, tick, ch) ==
  LET over == Open(s.open) /\ (\/ tick - s.last > ActivityGap
                               \/ ActivityMax > 0 /\ tick - s.open.start > ActivityMax)
      s1 == IF over THEN ActivityClose(s) ELSE s
      item == IF Open(s1.open) THEN s1.open
              ELSE Item(s.dec, tick, [records |-> 0, changed |-> {}])
  IN  [s1 EXCEPT !.last = tick,
                 !.open = [item EXCEPT !.end = tick, !.body.records = @ + 1,
                                       !.body.changed = @ \union {ch}]]

ActivityAdvance(s, tick) ==
  LET s1 == IF Open(s.open) /\ tick - s.last > ActivityGap THEN ActivityClose(s) ELSE s
  IN  IF Open(s1.open) THEN Horizon(s1, s1.open.start) ELSE s1

ActivityLoss(s, end) == [s EXCEPT !.open = MarkOpen(@, end)]

ActivityFinish(s) == IF Open(s.open) THEN ActivityClose(s) ELSE s
=============================================================================
