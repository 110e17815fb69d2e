---------------------------- MODULE WireChannel ----------------------------
(***************************************************************************)
(* One data channel end to end: the device writes records and heartbeats   *)
(* (device/src/capture.c), the way to the host loses runs of bytes, with   *)
(* an overflow event in their place or unnoticed, and the parser of Wire   *)
(* hands over what it reads.  A change the device has no room for is       *)
(* dropped and reported later on the control channel.                      *)
(***************************************************************************)
EXTENDS Wire

CONSTANTS
  Starts,       \* the streams' starts: a grid count, and whether it is a join or a seek
  MaxBeats,     \* heartbeats written
  MaxChanges,   \* level changes
  MaxLosses,    \* runs of bytes lost on the way
  MaxDrops,     \* changes the device drops
  CheckValues   \* values a check byte may have

VARIABLES
  dev,       \* the device: its writer, the lines' levels, the last change, what it did
  net,       \* whether bytes are being lost, whether the host is told, losses so far
  reports,   \* loss reports not delivered yet
  w,         \* the host's parser
  seen       \* history: whole heartbeats since the latest loss, whether one was read
             \* where there was none, the latest, and the longest gap between two

vars == <<dev, net, reports, w, seen>>

TypeOK ==
  /\ dev.level \in [Line -> {0, 1}]
  /\ dev.wr.grid \in Nat /\ dev.wr.last \in [Line -> Nat]
  /\ net.losing \in BOOLEAN /\ net.told \in BOOLEAN
  /\ w.level \in [Line -> {-1, 0, 1}] /\ w.last \in [Line -> Nat]
  /\ Len(w.buf) < HbLen
  /\ w.grid \in Nat /\ w.counted \in Nat /\ w.excused \in Nat

Init ==
  \E start \in Starts :
    /\ dev = [wr |-> [WriterFresh EXCEPT !.new = ~start.joins], next |-> start.grid,
              beats |-> 0, changes |-> 0, drops |-> 0, at |-> <<0, 0>>,
              level |-> [k \in Line |-> 0]]
    /\ w = IF start.joins THEN StartAt(Fresh, start.grid) ELSE Fresh
    /\ net = [losing |-> FALSE, told |-> TRUE, losses |-> 0, silent |-> FALSE]
    /\ reports = {}
    /\ seen = [whole |-> 0, astray |-> FALSE, latest |-> start.grid, gap |-> 0]

-----------------------------------------------------------------------------
(* The way to the host.  Of the bytes written, those after the first lo    *)
(* and up to hi are lost; a loss goes on from one write to the next.       *)

Taken(parser) == [parser EXCEPT !.out = << >>]

Resume(parser, rest, told) ==
  IF told THEN Feed(Break(parser), rest)
  ELSE Feed(parser, [rest EXCEPT ![1].cut = TRUE])

Received(bytes, lo, hi, told) ==
  LET head == Feed(Taken(w), SubSeq(bytes, 1, lo))
      rest == SubSeq(bytes, hi + 1, Len(bytes))
  IN  IF lo = hi /\ ~net.losing THEN Feed(head, rest)
      ELSE IF rest = << >> THEN head
      ELSE Resume(head, rest, told)

WrongAnchor(o) == o.t = "hb" /\ o.unverified /\ o.is # [t |-> "hb", grid |-> o.grid]

Seen(bytes, lost, out) ==
  LET whole == Len(bytes) = HbLen /\ ~lost
      before == IF lost THEN [seen EXCEPT !.whole = 0, !.astray = FALSE] ELSE seen
      grid == bytes[1].is.grid
  IN  [whole |-> before.whole + (IF whole THEN 1 ELSE 0),
       astray |-> before.astray \/ \E o \in Range(out) : WrongAnchor(o),
       latest |-> IF whole THEN grid ELSE seen.latest,
       gap |-> IF whole THEN Bigger(seen.gap, grid - seen.latest) ELSE seen.gap]

(* A stream that joins starts with a whole heartbeat. *)
Send(bytes) ==
  \E lo \in 0..Len(bytes), hi \in 0..Len(bytes), told \in BOOLEAN :
    LET lost == lo < hi \/ net.losing
    IN /\ lo <= hi
       /\ net.losing => lo = 0 /\ told = net.told
       /\ lo < hi /\ ~net.losing =>
            /\ net.losses < MaxLosses
            /\ w.startUnverified => w.haveGrid
       /\ lo = hi => (net.losing \/ (lo = 0 /\ told))
       /\ w' = Received(bytes, lo, hi, told)
       /\ net' = [losing |-> lost /\ hi = Len(bytes), told |-> told,
                  losses |-> IF lo < hi /\ ~net.losing THEN net.losses + 1 ELSE net.losses,
                  silent |-> net.silent \/ (lo < hi /\ ~told)]
       /\ seen' = Seen(bytes, lost, w'.out)

-----------------------------------------------------------------------------
(* The device. *)

Begun == dev.beats > 0
Later(tick, k) == tick > dev.at[1] \/ (tick = dev.at[1] /\ k > dev.at[2])

Due(k, tick) ==
  /\ Begun /\ dev.changes < MaxChanges
  /\ tick \in (dev.wr.hbTick + 1)..(dev.wr.hbTick + C)
  /\ Later(tick, k) /\ CanWrite(dev.wr, k, tick)

Changed(k, tick) ==
  [dev EXCEPT !.level[k] = 1 - @, !.at = <<tick, k>>, !.changes = @ + 1]

WriteChange(k, tick) ==
  /\ Due(k, tick)
  /\ dev' = [Changed(k, tick) EXCEPT !.wr = WriteRecord(@, k, tick)]
  /\ Send(RecordBytes(dev.wr, k, tick, 1 - dev.level[k]))
  /\ UNCHANGED reports

DropChange(k, tick) ==
  /\ Due(k, tick) /\ dev.drops < MaxDrops
  /\ dev' = [Changed(k, tick) EXCEPT !.drops = @ + 1]
  /\ reports' = reports \union {[start |-> tick, end |-> tick]}
  /\ UNCHANGED <<net, seen>> /\ w' = Taken(w)

Beat(check) ==
  /\ dev.beats < MaxBeats
  /\ dev' = [dev EXCEPT !.wr = WriteHeartbeat(@, dev.next), !.next = @ + 1,
                        !.beats = @ + 1, !.at = <<dev.next * C, Lines>>]
  /\ Send(HeartbeatBytes(dev.wr, dev.next, dev.level, check))
  /\ UNCHANGED reports

(* A loss report comes over the control channel, before or after the       *)
(* heartbeat whose levels it explains.                                     *)
ReportLoss(span) ==
  /\ reports' = reports \ {span}
  /\ w' = AddLossSpan(Taken(w), span)
  /\ UNCHANGED <<dev, net, seen>>

Next ==
  \/ \E k \in Line, tick \in (dev.wr.hbTick + 1)..(dev.wr.hbTick + C) :
       WriteChange(k, tick) \/ DropChange(k, tick)
  \/ \E check \in CheckValues : Beat(check)
  \/ \E span \in reports : ReportLoss(span)

Spec == Init /\ [][Next]_vars

-----------------------------------------------------------------------------
(* What is handed over is what the device wrote: a record its line, level  *)
(* and tick, a verified heartbeat its grid count, however many bytes a     *)
(* told loss took.  Only bytes lost unnoticed may spoil records, and those *)
(* only until the check byte after them (wire_feed, wire_break).           *)
HandedOverExact ==
  \A o \in Range(w.out) :
    IF o.t = "rec"
    THEN ~o.cut => o.is = [t |-> "rec", tick |-> o.tick, line |-> o.line, level |-> o.level]
    ELSE ~o.unverified => o.is = [t |-> "hb", grid |-> o.grid]

(* Heartbeats that disagree with the records come from the device's own    *)
(* drops alone, and every one is excused when the reports are in, whichever *)
(* came first, as long as no bytes are lost unnoticed (wire_add_loss_span, *)
(* mismatch).                                                              *)
MismatchesExcused ==
  reports = {} /\ ~net.silent => w.counted = 0 /\ w.mismatches = << >>

(* A stop leaves a loss untold that is still open at the reset: as long as *)
(* every drop up to the latest good heartbeat was told, what is not        *)
(* excused is in the tail, which does not fail a capture                   *)
(* (capture_tail_mismatches, host/modes/capture.c:248).                    *)
TailIsOpen ==
  (\A r \in reports : r.end > w.lastGood) /\ ~net.silent
  => w.counted = TailMismatches(w)

(* The parser hands over what was written, and finds fault only where the  *)
(* device dropped changes.                                                 *)
ReadRight == HandedOverExact /\ MismatchesExcused /\ TailIsOpen

(* The second whole heartbeat after a told loss makes records trusted      *)
(* again, the fourth after an unnoticed one, when fewer heartbeats than    *)
(* RESYNC_STEP_MAX were lost and no bytes read as a heartbeat that is none *)
(* (sync_at).                                                              *)
Resynced ==
  /\ w.haveGrid /\ seen.gap < ResyncMax /\ ~seen.astray
  /\ seen.whole >= (IF net.silent THEN 4 ELSE 2)
  => w.trusted

(* The merge may rely on the order: nothing handed over is at or before    *)
(* the watermark given earlier, and grid counts only grow (wire_watermark, *)
(* sync_at).                                                               *)
WatermarkHolds ==
  [][\A o \in Range(w'.out) :
       ~net'.silent => IF o.t = "rec" THEN o.tick > Watermark(w) ELSE
                       o.tick >= Watermark(w) /\ (w.haveGrid => o.grid > w.grid)]_vars
=============================================================================
