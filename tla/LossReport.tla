----------------------------- MODULE LossReport -----------------------------
(***************************************************************************)
(* Loss reports: what the device drops and how the host is told.           *)
(*                                                                         *)
(* On the device two sequences of steps take turns, one step per tick      *)
(* (device/src/capture_loop.S, capture.c).  Cleanup scans the samples: it  *)
(* writes a record or a heartbeat, or drops what has no room, and counts.  *)
(* Housekeeping moves a finished loss into the report that the SPI slave   *)
(* clocks out, which it may touch only while it holds the slave's          *)
(* semaphore.  The two share next_*, under two flags.                      *)
(*                                                                         *)
(* On the host the backend reads the report (capture/spi.c) and the        *)
(* tracker turns it into ranges to mark (capture/loss.c).  A report that   *)
(* was clocked out counts as sent, though the host's check of it failed.   *)
(***************************************************************************)
EXTENDS Integers, Sequences, FiniteSets

CONSTANTS
    Count,          \* enabled channels
    C,              \* ticks from a grid point to the next
    Word,           \* 2^32: ticks on the device and grid counts in reports are modulo this
    SliceWord,      \* 2^SLICES: the bit-sliced counters are modulo this
    FlushAt,        \* SLICE_FLUSH_AT
    PerStep,        \* counters copied per step
    Failures,       \* how much a transaction that goes wrong may clock out
    MaxTicks,       \* bound: ticks of the capture
    MaxLag          \* grid points by which the heartbeats the host has seen may be behind

ASSUME LossAssumption ==
    /\ Count \in Nat \ {0}
    /\ C \in Nat \ {0}
    /\ Word \in Nat \ {0}
    /\ SliceWord \in Nat \ {0}
    /\ FlushAt \in 1 .. SliceWord - 1
    /\ PerStep \in Nat \ {0}
    /\ Failures \in SUBSET {"part", "all"}
    /\ MaxTicks \in Nat
    /\ MaxLag \in Nat

Channels == 0 .. Count - 1

VARIABLES
    \* cleanup
    step,
    pos,            \* the tick of the sample scanned, not modulo Word
    changed,        \* the sample's changed channels not written yet
    pending,        \* heartbeat_pending
    lossOpen,
    lossStart,
    lossEnd,
    slices,         \* per channel, drops not flushed
    sliceAdds,
    lost,           \* per channel, drops flushed
    flushSnap,
    afterFlush,
    snapI,          \* flush_i in ST_SNAP
    \* between cleanup and housekeeping
    nextValid,
    snapBusy,
    copyBusy,
    nextStart,
    nextEnd,
    nextLost,
    \* housekeeping
    hk,
    acquireRequested,
    reportSeq,
    loaded,         \* loaded_len is not 0
    reportStart,
    copyI,
    buf,            \* report_buf
    \* the SPI slave
    owner,          \* of the semaphore: "cpu" or "spis"
    acquired,       \* EVENTS_ACQUIRED
    asked,          \* an ACQUIRE task waits for the transaction under way
    clocked,        \* how much of the report the last transaction took
    \* the host's tracker
    last,
    havePrev,
    nextSeq,
    prevEnd,
    marks,          \* ranges marked so far
    \* history
    drops,          \* per channel, the ticks of its drops
    repeated        \* a report came that had come before

cleanup == <<step, pos, changed, pending, lossOpen, lossStart, lossEnd, slices, sliceAdds, lost,
             flushSnap, afterFlush, snapI>>
handed  == <<nextValid, snapBusy, copyBusy, nextStart, nextEnd, nextLost>>
keeping == <<hk, acquireRequested, reportSeq, loaded, reportStart, copyI, buf>>
spis    == <<owner, acquired, asked, clocked>>
tracker == <<last, havePrev, nextSeq, prevEnd, marks, repeated>>
vars    == <<cleanup, handed, keeping, spis, tracker, drops>>

-----------------------------------------------------------------------------
(* Cleanup: the samples. *)

AtGrid == pos % C = 0

Running == step # "stop"

\* The sample is done: its heartbeat at a grid point, or the next sample in the given mode.
SampleDone ==
    /\ pos' = IF AtGrid THEN pos ELSE pos + 1
    /\ changed' = {}

AfterSample(mode) == IF AtGrid THEN "heartbeat" ELSE mode

\* Writing an entry ends an open loss, which is then flushed and handed over.
EndLoss(next) ==
    /\ lossOpen' = FALSE
    /\ IF lossOpen
       THEN step' = "flush" /\ flushSnap' = TRUE /\ afterFlush' = next
       ELSE step' = next /\ UNCHANGED <<flushSnap, afterFlush>>

\* ST_SCAN: a sample without a change.
ScanQuiet ==
    /\ step = "scan"
    /\ pos < MaxTicks
    /\ SampleDone
    /\ step' = AfterSample("scan")
    /\ UNCHANGED <<pending, lossOpen, lossStart, lossEnd, slices, sliceAdds, lost, flushSnap,
                   afterFlush, snapI, handed, keeping, spis, tracker, drops>>

\* A sample with changes.
ScanChange ==
    /\ step = "scan"
    /\ pos < MaxTicks
    /\ changed' \in SUBSET Channels \ {{}}
    /\ step' = "record"
    /\ UNCHANGED <<pos, pending, lossOpen, lossStart, lossEnd, slices, sliceAdds, lost, flushSnap,
                   afterFlush, snapI, handed, keeping, spis, tracker, drops>>

\* ST_RECORD, ST_ENCODE: there is room for the lowest channel's record.
Encode ==
    /\ step = "record"
    /\ \E ch \in changed :
          /\ \A other \in changed : ch <= other
          /\ IF changed = {ch}
             THEN SampleDone /\ EndLoss(AfterSample("scan"))
             ELSE changed' = changed \ {ch} /\ EndLoss("record") /\ UNCHANGED pos
    /\ UNCHANGED <<pending, lossStart, lossEnd, slices, sliceAdds, lost, snapI, handed, keeping,
                   spis, tracker, drops>>

FlushNever(adds) == FALSE

\* The counters are flushed before one can overflow.
FlushDue(adds) == adds >= FlushAt

\* The changed channels S of the sample are dropped together.
Drop(S) ==
    /\ drops' = [ch \in Channels |-> IF ch \in S THEN Append(drops[ch], pos) ELSE drops[ch]]
    /\ slices' = [ch \in Channels |-> IF ch \in S THEN (slices[ch] + 1) % SliceWord
                                      ELSE slices[ch]]
    /\ lossStart' = IF lossOpen THEN lossStart ELSE pos % Word
    /\ lossEnd' = pos % Word
    /\ lossOpen' = TRUE
    /\ sliceAdds' = sliceAdds + 1
    /\ SampleDone
    /\ IF FlushDue(sliceAdds + 1)
       THEN step' = "flush" /\ flushSnap' = FALSE /\ afterFlush' = AfterSample("scanDrop")
       ELSE step' = AfterSample("scanDrop") /\ UNCHANGED <<flushSnap, afterFlush>>
    /\ UNCHANGED <<pending, lost, snapI, handed, keeping, spis, tracker>>

\* ST_RECORD: cleanup lags or the output ring is full.
RecordDrop == step = "record" /\ Drop(changed)

\* ST_SCAN_DROP: still so, with a change, without ...
ScanDropChange ==
    /\ step = "scanDrop"
    /\ pos < MaxTicks
    /\ \E S \in SUBSET Channels \ {{}} : Drop(S)

ScanDropQuiet ==
    /\ step = "scanDrop"
    /\ pos < MaxTicks
    /\ SampleDone
    /\ step' = AfterSample("scanDrop")
    /\ UNCHANGED <<pending, lossOpen, lossStart, lossEnd, slices, sliceAdds, lost, flushSnap,
                   afterFlush, snapI, handed, keeping, spis, tracker, drops>>

\* ... or no longer: the pending heartbeat is written, or records again.
ScanDropEnds ==
    /\ step = "scanDrop"
    /\ IF pending
       THEN EndLoss("scan")
       ELSE step' = "scan" /\ UNCHANGED <<lossOpen, flushSnap, afterFlush>>
    /\ pending' = FALSE
    /\ UNCHANGED <<pos, changed, lossStart, lossEnd, slices, sliceAdds, lost, snapI, handed,
                   keeping, spis, tracker, drops>>

-----------------------------------------------------------------------------
(* Cleanup: heartbeats, counters, the hand-over. *)

\* ST_HEARTBEAT to ST_HEARTBEAT_TRY: written now, or pending. One still pending is fatal.
Heartbeat ==
    /\ step = "heartbeat"
    /\ \/ /\ pending
          /\ step' = "stop"
          /\ UNCHANGED <<pos, pending, lossOpen, flushSnap, afterFlush>>
       \/ /\ ~pending
          /\ pos' = pos + 1
          /\ EndLoss("scan")
          /\ UNCHANGED pending
       \/ /\ ~pending
          /\ pos' = pos + 1
          /\ pending' = TRUE
          /\ step' = "scanDrop"
          /\ UNCHANGED <<lossOpen, flushSnap, afterFlush>>
    /\ UNCHANGED <<changed, lossStart, lossEnd, slices, sliceAdds, lost, snapI, handed, keeping,
                   spis, tracker, drops>>

\* ST_FLUSH_START to ST_FLUSH_END.
Flush ==
    /\ step = "flush"
    /\ lost' = [ch \in Channels |-> lost[ch] + slices[ch]]
    /\ slices' = [ch \in Channels |-> 0]
    /\ sliceAdds' = 0
    /\ snapI' = 0
    /\ step' = IF flushSnap THEN "snap" ELSE afterFlush
    /\ UNCHANGED <<pos, changed, pending, lossOpen, lossStart, lossEnd, flushSnap, afterFlush,
                   handed, keeping, spis, tracker, drops>>

\* Housekeeping is not copying what was handed over before.
MaySnap == ~copyBusy

StepEnd(i) == IF i + PerStep < Count THEN i + PerStep ELSE Count

\* A loss handed over and not taken yet keeps its start.
SnapStart == nextStart' = IF nextValid THEN nextStart ELSE lossStart

\* ST_SNAP, a few counters per step; the range with the last ones.
Snap ==
    /\ step = "snap"
    /\ MaySnap
    /\ nextLost' = [ch \in Channels |-> IF ch \in snapI .. StepEnd(snapI) - 1 THEN lost[ch]
                                        ELSE nextLost[ch]]
    /\ snapI' = StepEnd(snapI)
    /\ IF StepEnd(snapI) < Count
       THEN snapBusy' = TRUE /\ UNCHANGED <<step, nextStart, nextEnd, nextValid>>
       ELSE /\ SnapStart
            /\ nextEnd' = lossEnd
            /\ nextValid' = TRUE
            /\ snapBusy' = FALSE
            /\ step' = afterFlush
    /\ UNCHANGED <<pos, changed, pending, lossOpen, lossStart, lossEnd, slices, sliceAdds, lost,
                   flushSnap, afterFlush, copyBusy, keeping, spis, tracker, drops>>

-----------------------------------------------------------------------------
(* Housekeeping. *)

\* hk_spis_poll(): the semaphore is asked for when there is something to report.
Ask ==
    /\ Running
    /\ hk = "poll"
    /\ nextValid
    /\ ~acquireRequested
    /\ acquireRequested' = TRUE
    /\ \/ owner = "spis" /\ asked' = TRUE /\ UNCHANGED acquired
       \/ owner = "cpu" /\ acquired' \in {acquired, TRUE} /\ UNCHANGED asked
    /\ UNCHANGED <<cleanup, handed, hk, reportSeq, loaded, reportStart, copyI, buf, owner, clocked,
                   tracker, drops>>

\* hk_spis_poll(), hk_spis_acquired(): it was granted, or a transaction has ended.
Acquired ==
    /\ Running
    /\ hk = "poll"
    /\ ~(nextValid /\ ~acquireRequested)
    /\ acquired
    /\ acquired' = FALSE
    /\ hk' = "semaphore"
    /\ UNCHANGED <<cleanup, handed, acquireRequested, reportSeq, loaded, reportStart, copyI, buf,
                   owner, asked, clocked, tracker, drops>>

AskedForGood == acquireRequested

StillAsked == acquireRequested /\ owner # "cpu"

\* The event proves nothing: the semaphore's owner does.
Semaphore ==
    /\ Running
    /\ hk = "semaphore"
    /\ hk' = IF owner # "cpu" THEN "poll"
             ELSE IF loaded /\ clocked # "none" THEN "amount" ELSE "decide"
    /\ acquireRequested' = StillAsked
    /\ UNCHANGED <<cleanup, handed, reportSeq, loaded, reportStart, copyI, buf, spis, tracker,
                   drops>>

SentNever == FALSE

\* The report counts as sent only if all of it was clocked out.
Sent == clocked = "all"

Amount ==
    /\ Running
    /\ hk = "amount"
    /\ reportSeq' = IF Sent THEN reportSeq + 1 ELSE reportSeq
    /\ loaded' = ~Sent
    /\ hk' = "decide"
    /\ UNCHANGED <<cleanup, handed, acquireRequested, reportStart, copyI, buf, spis, tracker,
                   drops>>

\* There is a loss to report, and cleanup is not handing over another.
MayCopy == nextValid /\ ~snapBusy

StartOfLatest == nextStart

\* A report not sent yet keeps its start.
MergedStart == IF loaded THEN reportStart ELSE nextStart

Decide ==
    /\ Running
    /\ hk = "decide"
    /\ IF MayCopy
       THEN /\ copyBusy' = TRUE
            /\ nextValid' = FALSE
            /\ reportStart' = MergedStart
            /\ buf' = [buf EXCEPT !.seq = reportSeq, !.start = MergedStart]
            /\ copyI' = 0
            /\ hk' = "copy"
       ELSE hk' = "release" /\ UNCHANGED <<copyBusy, nextValid, reportStart, buf, copyI>>
    /\ UNCHANGED <<cleanup, snapBusy, nextStart, nextEnd, nextLost, acquireRequested, reportSeq,
                   loaded, spis, tracker, drops>>

\* hk_spis_copy(), the end and a few counters per step; then hk_spis_crc().
Copy ==
    /\ Running
    /\ hk = "copy"
    /\ buf' = [buf EXCEPT
                 !.end = IF copyI = 0 THEN nextEnd ELSE @,
                 !.lost = [ch \in Channels |-> IF ch \in copyI .. StepEnd(copyI) - 1
                                               THEN nextLost[ch] ELSE @[ch]]]
    /\ copyI' = StepEnd(copyI)
    /\ IF StepEnd(copyI) < Count
       THEN UNCHANGED <<hk, copyBusy, loaded>>
       ELSE hk' = "release" /\ copyBusy' = FALSE /\ loaded' = TRUE
    /\ UNCHANGED <<cleanup, nextValid, snapBusy, nextStart, nextEnd, nextLost, acquireRequested,
                   reportSeq, reportStart, spis, tracker, drops>>

\* hk_spis_load(), hk_spis_release(): the slave has the report, or nothing, to send.
Release ==
    /\ Running
    /\ hk = "release"
    /\ clocked' = "none"
    /\ owner' = "spis"
    /\ hk' = "poll"
    /\ UNCHANGED <<cleanup, handed, acquireRequested, reportSeq, loaded, reportStart, copyI, buf,
                   acquired, asked, tracker, drops>>

-----------------------------------------------------------------------------
(* The SPI slave. *)

\* A task that waited is granted.
Grant ==
    /\ owner = "spis"
    /\ asked
    /\ asked' = FALSE
    /\ owner' = "cpu"
    /\ acquired' = TRUE
    /\ UNCHANGED <<cleanup, handed, keeping, clocked, tracker, drops>>

\* A transaction's end hands the semaphore to the CPU (the END_ACQUIRE short).
TransactionEnds(amount) ==
    /\ owner = "spis"
    /\ owner' = "cpu"
    /\ acquired' = TRUE
    /\ asked' = FALSE
    /\ clocked' = amount

-----------------------------------------------------------------------------
(* The host. *)

Signed(d) == ((d + Word \div 2) % Word) - Word \div 2

\* wire_tick(): a position's grid count is unwrapped against the latest heartbeat's.
Tick(ref, t) ==
    LET g == ref + Signed(t \div C - ref)
    IN  (IF g < 0 THEN 0 ELSE g) * C + (t % C)

\* The unsigned difference to the last report's counter is not 0.
Rose(ch, rep) == rep.lost[ch] # last[ch]

\* After a skipped report the range starts where the last one received ended.
First(rep, ref) ==
    IF rep.seq = nextSeq THEN Tick(ref, rep.start)
    ELSE IF havePrev THEN prevEnd ELSE 0

\* loss_tracker_take().
Take(rep, ref) ==
    /\ marks' = marks \cup {[ch |-> ch, start |-> First(rep, ref), end |-> Tick(ref, rep.end)] :
                              ch \in {ch \in Channels : Rose(ch, rep)}}
    /\ last' = rep.lost
    /\ havePrev' = TRUE
    /\ nextSeq' = rep.seq + 1
    /\ prevEnd' = Tick(ref, rep.end)
    /\ repeated' = (repeated \/ rep.seq < nextSeq)

\* The host reads the report, having seen heartbeats up to some grid point.
ReadReport ==
    /\ loaded
    /\ TransactionEnds("all")
    /\ \E ref \in 0 .. pos \div C : pos \div C - ref <= MaxLag /\ Take(buf, ref)
    /\ UNCHANGED <<cleanup, handed, keeping, drops>>

\* Bits go wrong: in the message or its check, which fails; or in the length, so that the host
\* takes less, or nothing.
ReadFails ==
    /\ loaded
    /\ \E amount \in Failures : TransactionEnds(amount)
    /\ UNCHANGED <<cleanup, handed, keeping, tracker, drops>>

\* The slave has nothing: the host's own message, or the end of IRQ seen late.
ReadNothing ==
    /\ ~loaded
    /\ TransactionEnds("part")
    /\ UNCHANGED <<cleanup, handed, keeping, tracker, drops>>

\* The CPU holds the semaphore: the host reads "not ready" and tries again. The refused
\* transaction fires the short as well.
ReadRefused ==
    /\ owner = "cpu"
    /\ ~acquired
    /\ acquired' = TRUE
    /\ UNCHANGED <<cleanup, handed, keeping, owner, asked, clocked, tracker, drops>>

-----------------------------------------------------------------------------
Init ==
    /\ step = "heartbeat"
    /\ pos = 0
    /\ changed = {}
    /\ pending = FALSE
    /\ lossOpen = FALSE
    /\ lossStart = 0
    /\ lossEnd = 0
    /\ slices = [ch \in Channels |-> 0]
    /\ sliceAdds = 0
    /\ lost = [ch \in Channels |-> 0]
    /\ flushSnap = FALSE
    /\ afterFlush = "scan"
    /\ snapI = 0
    /\ nextValid = FALSE
    /\ snapBusy = FALSE
    /\ copyBusy = FALSE
    /\ nextStart = 0
    /\ nextEnd = 0
    /\ nextLost = [ch \in Channels |-> 0]
    /\ hk = "poll"
    /\ acquireRequested = FALSE
    /\ reportSeq = 0
    /\ loaded = FALSE
    /\ reportStart = 0
    /\ copyI = 0
    /\ buf = [seq |-> 0, start |-> 0, end |-> 0, lost |-> [ch \in Channels |-> 0]]
    /\ owner = "spis"
    /\ acquired = FALSE
    /\ asked = FALSE
    /\ clocked = "none"
    /\ last = [ch \in Channels |-> 0]
    /\ havePrev = FALSE
    /\ nextSeq = 0
    /\ prevEnd = 0
    /\ marks = {}
    /\ repeated = FALSE
    /\ drops = [ch \in Channels |-> <<>>]

CleanupNext ==
    \/ ScanQuiet
    \/ ScanChange
    \/ Encode
    \/ RecordDrop
    \/ ScanDropChange
    \/ ScanDropQuiet
    \/ ScanDropEnds
    \/ Heartbeat
    \/ Flush
    \/ Snap

KeepingNext == Ask \/ Acquired \/ Semaphore \/ Amount \/ Decide \/ Copy \/ Release

HostNext == ReadReport \/ ReadFails \/ ReadNothing \/ ReadRefused

Next == CleanupNext \/ KeepingNext \/ Grant \/ HostNext

Spec == Init /\ [][Next]_vars

-----------------------------------------------------------------------------
(* Properties. *)

Steps == {"scan", "record", "scanDrop", "heartbeat", "flush", "snap", "stop"}
Keepings == {"poll", "semaphore", "amount", "decide", "copy", "release"}
Counters == [Channels -> Nat]

CleanupType ==
    /\ step \in Steps
    /\ pos \in Nat
    /\ changed \in SUBSET Channels
    /\ pending \in BOOLEAN
    /\ lossOpen \in BOOLEAN
    /\ lossStart \in 0 .. Word - 1
    /\ lossEnd \in 0 .. Word - 1
    /\ slices \in [Channels -> 0 .. SliceWord - 1]
    /\ sliceAdds \in Nat
    /\ lost \in Counters
    /\ flushSnap \in BOOLEAN
    /\ afterFlush \in {"scan", "record", "scanDrop", "heartbeat"}
    /\ snapI \in 0 .. Count

HandedType ==
    /\ nextValid \in BOOLEAN
    /\ snapBusy \in BOOLEAN
    /\ copyBusy \in BOOLEAN
    /\ nextStart \in 0 .. Word - 1
    /\ nextEnd \in 0 .. Word - 1
    /\ nextLost \in Counters

KeepingType ==
    /\ hk \in Keepings
    /\ acquireRequested \in BOOLEAN
    /\ reportSeq \in Nat
    /\ loaded \in BOOLEAN
    /\ reportStart \in 0 .. Word - 1
    /\ copyI \in 0 .. Count
    /\ buf \in [seq : Nat, start : 0 .. Word - 1, end : 0 .. Word - 1, lost : Counters]
    /\ owner \in {"cpu", "spis"}
    /\ acquired \in BOOLEAN
    /\ asked \in BOOLEAN
    /\ clocked \in {"none", "part", "all"}

TrackerType ==
    /\ last \in Counters
    /\ havePrev \in BOOLEAN
    /\ nextSeq \in Nat
    /\ prevEnd \in Nat
    /\ marks \in SUBSET [ch : Channels, start : Nat, end : Nat]
    /\ repeated \in BOOLEAN
    /\ drops \in [Channels -> Seq(Nat)]

\* Every variable has its type.
TypeOK == CleanupType /\ HandedType /\ KeepingType /\ TrackerType

\* No drop is miscounted: the slices never run over before they are flushed.
CountersExact == \A ch \in Channels : lost[ch] + slices[ch] = Len(drops[ch])

\* What the host has counted is exactly what was dropped up to the end of the last report it
\* received, though reports were merged, lost, or handed over while another was being copied.
ReportExact ==
    havePrev => \A ch \in Channels : \A i \in 1 .. Len(drops[ch]) :
                   i <= last[ch] <=> drops[ch][i] <= prevEnd

\* "It may mark more than was lost, never less": every drop the host has counted is in a range
\* it marked for that channel.
CountedIsMarked ==
    \A ch \in Channels : \A i \in 1 .. last[ch] :
        \E m \in marks : m.ch = ch /\ drops[ch][i] \in m.start .. m.end

\* "Other channels are not marked": in a range marked for a channel something was dropped on it.
MarkedIsLost ==
    \A m \in marks : \E i \in 1 .. Len(drops[m.ch]) : drops[m.ch][i] \in m.start .. m.end

\* The host's counts and marks are the device's drops: exact up to the last report's end, every
\* counted drop inside a mark of its channel and no mark without a drop, however steps of cleanup,
\* housekeeping and failing transactions interleave.
MarksExact == ReportExact /\ CountedIsMarked /\ MarkedIsLost

\* A report counted as sent is not sent again.
NoReportTwice == ~repeated
=============================================================================
