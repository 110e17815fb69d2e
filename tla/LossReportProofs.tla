-------------------------- MODULE LossReportProofs --------------------------
(***************************************************************************)
(* Proofs about LossReport, for any channels, word sizes and bounds:       *)
(*  - no drop is miscounted, though the counters are bit-sliced and a      *)
(*    slice holds only a few of them;                                      *)
(*  - no report is sent again once it counts as sent, whatever order the   *)
(*    semaphore's events, the transactions and their failures come in;     *)
(*  - what the host counts and marks is what was dropped, however the      *)
(*    hand-over, the copying and failed transactions interleave, as long   *)
(*    as ticks fit in the device's word.                                   *)
(***************************************************************************)
EXTENDS LossReport, TLAPS

(* The counters. *)

CountType ==
    /\ pos \in Nat
    /\ slices \in [Channels -> Nat]
    /\ lost \in [Channels -> Nat]
    /\ sliceAdds \in Nat
    /\ drops \in [Channels -> Seq(Nat)]

\* A slice holds no more than the samples added since the flush, and those are FlushAt at most,
\* fewer unless the flush is next: so none runs over.
SlicesHold ==
    /\ \A ch \in Channels : slices[ch] <= sliceAdds
    /\ sliceAdds <= FlushAt
    /\ step # "flush" => sliceAdds < FlushAt

CountInv == CountType /\ SlicesHold /\ CountersExact

\* A slice below the limit counts one more.
LEMMA OneMore ==
    ASSUME NEW n \in Nat, NEW w \in Nat, n + 1 < w
    PROVE  (n + 1) % w = n + 1
BY SMT

\* The counting survives a drop: the flush comes before any slice runs over.
LEMMA DropCounts ==
    ASSUME CountInv, step # "flush", NEW S, Drop(S)
    PROVE  CountInv'
<1> DEFINE sl(ch) == IF ch \in S THEN slices[ch] + 1 ELSE slices[ch]
<1> DEFINE dr(ch) == IF ch \in S THEN Append(drops[ch], pos) ELSE drops[ch]
<1>0. /\ FlushAt \in Nat
      /\ SliceWord \in Nat
      /\ FlushAt < SliceWord
      /\ FlushAt >= 1
  BY LossAssumption
<1>1. \A ch \in Channels : slices[ch] \in Nat /\ slices[ch] + 1 <= FlushAt
  BY <1>0 DEF CountInv, CountType, SlicesHold
<1>2. slices' = [ch \in Channels |-> sl(ch)]
  <2>1. \A ch \in Channels : (slices[ch] + 1) % SliceWord = slices[ch] + 1
    BY <1>0, <1>1, OneMore
  <2>2. slices' = [ch \in Channels |-> IF ch \in S THEN (slices[ch] + 1) % SliceWord
                                       ELSE slices[ch]]
    BY DEF Drop
  <2> QED BY <2>1, <2>2
<1>3. /\ drops' = [ch \in Channels |-> dr(ch)]
      /\ lost' = lost
      /\ sliceAdds' = sliceAdds + 1
  BY DEF Drop
<1>4. pos' \in Nat
  BY DEF Drop, SampleDone, CountInv, CountType
<1>5. \A ch \in Channels : sl(ch) \in Nat /\ sl(ch) <= sliceAdds + 1
  BY <1>1 DEF CountInv, CountType, SlicesHold
<1>6. \A ch \in Channels :
         /\ dr(ch) \in Seq(Nat)
         /\ Len(dr(ch)) = IF ch \in S THEN Len(drops[ch]) + 1 ELSE Len(drops[ch])
  BY DEF CountInv, CountType
<1>7. CountType'
  BY <1>2, <1>3, <1>4, <1>5, <1>6 DEF CountInv, CountType
<1>8. SlicesHold'
  <2>1. sliceAdds' <= FlushAt
    BY <1>0, <1>3 DEF CountInv, CountType, SlicesHold
  <2>2. step' # "flush" => sliceAdds' < FlushAt
    BY <1>0, <1>3, <2>1 DEF Drop, FlushDue, CountInv, CountType
  <2>3. \A ch \in Channels : slices'[ch] <= sliceAdds'
    BY <1>2, <1>3, <1>5
  <2> QED BY <2>1, <2>2, <2>3 DEF SlicesHold
<1>9. CountersExact'
  BY <1>2, <1>3, <1>6, <1>1 DEF CountInv, CountType, CountersExact
<1> QED BY <1>7, <1>8, <1>9 DEF CountInv

\* Steps that leave the counters and end in no flush with too much.
LEMMA CountersKept ==
    ASSUME CountInv, UNCHANGED <<slices, lost, sliceAdds, drops>>, pos' \in Nat,
           step' # "flush" => step # "flush" \/ sliceAdds < FlushAt
    PROVE  CountInv'
BY DEF CountInv, CountType, SlicesHold, CountersExact

LEMMA FlushCounts ==
    ASSUME CountInv, Flush
    PROVE  CountInv'
<1>1. FlushAt \in Nat /\ FlushAt >= 1
  BY LossAssumption
<1>2. /\ slices' = [ch \in Channels |-> 0]
      /\ lost' = [ch \in Channels |-> lost[ch] + slices[ch]]
      /\ sliceAdds' = 0
      /\ UNCHANGED <<pos, drops>>
  BY DEF Flush
<1>3. CountType'
  BY <1>2 DEF CountInv, CountType
<1>4. SlicesHold'
  BY <1>1, <1>2 DEF SlicesHold
<1>5. CountersExact'
  BY <1>2 DEF CountInv, CountType, CountersExact
<1> QED BY <1>3, <1>4, <1>5 DEF CountInv

LEMMA CountInit == Init => CountInv
<1> SUFFICES ASSUME Init PROVE CountInv
  OBVIOUS
<1>1. FlushAt \in Nat /\ FlushAt >= 1
  BY LossAssumption
<1>2. CountType
  BY DEF Init, CountType
<1>3. SlicesHold
  BY <1>1 DEF Init, SlicesHold
<1>4. CountersExact
  BY DEF Init, CountersExact
<1> QED BY <1>2, <1>3, <1>4 DEF CountInv

LEMMA CountStep == CountInv /\ [Next]_vars => CountInv'
<1> SUFFICES ASSUME CountInv, [Next]_vars PROVE CountInv'
  OBVIOUS
<1> USE DEF SampleDone, AfterSample, EndLoss
<1>0. pos \in Nat
  BY DEF CountInv, CountType
<1>1. CASE ScanQuiet
  BY <1>0, <1>1, CountersKept DEF ScanQuiet
<1>2. CASE ScanChange
  BY <1>0, <1>2, CountersKept DEF ScanChange
<1>3. CASE Encode
  BY <1>0, <1>3, CountersKept DEF Encode
<1>4. CASE RecordDrop
  BY <1>4, DropCounts DEF RecordDrop
<1>5. CASE ScanDropChange
  BY <1>5, DropCounts DEF ScanDropChange
<1>6. CASE ScanDropQuiet
  BY <1>0, <1>6, CountersKept DEF ScanDropQuiet
<1>7. CASE ScanDropEnds
  BY <1>0, <1>7, CountersKept DEF ScanDropEnds
<1>8. CASE Heartbeat
  BY <1>0, <1>8, CountersKept DEF Heartbeat
<1>9. CASE Flush
  BY <1>9, FlushCounts
<1>10. CASE Snap
  BY <1>0, <1>10, CountersKept DEF Snap
<1>11. CASE KeepingNext \/ Grant \/ HostNext
  BY <1>0, <1>11, CountersKept
  DEF KeepingNext, Ask, Acquired, Semaphore, Amount, Decide, Copy, Release, Grant, HostNext,
      ReadReport, ReadFails, ReadNothing, ReadRefused, cleanup
<1>12. CASE UNCHANGED vars
  BY <1>0, <1>12, CountersKept DEF vars, cleanup
<1> QED
  BY <1>1, <1>2, <1>3, <1>4, <1>5, <1>6, <1>7, <1>8, <1>9, <1>10, <1>11, <1>12
  DEF Next, CleanupNext

\* Every drop is counted once, in a slice or in its channel's counter: SLICE_FLUSH_AT below
\* 2^SLICES is enough, for any number of channels and any changes.
THEOREM DropsCounted == Spec => []CountersExact
<1>1. Spec => []CountInv
  BY CountInit, CountStep, PTL DEF Spec
<1>2. CountInv => CountersExact
  BY DEF CountInv
<1> QED BY <1>1, <1>2, PTL

-----------------------------------------------------------------------------
(* The sequence of reports. *)

SeqType ==
    /\ reportSeq \in Nat
    /\ nextSeq \in Nat
    /\ "seq" \in DOMAIN buf

\* While the slave has the semaphore no transaction has ended since it was given over, and
\* housekeeping is before the semaphore's check.
SlaveHolds == owner = "spis" => clocked = "none" /\ hk \in {"poll", "semaphore"}

\* The report that waits, or is being copied, is the one after those that count as sent; how much
\* of it was clocked out is looked at only while one waits.
WaitingIsNext ==
    /\ loaded \/ hk = "copy" => buf.seq = reportSeq
    /\ hk = "amount" => loaded

\* The host is ahead of the device's count in one case only: it has the report, all of it was
\* clocked out, and housekeeping has yet to see that.
HostAhead ==
    \/ nextSeq <= reportSeq
    \/ /\ nextSeq = reportSeq + 1
       /\ owner = "cpu"
       /\ clocked = "all"
       /\ loaded
       /\ hk \in {"poll", "semaphore", "amount"}

SeqInv == SeqType /\ SlaveHolds /\ WaitingIsNext /\ HostAhead /\ NoReportTwice

LEMMA SeqInit == Init => SeqInv
BY DEF Init, SeqInv, SeqType, SlaveHolds, WaitingIsNext, HostAhead, NoReportTwice

\* The host takes a report that has not come before, and is then one ahead.
LEMMA ReadOnce ==
    ASSUME SeqInv, ReadReport
    PROVE  SeqInv'
<1>1. /\ loaded
      /\ owner = "spis"
      /\ owner' = "cpu"
      /\ clocked' = "all"
      /\ UNCHANGED <<hk, loaded, reportSeq, buf>>
  BY DEF ReadReport, TransactionEnds, keeping
<1>2. buf.seq = reportSeq /\ nextSeq <= reportSeq /\ hk \in {"poll", "semaphore"}
  BY <1>1 DEF SeqInv, SlaveHolds, WaitingIsNext, HostAhead
<1>3. nextSeq' = buf.seq + 1 /\ repeated' = (repeated \/ buf.seq < nextSeq)
  BY DEF ReadReport, Take
<1>4. NoReportTwice'
  <2>1. ~(buf.seq < nextSeq)
    BY <1>2 DEF SeqInv, SeqType
  <2> QED BY <1>3, <2>1, Zenon DEF SeqInv, NoReportTwice
<1> QED BY <1>1, <1>2, <1>3, <1>4 DEF SeqInv, SeqType, SlaveHolds, WaitingIsNext, HostAhead

LEMMA SeqStep == SeqInv /\ [Next]_vars => SeqInv'
<1> SUFFICES ASSUME SeqInv, [Next]_vars PROVE SeqInv'
  OBVIOUS
<1> USE DEF SeqInv, SeqType, SlaveHolds, WaitingIsNext, HostAhead, NoReportTwice, keeping, spis,
            tracker
<1>1. CASE CleanupNext
  <2>1. UNCHANGED <<keeping, spis, tracker>>
    BY <1>1 DEF CleanupNext, ScanQuiet, ScanChange, Encode, RecordDrop, ScanDropChange, Drop,
                ScanDropQuiet, ScanDropEnds, Heartbeat, Flush, Snap
  <2> QED BY <2>1
<1>2. CASE Ask
  BY <1>2 DEF Ask
<1>3. CASE Acquired
  BY <1>3 DEF Acquired
<1>4. CASE Semaphore
  BY <1>4 DEF Semaphore
<1>5. CASE Amount
  <2>1. /\ hk = "amount" /\ hk' = "decide"
        /\ loaded /\ buf.seq = reportSeq
        /\ UNCHANGED <<buf, spis, tracker>>
    BY <1>5 DEF Amount
  <2>2. CASE Sent
    <3>1. reportSeq' = reportSeq + 1 /\ ~loaded'
      BY <1>5, <2>2 DEF Amount
    <3> QED BY <2>1, <3>1
  <2>3. CASE ~Sent
    <3>1. reportSeq' = reportSeq /\ nextSeq <= reportSeq
      BY <1>5, <2>3 DEF Amount, Sent
    <3> QED BY <2>1, <3>1
  <2> QED BY <2>2, <2>3
<1>6. CASE Decide
  <2>1. CASE MayCopy
    <3>1. buf' = [buf EXCEPT !.seq = reportSeq, !.start = MergedStart]
      BY <1>6, <2>1 DEF Decide
    <3>2. "seq" \in DOMAIN buf' /\ buf'.seq = reportSeq
      BY <3>1
    <3>3. /\ hk = "decide" /\ hk' = "copy"
          /\ UNCHANGED <<reportSeq, loaded, spis, tracker>>
      BY <1>6, <2>1 DEF Decide
    <3>4. nextSeq <= reportSeq /\ owner # "spis"
      BY <3>3
    <3> QED BY <3>2, <3>3, <3>4
  <2>2. CASE ~MayCopy
    BY <1>6, <2>2 DEF Decide
  <2> QED BY <2>1, <2>2
<1>7. CASE Copy
  <2>1. "seq" \in DOMAIN buf' /\ buf'.seq = buf.seq
    BY <1>7 DEF Copy
  <2> QED BY <1>7, <2>1 DEF Copy
<1>8. CASE Release
  BY <1>8 DEF Release
<1>9. CASE Grant
  BY <1>9 DEF Grant
<1>10. CASE ReadReport
  BY <1>10, ReadOnce
<1>11. CASE ReadFails
  BY <1>11 DEF ReadFails, TransactionEnds
<1>12. CASE ReadNothing
  BY <1>12 DEF ReadNothing, TransactionEnds
<1>13. CASE ReadRefused
  BY <1>13 DEF ReadRefused
<1>14. CASE UNCHANGED vars
  BY <1>14 DEF vars
<1> QED
  BY <1>1, <1>2, <1>3, <1>4, <1>5, <1>6, <1>7, <1>8, <1>9, <1>10, <1>11, <1>12, <1>13, <1>14
  DEF Next, KeepingNext, HostNext

\* A report the host has taken is not taken again: housekeeping sees that all of it was clocked
\* out before it gives the semaphore back.
THEOREM ReportedOnce == Spec => []NoReportTwice
<1>1. Spec => []SeqInv
  BY SeqInit, SeqStep, PTL DEF Spec
<1>2. SeqInv => NoReportTwice
  BY DEF SeqInv
<1> QED BY <1>1, <1>2, PTL

-----------------------------------------------------------------------------
(* A position is unwrapped exactly. *)

\* Division by two or more.
LEMMA Divided ==
    ASSUME NEW c \in Nat, c >= 2, NEW t \in Nat
    PROVE  /\ t \div c \in Nat
           /\ t % c \in 0 .. c - 1
           /\ t = (t \div c) * c + (t % c)
           /\ 2 * (t \div c) <= t
<1>1. /\ t \div c \in Nat /\ t % c \in 0 .. c - 1
      /\ t = c * (t \div c) + (t % c)
  OBVIOUS
<1> DEFINE q == t \div c
<1>2. q \in Nat /\ c * q <= t
  BY <1>1
<1>3. 2 * q <= c * q
  <2> HIDE DEF q
  <2>1. PICK k \in Nat : c = 2 + k
    <3>1. c - 2 \in Nat /\ c = 2 + (c - 2)
      OBVIOUS
    <3> QED BY <3>1
  <2>2. c * q = 2 * q + k * q /\ k * q >= 0
    BY <2>1, <1>2
  <2> QED BY <2>2, <1>2
<1> QED BY <1>1, <1>2, <1>3

\* A small difference is its own residue, read as signed.
LEMMA Kept ==
    ASSUME NEW w \in Nat, NEW d \in Int, d + w \div 2 \in 0 .. w - 1
    PROVE  ((d + w \div 2) % w) - w \div 2 = d
<1> DEFINE h == w \div 2
<1>1. h \in Int
  OBVIOUS
<1>2. \A n \in Nat : n < w => n % w = n
  BY SMT
<1> HIDE DEF h
<1>3. (d + h) % w = d + h
  BY <1>1, <1>2 DEF h
<1> QED BY <1>1, <1>3 DEF h

\* wire_tick() gives a position back as it was, as long as ticks fit in 32 bits, however far the
\* heartbeat it is read against is behind or ahead.
LEMMA TickExact ==
    ASSUME C >= 2, NEW p \in Nat, p < Word, NEW t \in 0 .. p, NEW ref \in 0 .. p \div C
    PROVE  Tick(ref, t) = t
<1>1. C \in Nat /\ Word \in Nat
  BY LossAssumption
<1>2. p \div C \in Nat /\ 2 * (p \div C) <= p
  BY <1>1, Divided
<1>3. /\ t \div C \in Nat /\ t % C \in 0 .. C - 1
      /\ t = (t \div C) * C + (t % C)
      /\ 2 * (t \div C) <= t
  <2>1. t \in Nat
    OBVIOUS
  <2> QED BY <1>1, <2>1, Divided
<1> DEFINE g == t \div C
<1> DEFINE r == p \div C
<1>5. Signed(g - ref) = g - ref
  <2>1. g \in Nat /\ 2 * g <= p /\ r \in Nat /\ 2 * r <= p /\ ref \in 0 .. r
    BY <1>2, <1>3
  <2> HIDE DEF g, r
  <2>2. g - ref \in Int /\ (g - ref) + Word \div 2 \in 0 .. Word - 1
    BY <1>1, <2>1
  <2> QED BY <1>1, <2>2, Kept DEF Signed
<1>6. ref + Signed(g - ref) = g /\ ~(g < 0)
  <2>1. g \in Nat /\ ref \in Int
    BY <1>2, <1>3
  <2> QED BY <1>5, <2>1
<1>7. Tick(ref, t) = (IF ref + Signed(g - ref) < 0 THEN 0 ELSE ref + Signed(g - ref)) * C + (t % C)
  BY DEF Tick
<1>8. Tick(ref, t) = g * C + (t % C)
  BY <1>6, <1>7
<1> QED BY <1>3, <1>8

-----------------------------------------------------------------------------
(* What the counters of a report stand for.  The operators take the drops as an argument, so that
   a fact about them can be used of the drops after a step. *)

\* The counters l take in the drops up to the tick e, and no others.
Upto(d, l, e) ==
    \A ch \in Channels :
        /\ l[ch] <= Len(d[ch])
        /\ \A i \in 1 .. Len(d[ch]) : i <= l[ch] <=> d[ch][i] <= e

\* No drop they leave out is before the tick t.
From(d, l, t) == \A ch \in Channels : \A i \in 1 .. Len(d[ch]) : i > l[ch] => t <= d[ch][i]

\* They leave out none.
AllIn(d, l) == \A ch \in Channels : l[ch] = Len(d[ch])

\* No channel's counter is lower in k than in l.
Below(l, k) == \A ch \in Channels : l[ch] <= k[ch]

(* The positions. *)

\* Where cleanup goes on after a flush.
Place == IF step \in {"flush", "snap"} THEN afterFlush ELSE step

PlaceType ==
    /\ step \in Steps
    /\ afterFlush \in {"scan", "record", "scanDrop", "heartbeat"}
    /\ lossOpen \in BOOLEAN
    /\ flushSnap \in BOOLEAN
    /\ pos \in 0 .. MaxTicks + 1
    /\ Place \in {"record", "heartbeat"} => pos <= MaxTicks

\* A tick that was dropped is past before the next sample is scanned: a loss that ends has no drop
\* after its end, and every drop to come is.
EndsArePast ==
    /\ lossStart \in 0 .. pos
    /\ lossEnd \in 0 .. pos
    /\ Place \in {"scan", "record", "scanDrop"} => lossEnd < pos
    /\ nextStart \in 0 .. pos
    /\ reportStart \in 0 .. pos
    /\ nextEnd \in 0 .. lossEnd
    /\ buf.end \in 0 .. lossEnd
    /\ prevEnd \in 0 .. lossEnd
    /\ \A ch \in Channels : \A i \in 1 .. Len(drops[ch]) : drops[ch][i] <= lossEnd

(* The hand-over. *)

ReportType ==
    /\ hk \in Keepings
    /\ nextValid \in BOOLEAN
    /\ snapBusy \in BOOLEAN
    /\ loaded \in BOOLEAN
    /\ nextLost \in Counters
    /\ last \in Counters
    /\ snapI \in 0 .. Count
    /\ copyI \in 0 .. Count
    /\ buf \in [seq : Nat, start : Nat, end : Nat, lost : Counters]
    /\ marks \in SUBSET [ch : Channels, start : Nat, end : Nat]

\* A loss that goes on, or is over and not handed over yet.
Ending == (step = "flush" /\ flushSnap) \/ step = "snap"
Losing == lossOpen \/ Ending

\* The two flags: one side at a time has what is handed over. What it has copied is what was there.
Handing ==
    /\ copyBusy <=> hk = "copy"
    /\ copyBusy => ~snapBusy /\ ~nextValid
    /\ snapBusy => step = "snap"
    /\ Ending => ~lossOpen
    /\ step = "snap" => /\ AllIn(drops, lost)
                        /\ \A ch \in 0 .. snapI - 1 : nextLost[ch] = lost[ch]
    /\ hk = "copy" => /\ \A ch \in 0 .. copyI - 1 : buf.lost[ch] = nextLost[ch]
                      /\ copyI # 0 => buf.end = nextEnd
    /\ loaded \/ hk = "copy" => buf.start = reportStart

\* The counters are whole where nobody is writing them.
NextWhole == ~snapBusy /\ (nextValid \/ hk = "copy")
BufWhole == loaded /\ hk # "copy"

\* Whole counters belong to their end, and are counted one after the other.
Counted ==
    /\ NextWhole => Upto(drops, nextLost, nextEnd) /\ Below(last, nextLost)
    /\ BufWhole => Upto(drops, buf.lost, buf.end) /\ Below(last, buf.lost)
    /\ NextWhole /\ BufWhole => Below(buf.lost, nextLost)
    /\ havePrev => Upto(drops, last, prevEnd)
    /\ Below(nextLost, lost)
    /\ Below(buf.lost, lost)
    /\ Below(last, lost)

\* The drops that the counters l leave out are in the loss that goes on ...
InLoss(l) == IF Losing THEN From(drops, l, lossStart) ELSE AllIn(drops, l)

\* ... or from the start of what was handed over.
InRest(l) == IF nextValid THEN From(drops, l, nextStart) ELSE InLoss(l)

\* No start is late: whatever a report's counters leave out is in what comes after it, and what the
\* host has not counted, unless a report was skipped, is in the report that comes next.
StartsCover ==
    /\ NextWhole => InLoss(nextLost)
    /\ BufWhole => InRest(buf.lost)
    /\ nextSeq = reportSeq + 1 => InRest(last)
    /\ nextSeq = reportSeq => IF loaded \/ hk = "copy" THEN From(drops, last, reportStart)
                              ELSE InRest(last)

\* The captures the theorem is about: every tick fits in the device's word.
TicksFit == C >= 2 /\ MaxTicks + 1 < Word

MarkInv ==
    /\ CountInv
    /\ SeqInv
    /\ PlaceType
    /\ EndsArePast
    /\ ReportType
    /\ Handing
    /\ Counted
    /\ StartsCover
    /\ MarksExact

-----------------------------------------------------------------------------
(* Facts about counters and drops. *)

\* The drops after the changed channels S of a sample at the tick p are dropped.
After(d, S, p) == [ch \in Channels |-> IF ch \in S THEN Append(d[ch], p) ELSE d[ch]]

LEMMA AfterDrop ==
    ASSUME NEW d \in [Channels -> Seq(Nat)], NEW S, NEW p \in Nat, NEW ch \in Channels
    PROVE  /\ After(d, S, p)[ch] \in Seq(Nat)
           /\ Len(After(d, S, p)[ch]) \in Nat
           /\ Len(After(d, S, p)[ch]) >= Len(d[ch])
           /\ \A i \in 1 .. Len(d[ch]) : After(d, S, p)[ch][i] = d[ch][i]
           /\ \A i \in 1 .. Len(After(d, S, p)[ch]) :
                 i > Len(d[ch]) => After(d, S, p)[ch][i] = p
<1>1. d[ch] \in Seq(Nat)
  OBVIOUS
<1>2. CASE ch \in S
  <2>1. After(d, S, p)[ch] = Append(d[ch], p)
    BY <1>2 DEF After
  <2> QED BY <1>1, <2>1
<1>3. CASE ch \notin S
  <2>1. After(d, S, p)[ch] = d[ch]
    BY <1>3 DEF After
  <2> QED BY <1>1, <2>1
<1> QED BY <1>2, <1>3

\* A drop after the end of counters is not theirs.
LEMMA UptoAfter ==
    ASSUME NEW d \in [Channels -> Seq(Nat)], NEW S, NEW p \in Nat,
           NEW l \in Counters, NEW e \in Nat, e < p, Upto(d, l, e)
    PROVE  Upto(After(d, S, p), l, e)
<1> SUFFICES ASSUME NEW ch \in Channels
             PROVE  /\ l[ch] <= Len(After(d, S, p)[ch])
                    /\ \A i \in 1 .. Len(After(d, S, p)[ch]) :
                          i <= l[ch] <=> After(d, S, p)[ch][i] <= e
  BY DEF Upto
<1> DEFINE a == After(d, S, p)[ch]
<1>1. /\ l[ch] <= Len(d[ch])
      /\ \A i \in 1 .. Len(d[ch]) : i <= l[ch] <=> d[ch][i] <= e
  BY DEF Upto
<1>2. /\ Len(a) \in Nat /\ Len(a) >= Len(d[ch]) /\ Len(d[ch]) \in Nat /\ l[ch] \in Nat
      /\ \A i \in 1 .. Len(d[ch]) : a[i] = d[ch][i]
      /\ \A i \in 1 .. Len(a) : i > Len(d[ch]) => a[i] = p
  BY AfterDrop DEF Counters
<1> HIDE DEF a
<1>3. l[ch] <= Len(a)
  BY <1>1, <1>2
<1>4. ASSUME NEW i \in 1 .. Len(a) PROVE i <= l[ch] <=> a[i] <= e
  BY <1>1, <1>2
<1> QED BY <1>3, <1>4 DEF a

\* What the counters leave out still starts no earlier.
LEMMA FromAfter ==
    ASSUME NEW d \in [Channels -> Seq(Nat)], NEW S, NEW p \in Nat,
           NEW l \in Counters, NEW t \in Nat, t <= p, From(d, l, t)
    PROVE  From(After(d, S, p), l, t)
<1> SUFFICES ASSUME NEW ch \in Channels, NEW i \in 1 .. Len(After(d, S, p)[ch]), i > l[ch]
             PROVE  t <= After(d, S, p)[ch][i]
  BY DEF From
<1> DEFINE a == After(d, S, p)[ch]
<1>2. /\ Len(a) \in Nat /\ Len(a) >= Len(d[ch]) /\ Len(d[ch]) \in Nat
      /\ \A k \in 1 .. Len(d[ch]) : a[k] = d[ch][k]
      /\ \A k \in 1 .. Len(a) : k > Len(d[ch]) => a[k] = p
  BY AfterDrop
<1>3. \A k \in 1 .. Len(d[ch]) : k > l[ch] => t <= d[ch][k]
  BY DEF From
<1> HIDE DEF a
<1>4. i \in 1 .. Len(a) => t <= a[i]
  BY <1>2, <1>3
<1> QED BY <1>4 DEF a

\* Counters that left out nothing leave out the first drop of a new loss and what follows.
LEMMA NewLoss ==
    ASSUME NEW d \in [Channels -> Seq(Nat)], NEW S, NEW p \in Nat, NEW l \in Counters, AllIn(d, l)
    PROVE  From(After(d, S, p), l, p)
<1> SUFFICES ASSUME NEW ch \in Channels, NEW i \in 1 .. Len(After(d, S, p)[ch]), i > l[ch]
             PROVE  p <= After(d, S, p)[ch][i]
  BY DEF From
<1>1. l[ch] = Len(d[ch])
  BY DEF AllIn
<1> QED BY <1>1, AfterDrop

\* Counters that take in every drop, at an end that no drop is after.
LEMMA AllUpto ==
    ASSUME NEW d \in [Channels -> Seq(Nat)], NEW l \in Counters, NEW e \in Nat, AllIn(d, l),
           \A ch \in Channels : \A i \in 1 .. Len(d[ch]) : d[ch][i] <= e
    PROVE  Upto(d, l, e)
<1> SUFFICES ASSUME NEW ch \in Channels
             PROVE  /\ l[ch] <= Len(d[ch])
                    /\ \A i \in 1 .. Len(d[ch]) : i <= l[ch] <=> d[ch][i] <= e
  BY DEF Upto
<1>1. l[ch] = Len(d[ch]) /\ Len(d[ch]) \in Nat
  BY DEF AllIn
<1> QED BY <1>1

-----------------------------------------------------------------------------
(* The positions. *)

LEMMA PlaceInit == Init => PlaceType
<1> SUFFICES ASSUME Init PROVE PlaceType
  OBVIOUS
<1>1. MaxTicks \in Nat
  BY LossAssumption
<1>2. lossOpen \in BOOLEAN /\ flushSnap \in BOOLEAN
  BY DEF Init
<1> QED BY <1>1, <1>2 DEF Init, PlaceType, Place, Steps

\* The steps of a sample: it is scanned before the bound, and done once.
LEMMA PlaceStep == PlaceType /\ [Next]_vars => PlaceType'
<1> SUFFICES ASSUME PlaceType, [Next]_vars PROVE PlaceType'
  OBVIOUS
<1> USE DEF PlaceType, Place, Steps
<1>0. MaxTicks \in Nat
  BY LossAssumption
<1>1. CASE ScanQuiet \/ ScanDropQuiet
  BY <1>0, <1>1 DEF ScanQuiet, ScanDropQuiet, SampleDone, AfterSample
<1>2. CASE ScanChange
  BY <1>0, <1>2 DEF ScanChange
<1>3. ASSUME NEW next \in {"scan", "record", "heartbeat"}, EndLoss(next), step \notin {"flush", "snap"}
      PROVE  /\ lossOpen' \in BOOLEAN /\ flushSnap' \in BOOLEAN
             /\ step' \in Steps
             /\ afterFlush' \in {"scan", "record", "scanDrop", "heartbeat"}
             /\ (IF step' \in {"flush", "snap"} THEN afterFlush' ELSE step') = next
  <2>1. lossOpen' \in BOOLEAN /\ flushSnap' \in BOOLEAN
    BY <1>3 DEF EndLoss
  <2> QED BY <1>3, <2>1 DEF EndLoss
<1>4. CASE Encode
  <2>1. PICK ch \in changed :
          IF changed = {ch} THEN SampleDone /\ EndLoss(AfterSample("scan"))
          ELSE EndLoss("record") /\ UNCHANGED pos
    BY <1>4 DEF Encode
  <2>2. step = "record"
    BY <1>4 DEF Encode
  <2>3. CASE changed = {ch}
    <3>1. AfterSample("scan") \in {"scan", "record", "heartbeat"}
      BY DEF AfterSample
    <3>2. EndLoss(AfterSample("scan")) /\ SampleDone
      BY <2>1, <2>3
    <3>3. Place' = AfterSample("scan")
      BY <1>3, <2>2, <3>1, <3>2
    <3> QED BY <1>0, <1>3, <2>2, <3>1, <3>2, <3>3 DEF SampleDone, AfterSample
  <2>4. CASE changed # {ch}
    <3>1. EndLoss("record") /\ pos' = pos
      BY <2>1, <2>4
    <3> QED BY <1>0, <1>3, <2>2, <3>1
  <2> QED BY <2>3, <2>4
<1>5. CASE RecordDrop \/ ScanDropChange
  <2>1. PICK S : Drop(S)
    BY <1>5 DEF RecordDrop, ScanDropChange
  <2>2. step \in {"record", "scanDrop"} /\ (step = "scanDrop" => pos < MaxTicks)
    BY <1>5 DEF RecordDrop, ScanDropChange
  <2>3. lossOpen' \in BOOLEAN /\ flushSnap' \in BOOLEAN
    BY <2>1 DEF Drop
  <2> QED BY <1>0, <2>1, <2>2, <2>3 DEF Drop, SampleDone, AfterSample
<1>6. CASE ScanDropEnds
  <2>1. step = "scanDrop" /\ pos' = pos
    BY <1>6 DEF ScanDropEnds
  <2>2. CASE pending
    BY <1>0, <1>3, <1>6, <2>1, <2>2 DEF ScanDropEnds
  <2>3. CASE ~pending
    BY <1>0, <1>6, <2>1, <2>3 DEF ScanDropEnds
  <2> QED BY <2>2, <2>3
<1>7. CASE Heartbeat
  <2>1. step = "heartbeat"
    BY <1>7 DEF Heartbeat
  <2>2. CASE EndLoss("scan") /\ pos' = pos + 1
    <3>1. step = "heartbeat" /\ EndLoss("scan") /\ pos' = pos + 1
      BY <2>1, <2>2
    <3> QED BY <1>0, <1>3, <3>1
  <2>3. CASE /\ step' \in {"stop", "scanDrop"}
             /\ pos' \in {pos, pos + 1}
             /\ UNCHANGED <<lossOpen, flushSnap, afterFlush>>
    BY <1>0, <2>1, <2>3
  <2>4. \/ EndLoss("scan") /\ pos' = pos + 1
        \/ /\ step' \in {"stop", "scanDrop"}
           /\ pos' \in {pos, pos + 1}
           /\ UNCHANGED <<lossOpen, flushSnap, afterFlush>>
    BY <1>7 DEF Heartbeat
  <2> HIDE DEF PlaceType, Place, Steps
  <2>5. CASE EndLoss("scan") /\ pos' = pos + 1
    BY <2>2, <2>5
  <2>6. CASE /\ step' \in {"stop", "scanDrop"}
             /\ pos' \in {pos, pos + 1}
             /\ UNCHANGED <<lossOpen, flushSnap, afterFlush>>
    BY <2>3, <2>6
  <2> QED BY <2>4, <2>5, <2>6, Zenon
<1>8. CASE Flush
  BY <1>0, <1>8 DEF Flush
<1>9. CASE Snap
  BY <1>0, <1>9 DEF Snap
<1>10. CASE KeepingNext \/ Grant \/ HostNext \/ UNCHANGED vars
  <2>1. CASE KeepingNext
    <3>1. UNCHANGED cleanup
      BY <2>1 DEF KeepingNext, Ask, Acquired, Semaphore, Amount, Decide, Copy, Release
    <3> QED BY <3>1 DEF cleanup
  <2>2. CASE Grant \/ HostNext
    <3>1. UNCHANGED cleanup
      BY <2>2 DEF Grant, HostNext, ReadReport, ReadFails, ReadNothing, ReadRefused
    <3> QED BY <3>1 DEF cleanup
  <2>3. CASE UNCHANGED vars
    <3>1. UNCHANGED cleanup
      BY <2>3 DEF vars
    <3> QED BY <3>1 DEF cleanup
  <2> QED BY <1>10, <2>1, <2>2, <2>3
<1> QED
  BY <1>1, <1>2, <1>4, <1>5, <1>6, <1>7, <1>8, <1>9, <1>10 DEF Next, CleanupNext

-----------------------------------------------------------------------------
(* What the steps that handle counters do, in terms of the invariant's types. *)

LEMMA Typed ==
    ASSUME MarkInv
    PROVE  /\ drops \in [Channels -> Seq(Nat)]
           /\ lost \in Counters /\ nextLost \in Counters /\ last \in Counters
           /\ buf.lost \in Counters /\ buf.seq \in Nat /\ buf.start \in Nat /\ buf.end \in Nat
           /\ pos \in Nat /\ lossStart \in Nat /\ lossEnd \in Nat
           /\ nextStart \in Nat /\ nextEnd \in Nat /\ reportStart \in Nat /\ prevEnd \in Nat
           /\ nextSeq \in Nat /\ reportSeq \in Nat
<1>1. MaxTicks \in Nat
  BY LossAssumption
<1>2. pos \in Nat
  BY <1>1 DEF MarkInv, PlaceType
<1>3. lossEnd \in Nat
  BY <1>2 DEF MarkInv, EndsArePast
<1> QED
  BY <1>1, <1>2, <1>3
  DEF MarkInv, CountInv, CountType, SeqInv, SeqType, EndsArePast, ReportType, Counters

\* The range a drop is counted in is not reduced modulo the word.
LEMMA Dropped ==
    ASSUME TicksFit, MarkInv, NEW S, Drop(S)
    PROVE  /\ drops' = After(drops, S, pos)
           /\ lossStart' = IF lossOpen THEN lossStart ELSE pos
           /\ lossEnd' = pos
           /\ lossOpen' = TRUE
           /\ pos' = IF AtGrid THEN pos ELSE pos + 1
<1>1. pos \in 0 .. MaxTicks + 1 /\ MaxTicks \in Nat /\ Word \in Nat
  BY LossAssumption DEF MarkInv, PlaceType
<1>2. pos % Word = pos
  <2>1. pos \in Nat /\ pos < Word
    BY <1>1 DEF TicksFit
  <2> QED BY <1>1, <2>1, SMT
<1> QED BY <1>2 DEF Drop, SampleDone, After

\* The report is decided: its sequence and its start.
LEMMA Decided ==
    ASSUME MarkInv, Decide, MayCopy
    PROVE  /\ buf'.seq = reportSeq /\ buf'.start = MergedStart
           /\ buf'.end = buf.end /\ buf'.lost = buf.lost
           /\ buf' \in [seq : Nat, start : Nat, end : Nat, lost : Counters]
<1>1. buf' = [buf EXCEPT !.seq = reportSeq, !.start = MergedStart]
  BY DEF Decide
<1>2. MergedStart \in Nat /\ reportSeq \in Nat
  BY Typed DEF MergedStart
<1>3. buf \in [seq : Nat, start : Nat, end : Nat, lost : Counters]
  BY DEF MarkInv, ReportType
<1> QED BY <1>1, <1>2, <1>3

\* Some of the counters handed over are copied into it.
LEMMA Copied ==
    ASSUME MarkInv, Copy
    PROVE  /\ buf'.seq = buf.seq /\ buf'.start = buf.start
           /\ buf'.end = IF copyI = 0 THEN nextEnd ELSE buf.end
           /\ \A ch \in Channels :
                 buf'.lost[ch] = IF ch \in copyI .. StepEnd(copyI) - 1 THEN nextLost[ch]
                                 ELSE buf.lost[ch]
           /\ buf' \in [seq : Nat, start : Nat, end : Nat, lost : Counters]
<1> DEFINE l == [ch \in Channels |-> IF ch \in copyI .. StepEnd(copyI) - 1 THEN nextLost[ch]
                                     ELSE buf.lost[ch]]
<1> DEFINE e == IF copyI = 0 THEN nextEnd ELSE buf.end
<1>1. buf' = [buf EXCEPT !.end = e, !.lost = l]
  BY DEF Copy
<1>2. l \in Counters /\ e \in Nat
  BY Typed DEF Counters
<1>3. buf \in [seq : Nat, start : Nat, end : Nat, lost : Counters]
  BY DEF MarkInv, ReportType
<1>4. \A ch \in Channels : l[ch] = IF ch \in copyI .. StepEnd(copyI) - 1 THEN nextLost[ch]
                                   ELSE buf.lost[ch]
  OBVIOUS
<1> HIDE DEF l, e
<1>5. /\ buf'.seq = buf.seq /\ buf'.start = buf.start /\ buf'.end = e /\ buf'.lost = l
      /\ buf' \in [seq : Nat, start : Nat, end : Nat, lost : Counters]
  BY <1>1, <1>2, <1>3
<1> QED BY <1>4, <1>5 DEF e

\* Where the range of a report starts that comes next, or after others that did not come.
RangeStart == IF buf.seq = nextSeq THEN buf.start ELSE IF havePrev THEN prevEnd ELSE 0

Risen == {ch \in Channels : buf.lost[ch] # last[ch]}

\* The host's positions are the device's.
LEMMA Taken ==
    ASSUME TicksFit, MarkInv, ReadReport
    PROVE  /\ marks' = marks \cup {[ch |-> ch, start |-> RangeStart, end |-> buf.end] :
                                     ch \in Risen}
           /\ last' = buf.lost /\ havePrev' = TRUE /\ nextSeq' = buf.seq + 1
           /\ prevEnd' = buf.end
           /\ RangeStart \in Nat
<1>1. PICK ref \in 0 .. pos \div C : Take(buf, ref)
  BY DEF ReadReport
<1>2. /\ pos \in Nat /\ pos < Word
      /\ buf.end \in 0 .. pos
      /\ loaded => buf.start \in 0 .. pos
  <2>1. MaxTicks \in Nat /\ Word \in Nat
    BY LossAssumption
  <2>2. /\ pos \in Nat /\ pos < Word
    BY <2>1 DEF TicksFit, MarkInv, PlaceType
  <2> QED BY <2>2, Typed DEF MarkInv, EndsArePast, Handing
<1>3. loaded
  BY DEF ReadReport
<1>4. Tick(ref, buf.end) = buf.end /\ Tick(ref, buf.start) = buf.start
  BY <1>1, <1>2, <1>3, TickExact DEF TicksFit
<1>5. First(buf, ref) = RangeStart
  BY <1>4 DEF First, RangeStart
<1>6. RangeStart \in Nat
  BY Typed DEF RangeStart
<1>7. Risen = {ch \in Channels : Rose(ch, buf)}
  BY DEF Risen, Rose
<1> QED BY <1>1, <1>4, <1>5, <1>6, <1>7 DEF Take

-----------------------------------------------------------------------------
(* The hand-over. *)

LEMMA ReportInit == Init => ReportType
<1> SUFFICES ASSUME Init PROVE ReportType
  OBVIOUS
<1>1. Count \in Nat
  BY LossAssumption
<1>2. nextValid \in BOOLEAN /\ snapBusy \in BOOLEAN /\ loaded \in BOOLEAN
  BY DEF Init
<1>3. [ch \in Channels |-> 0] \in Counters
  BY DEF Counters
<1> QED BY <1>1, <1>2, <1>3 DEF Init, ReportType, Keepings

\* The counters copied in one step end at the last.
LEMMA StepEnds ==
    ASSUME NEW i \in 0 .. Count
    PROVE  /\ StepEnd(i) \in 0 .. Count
           /\ i < Count => StepEnd(i) > i
           /\ ~(StepEnd(i) < Count) => StepEnd(i) = Count
BY LossAssumption DEF StepEnd

LEMMA ReportStep == ASSUME TicksFit, MarkInv, [Next]_vars PROVE ReportType'
<1> USE DEF ReportType
<1>0. ReportType
  BY DEF MarkInv
<1>1. CASE UNCHANGED <<nextValid, snapBusy, nextLost>> /\ UNCHANGED <<loaded, copyI, buf, tracker>>
           /\ hk' \in Keepings /\ snapI' \in 0 .. Count
  BY <1>0, <1>1 DEF tracker
<1>2. 0 \in 0 .. Count
  BY LossAssumption
<1>3. CASE ScanQuiet \/ ScanChange \/ Encode \/ RecordDrop \/ ScanDropChange \/ ScanDropQuiet
           \/ ScanDropEnds \/ Heartbeat \/ Flush
  BY <1>0, <1>1, <1>2, <1>3
  DEF ScanQuiet, ScanChange, Encode, RecordDrop, ScanDropChange, Drop, ScanDropQuiet, ScanDropEnds,
      Heartbeat, Flush, handed, keeping
<1>4. CASE Snap
  <2>1. /\ UNCHANGED <<hk, loaded, copyI, buf, last, marks>>
        /\ snapI' = StepEnd(snapI)
        /\ nextValid' \in BOOLEAN /\ snapBusy' \in BOOLEAN
    BY <1>0, <1>4 DEF Snap, keeping, tracker
  <2>2. nextLost' \in Counters
    BY <1>4, Typed DEF Snap, Counters
  <2> QED BY <1>0, <2>1, <2>2, StepEnds
<1>5. CASE Ask \/ Acquired \/ Semaphore \/ Release \/ Grant \/ ReadFails \/ ReadNothing
           \/ ReadRefused
  BY <1>0, <1>1, <1>5
  DEF Ask, Acquired, Semaphore, Release, Grant, ReadFails, ReadNothing, ReadRefused, Keepings,
      cleanup, handed, keeping
<1>6. CASE Amount
  <2>1. loaded' \in BOOLEAN /\ hk' \in Keepings
    BY <1>6 DEF Amount, Keepings
  <2> QED BY <1>0, <1>6, <2>1 DEF Amount, cleanup, handed, tracker
<1>7. CASE Decide
  <2>1. CASE MayCopy
    <3>1. /\ UNCHANGED <<snapBusy, nextLost, snapI, loaded, last, marks>>
          /\ nextValid' = FALSE /\ copyI' = 0 /\ hk' \in Keepings
      BY <1>7, <2>1 DEF Decide, Keepings, cleanup, tracker
    <3> QED BY <1>0, <1>2, <1>7, <2>1, <3>1, Decided
  <2>2. CASE ~MayCopy
    BY <1>0, <1>1, <1>7, <2>2 DEF Decide, Keepings, cleanup
  <2> QED BY <2>1, <2>2
<1>8. CASE Copy
  <2>1. /\ UNCHANGED <<snapBusy, nextValid, nextLost, snapI, last, marks>>
        /\ copyI' = StepEnd(copyI)
        /\ hk' \in Keepings
    BY <1>0, <1>8 DEF Copy, Keepings, cleanup, tracker
  <2>2. loaded' \in BOOLEAN
    BY <1>0, <1>8 DEF Copy
  <2> QED BY <1>0, <1>8, <2>1, <2>2, Copied, StepEnds
<1>9. CASE ReadReport
  <2>1. UNCHANGED <<cleanup, handed, keeping>>
    BY <1>9 DEF ReadReport
  <2>2. marks' \in SUBSET [ch : Channels, start : Nat, end : Nat]
    <3> DEFINE new == {[ch |-> ch, start |-> RangeStart, end |-> buf.end] : ch \in Risen}
    <3>1. buf.end \in Nat /\ RangeStart \in Nat /\ Risen \in SUBSET Channels
      BY <1>9, Typed, Taken DEF Risen
    <3>2. new \in SUBSET [ch : Channels, start : Nat, end : Nat]
      BY <3>1
    <3>3. marks' = marks \cup new
      BY <1>9, Taken
    <3> HIDE DEF new
    <3> QED BY <1>0, <3>2, <3>3
  <2>3. last' \in Counters
    BY <1>9, Typed, Taken
  <2> QED BY <1>0, <2>1, <2>2, <2>3 DEF cleanup, handed, keeping
<1>10. CASE UNCHANGED vars
  BY <1>0, <1>10 DEF vars, cleanup, handed, keeping, tracker
<1> QED
  BY <1>3, <1>4, <1>5, <1>6, <1>7, <1>8, <1>9, <1>10 DEF Next, CleanupNext, KeepingNext, HostNext

LEMMA EndsInit == Init => EndsArePast
<1> SUFFICES ASSUME Init PROVE EndsArePast
  OBVIOUS
<1>1. /\ pos = 0 /\ lossStart = 0 /\ lossEnd = 0 /\ nextStart = 0 /\ reportStart = 0
      /\ nextEnd = 0 /\ buf.end = 0 /\ prevEnd = 0 /\ Place = "heartbeat"
      /\ \A ch \in Channels : Len(drops[ch]) = 0
  BY DEF Init, Place
<1> QED BY <1>1 DEF EndsArePast

\* Steps that leave the ends and the drops.
LEMMA EndsKept ==
    ASSUME MarkInv, pos' \in Nat, pos' >= pos,
           UNCHANGED <<drops, lossStart, lossEnd, nextStart, nextEnd, reportStart, prevEnd>>,
           buf'.end = buf.end,
           Place' \in {"scan", "record", "scanDrop"} => lossEnd < pos'
    PROVE  EndsArePast'
BY Typed DEF MarkInv, EndsArePast

LEMMA EndsStep == ASSUME TicksFit, MarkInv, [Next]_vars PROVE EndsArePast'
<1>0. /\ pos \in Nat /\ lossEnd \in Nat /\ lossEnd <= pos
      /\ EndsArePast /\ PlaceType
  BY Typed DEF MarkInv, EndsArePast
<1>1. CASE ScanQuiet \/ ScanChange \/ ScanDropQuiet
  <2>1. pos' \in Nat /\ pos' >= pos /\ lossEnd < pos
    BY <1>0, <1>1 DEF ScanQuiet, ScanChange, ScanDropQuiet, SampleDone, EndsArePast, Place
  <2> QED BY <1>0, <1>1, <2>1, EndsKept
          DEF ScanQuiet, ScanChange, ScanDropQuiet, handed, keeping, tracker
<1>2. CASE Encode
  <2>1. pos' \in {pos, pos + 1} /\ lossEnd < pos
    BY <1>0, <1>2 DEF Encode, SampleDone, EndsArePast, Place
  <2>2. UNCHANGED <<drops, lossStart, lossEnd, handed, keeping, tracker>>
    BY <1>2 DEF Encode
  <2> QED BY <1>0, <2>1, <2>2, EndsKept DEF handed, keeping, tracker
<1>3. CASE RecordDrop \/ ScanDropChange
  <2>1. PICK S : Drop(S)
    BY <1>3 DEF RecordDrop, ScanDropChange
  <2>2. step \in {"record", "scanDrop"}
    BY <1>3 DEF RecordDrop, ScanDropChange
  <2>3. lossEnd < pos
    BY <1>0, <2>2 DEF EndsArePast, Place
  <2>4. /\ pos' = IF AtGrid THEN pos ELSE pos + 1
        /\ drops' = After(drops, S, pos)
        /\ lossStart' = IF lossOpen THEN lossStart ELSE pos
        /\ lossEnd' = pos
        /\ UNCHANGED <<handed, keeping, tracker>>
    BY <2>1, Dropped DEF Drop
  <2>5. Place' = AfterSample("scanDrop")
    BY <2>1 DEF Drop, Place, AfterSample
  <2>6. Place' \in {"scan", "record", "scanDrop"} => pos < pos'
    BY <1>0, <2>4, <2>5 DEF AfterSample
  <2>7. ASSUME NEW ch \in Channels, NEW i \in 1 .. Len(drops'[ch])
        PROVE  drops'[ch][i] <= pos
    <3> DEFINE a == After(drops, S, pos)[ch]
    <3>1. /\ Len(a) \in Nat /\ Len(a) >= Len(drops[ch]) /\ Len(drops[ch]) \in Nat
          /\ \A k \in 1 .. Len(drops[ch]) : a[k] = drops[ch][k]
          /\ \A k \in 1 .. Len(a) : k > Len(drops[ch]) => a[k] = pos
      <4>1. drops[ch] \in Seq(Nat) /\ drops \in [Channels -> Seq(Nat)] /\ pos \in Nat
        BY <1>0, Typed
      <4>2. Len(drops[ch]) \in Nat
        BY <4>1
      <4> QED BY <4>1, <4>2, AfterDrop
    <3>2. i \in 1 .. Len(a) /\ drops'[ch][i] = a[i]
      BY <2>4, <2>7
    <3>3. \A k \in 1 .. Len(drops[ch]) : drops[ch][k] <= lossEnd /\ drops[ch][k] \in Nat
      BY <1>0, Typed DEF EndsArePast
    <3> HIDE DEF a
    <3> QED BY <1>0, <3>1, <3>2, <3>3
  <2> QED BY <1>0, <2>4, <2>6, <2>7, Typed DEF EndsArePast, handed, keeping, tracker
<1>4. CASE ScanDropEnds
  <2>1. pos' = pos /\ lossEnd < pos
    BY <1>0, <1>4 DEF ScanDropEnds, EndsArePast, Place
  <2> QED BY <1>0, <1>4, <2>1, EndsKept DEF ScanDropEnds, handed, keeping, tracker
<1>5. CASE Heartbeat
  <2>1. pos' = pos + 1 \/ (pos' = pos /\ Place' = "stop")
    BY <1>5 DEF Heartbeat, Place
  <2> QED BY <1>0, <1>5, <2>1, EndsKept DEF Heartbeat, handed, keeping, tracker
<1>6. CASE Flush
  <2>1. Place' = Place /\ pos' = pos
    BY <1>0, <1>6 DEF Flush, Place, PlaceType
  <2> QED BY <1>0, <1>6, <2>1, EndsKept DEF Flush, EndsArePast, handed, keeping, tracker
<1>7. CASE Snap
  <2>1. Place' = Place /\ UNCHANGED <<pos, drops, lossStart, lossEnd, keeping, tracker>>
    BY <1>0, <1>7 DEF Snap, Place, PlaceType
  <2>2. nextStart' \in {nextStart, lossStart} /\ nextEnd' \in {nextEnd, lossEnd}
    BY <1>7 DEF Snap, SnapStart
  <2> QED BY <1>0, <2>1, <2>2, Typed DEF EndsArePast, keeping, tracker
<1>8. CASE KeepingNext \/ Grant \/ HostNext \/ UNCHANGED vars
  <2>0. UNCHANGED cleanup
    BY <1>8 DEF KeepingNext, Ask, Acquired, Semaphore, Amount, Decide, Copy, Release, Grant,
                HostNext, ReadReport, ReadFails, ReadNothing, ReadRefused, vars
  <2>1. /\ UNCHANGED <<pos, lossStart, lossEnd>> /\ Place' = Place
        /\ Place' \in {"scan", "record", "scanDrop"} => lossEnd < pos'
    BY <1>0, <2>0 DEF cleanup, Place, EndsArePast
  <2>2. CASE Ask \/ Acquired \/ Semaphore \/ Amount \/ Release \/ Grant \/ ReadFails
             \/ ReadNothing \/ ReadRefused
    <3>1. UNCHANGED <<drops, nextStart, nextEnd, reportStart, prevEnd, buf>>
      BY <2>2
      DEF Ask, Acquired, Semaphore, Amount, Release, Grant, ReadFails, ReadNothing, ReadRefused,
          handed, keeping, tracker
    <3>2. pos' \in Nat /\ pos' >= pos
      BY <1>0, <2>1
    <3> QED BY <1>0, <2>1, <3>1, <3>2, EndsKept
  <2>3. CASE Decide
    <3>1. CASE MayCopy
      <4>1. /\ reportStart' = MergedStart /\ buf'.end = buf.end
            /\ UNCHANGED <<nextStart, nextEnd, prevEnd, drops>>
        BY <2>3, <3>1, Decided DEF Decide, tracker
      <4>2. MergedStart \in {reportStart, nextStart}
        BY DEF MergedStart
      <4> QED BY <1>0, <2>1, <4>1, <4>2 DEF EndsArePast
    <3>2. CASE ~MayCopy
      BY <1>0, <2>1, <2>3, <3>2, EndsKept DEF Decide, tracker
    <3> QED BY <3>1, <3>2
  <2>4. CASE Copy
    <3>1. /\ buf'.end \in {buf.end, nextEnd}
          /\ UNCHANGED <<nextStart, nextEnd, prevEnd, drops, reportStart>>
      BY <2>4, Copied DEF Copy, tracker
    <3> QED BY <1>0, <2>1, <3>1 DEF EndsArePast
  <2>5. CASE ReadReport
    <3>1. /\ prevEnd' = buf.end
          /\ UNCHANGED <<handed, keeping, drops>>
      BY <2>5, Taken DEF ReadReport
    <3> QED BY <1>0, <2>1, <3>1 DEF EndsArePast, handed, keeping
  <2>6. CASE UNCHANGED vars
    BY <1>0, <2>1, <2>6, EndsKept DEF vars, handed, keeping, tracker
  <2> QED BY <1>8, <2>2, <2>3, <2>4, <2>5, <2>6 DEF KeepingNext, HostNext
<1> QED
  BY <1>1, <1>2, <1>3, <1>4, <1>5, <1>6, <1>7, <1>8 DEF Next, CleanupNext

\* Steps of cleanup that drop nothing and copy nothing: a loss goes on, or is over and has to be
\* handed over, as before.
LEMMA QuietSteps ==
    ASSUME PlaceType,
           ScanQuiet \/ ScanChange \/ Encode \/ ScanDropQuiet \/ ScanDropEnds \/ Heartbeat
    PROVE  /\ Losing' <=> Losing
           /\ ~Ending
           /\ Ending' => ~lossOpen'
           /\ step # "snap" /\ step' # "snap"
           /\ UNCHANGED <<lossStart, lossEnd, lost, snapI, drops, handed, keeping, tracker>>
<1> USE DEF Losing, Ending
<1>1. ASSUME NEW next \in {"scan", "record", "heartbeat"}, EndLoss(next),
             step \notin {"flush", "snap"}
      PROVE  /\ Losing' <=> Losing
             /\ Ending' => ~lossOpen'
             /\ step' # "snap"
  <2>1. lossOpen' = FALSE
    BY <1>1 DEF EndLoss
  <2>2. CASE lossOpen
    BY <1>1, <2>1, <2>2 DEF EndLoss
  <2>3. CASE ~lossOpen
    BY <1>1, <2>1, <2>3 DEF EndLoss
  <2> QED BY <2>2, <2>3
<1>2. CASE ScanQuiet \/ ScanChange \/ ScanDropQuiet
  <2>1. step \in {"scan", "scanDrop"} /\ step' \in {"scan", "record", "scanDrop", "heartbeat"}
    BY <1>2 DEF ScanQuiet, ScanChange, ScanDropQuiet, AfterSample
  <2>2. UNCHANGED <<lossOpen, lossStart, lossEnd, lost, snapI, drops, handed, keeping, tracker>>
    BY <1>2 DEF ScanQuiet, ScanChange, ScanDropQuiet
  <2> QED BY <2>1, <2>2
<1>3. CASE Encode
  <2>1. step = "record"
    BY <1>3 DEF Encode
  <2>2. AfterSample("scan") \in {"scan", "record", "heartbeat"}
    BY DEF AfterSample
  <2>3. EndLoss(AfterSample("scan")) \/ EndLoss("record")
    BY <1>3 DEF Encode
  <2>4. UNCHANGED <<lossStart, lossEnd, lost, snapI, drops, handed, keeping, tracker>>
    BY <1>3 DEF Encode
  <2> QED BY <1>1, <2>1, <2>2, <2>3, <2>4
<1>4. CASE ScanDropEnds
  <2>1. step = "scanDrop"
    BY <1>4 DEF ScanDropEnds
  <2>2. EndLoss("scan") \/ (step' = "scan" /\ UNCHANGED lossOpen)
    BY <1>4 DEF ScanDropEnds
  <2>3. UNCHANGED <<lossStart, lossEnd, lost, snapI, drops, handed, keeping, tracker>>
    BY <1>4 DEF ScanDropEnds
  <2> QED BY <1>1, <2>1, <2>2, <2>3
<1>5. CASE Heartbeat
  <2>1. step = "heartbeat"
    BY <1>5 DEF Heartbeat
  <2>2. EndLoss("scan") \/ (step' \in {"stop", "scanDrop"} /\ UNCHANGED lossOpen)
    BY <1>5 DEF Heartbeat
  <2>3. UNCHANGED <<lossStart, lossEnd, lost, snapI, drops, handed, keeping, tracker>>
    BY <1>5 DEF Heartbeat
  <2> QED BY <1>1, <2>1, <2>2, <2>3
<1> QED BY <1>2, <1>3, <1>4, <1>5

\* A drop opens the loss; a flush that it needs hands nothing over.
LEMMA DropSteps ==
    ASSUME RecordDrop \/ ScanDropChange
    PROVE  /\ \E S : Drop(S)
           /\ step \in {"record", "scanDrop"}
           /\ ~Ending /\ ~Ending' /\ lossOpen' = TRUE
           /\ UNCHANGED <<lost, snapI, handed, keeping, tracker>>
<1>1. PICK S : Drop(S)
  BY DEF RecordDrop, ScanDropChange
<1>2. step \in {"record", "scanDrop"}
  BY DEF RecordDrop, ScanDropChange
<1> QED BY <1>1, <1>2 DEF Drop, Ending, AfterSample

\* A flush leaves every drop in its channel's counter.
LEMMA FlushSteps ==
    ASSUME MarkInv, Flush
    PROVE  /\ AllIn(drops', lost')
           /\ Below(lost, lost')
           /\ snapI' = 0
           /\ lost' \in Counters
           /\ Losing' <=> Losing
           /\ Ending' => ~lossOpen'
           /\ step = "flush"
           /\ UNCHANGED <<lossStart, lossEnd, drops, handed, keeping, tracker>>
<1>1. /\ lost' = [ch \in Channels |-> lost[ch] + slices[ch]]
      /\ snapI' = 0 /\ step = "flush"
      /\ step' = IF flushSnap THEN "snap" ELSE afterFlush
      /\ UNCHANGED <<lossOpen, flushSnap, lossStart, lossEnd, drops, handed, keeping, tracker>>
  BY DEF Flush
<1>2. AllIn(drops', lost')
  BY <1>1 DEF AllIn, MarkInv, CountInv, CountersExact
<1>3. Below(lost, lost') /\ lost' \in Counters
  BY <1>1 DEF Below, MarkInv, CountInv, CountType, Counters
<1>4. afterFlush \in {"scan", "record", "scanDrop", "heartbeat"}
  BY DEF MarkInv, PlaceType
<1>5. Ending => ~lossOpen
  BY DEF MarkInv, Handing
<1>6. CASE flushSnap
  BY <1>1, <1>2, <1>3, <1>5, <1>6 DEF Losing, Ending
<1>7. CASE ~flushSnap
  BY <1>1, <1>2, <1>3, <1>4, <1>7 DEF Losing, Ending
<1> QED BY <1>6, <1>7

\* Some counters are handed over, and with the last ones the range: the loss is then told of.
LEMMA SnapSteps ==
    ASSUME MarkInv, Snap
    PROVE  /\ step = "snap" /\ ~copyBusy /\ ~copyBusy' /\ hk # "copy"
           /\ Ending /\ ~lossOpen /\ ~lossOpen'
           /\ AllIn(drops, lost)
           /\ \A ch \in 0 .. snapI' - 1 : ch \in Channels => nextLost'[ch] = lost[ch]
           /\ UNCHANGED <<lossStart, lossEnd, lost, drops, keeping, tracker>>
           /\ \/ /\ snapBusy' = TRUE /\ step' = "snap"
                 /\ UNCHANGED <<nextStart, nextEnd, nextValid>>
              \/ /\ snapBusy' = FALSE /\ ~Ending' /\ nextValid' = TRUE /\ ~Losing'
                 /\ nextStart' = IF nextValid THEN nextStart ELSE lossStart
                 /\ nextEnd' = lossEnd
                 /\ \A ch \in Channels : nextLost'[ch] = lost[ch]
<1>1. /\ step = "snap" /\ ~copyBusy /\ copyBusy' = copyBusy
      /\ nextLost' = [ch \in Channels |-> IF ch \in snapI .. StepEnd(snapI) - 1 THEN lost[ch]
                                          ELSE nextLost[ch]]
      /\ snapI' = StepEnd(snapI)
      /\ UNCHANGED <<lossOpen, lossStart, lossEnd, lost, drops, keeping, tracker, afterFlush>>
  BY DEF Snap, MaySnap
<1>1a. ~copyBusy'
  BY <1>1
<1>2. Ending /\ ~lossOpen /\ ~lossOpen' /\ hk # "copy" /\ AllIn(drops, lost)
  BY <1>1 DEF MarkInv, Handing, Ending
<1>3. \A ch \in 0 .. snapI' - 1 : ch \in Channels => nextLost'[ch] = lost[ch]
  <2>1. snapI \in Nat /\ StepEnd(snapI) \in Nat
    BY StepEnds DEF MarkInv, ReportType
  <2>2. \A ch \in 0 .. snapI - 1 : nextLost[ch] = lost[ch]
    BY <1>1 DEF MarkInv, Handing
  <2> QED BY <1>1, <2>1, <2>2
<1>4. CASE StepEnd(snapI) < Count
  BY <1>1, <1>1a, <1>2, <1>3, <1>4 DEF Snap
<1>5. CASE ~(StepEnd(snapI) < Count)
  <2>1. snapI' = Count /\ Count \in Nat
    BY <1>1, <1>5, StepEnds, LossAssumption DEF MarkInv, ReportType
  <2>2. \A ch \in Channels : nextLost'[ch] = lost[ch]
    BY <1>3, <2>1 DEF Channels
  <2>3. /\ nextStart' = IF nextValid THEN nextStart ELSE lossStart
        /\ nextEnd' = lossEnd /\ nextValid' = TRUE /\ snapBusy' = FALSE
        /\ step' = afterFlush
    BY <1>5 DEF Snap, SnapStart
  <2>4. ~Ending' /\ ~Losing'
    BY <1>2, <2>3 DEF MarkInv, PlaceType, Ending, Losing
  <2> QED BY <1>1, <1>1a, <1>2, <1>3, <2>2, <2>3, <2>4
<1> QED BY <1>4, <1>5

\* Steps of housekeeping, the slave and the host that take no report and copy none.
AsideNext ==
    \/ Ask \/ Acquired \/ Semaphore \/ Release \/ Grant
    \/ ReadFails \/ ReadNothing \/ ReadRefused
    \/ Decide /\ ~MayCopy
    \/ UNCHANGED vars

LEMMA AsideSteps ==
    ASSUME AsideNext
    PROVE  /\ UNCHANGED <<cleanup, handed, loaded, buf, reportStart, reportSeq, copyI, tracker, drops>>
           /\ hk' = "copy" <=> hk = "copy"
BY DEF AsideNext, Ask, Acquired, Semaphore, Release, Grant, ReadFails, ReadNothing, ReadRefused,
       Decide, vars, cleanup, handed, keeping, tracker

\* The steps, as the rest of the proof takes them.
LEMMA StepKinds ==
    ASSUME [Next]_vars
    PROVE  \/ ScanQuiet \/ ScanChange \/ Encode \/ ScanDropQuiet \/ ScanDropEnds \/ Heartbeat
           \/ RecordDrop \/ ScanDropChange
           \/ Flush
           \/ Snap
           \/ Amount
           \/ Decide /\ MayCopy
           \/ Copy
           \/ ReadReport
           \/ AsideNext
BY DEF Next, CleanupNext, KeepingNext, HostNext, AsideNext

LEMMA HandingInit == Init => Handing
<1> SUFFICES ASSUME Init PROVE Handing
  OBVIOUS
<1>1. /\ copyBusy = FALSE /\ snapBusy = FALSE /\ lossOpen = FALSE /\ flushSnap = FALSE
      /\ loaded = FALSE /\ hk = "poll" /\ step = "heartbeat"
  BY DEF Init
<1> QED BY <1>1 DEF Handing, Ending

\* The counters that were copied from the ones handed over go on being them.
LEMMA HandingStep == ASSUME TicksFit, MarkInv, [Next]_vars PROVE Handing'
<1>0. Handing /\ PlaceType
  BY DEF MarkInv
<1>1. CASE ScanQuiet \/ ScanChange \/ Encode \/ ScanDropQuiet \/ ScanDropEnds \/ Heartbeat
  <2>1. /\ Ending' => ~lossOpen'
        /\ step # "snap" /\ step' # "snap"
        /\ UNCHANGED <<handed, keeping>>
    BY <1>0, <1>1, QuietSteps
  <2> QED BY <1>0, <2>1 DEF Handing, handed, keeping
<1>2. CASE RecordDrop \/ ScanDropChange
  <2>1. /\ ~Ending' /\ step # "snap" /\ UNCHANGED <<handed, keeping>>
    BY <1>2, DropSteps
  <2>2. step' # "snap"
    BY <2>1 DEF Ending
  <2> QED BY <1>0, <2>1, <2>2 DEF Handing, handed, keeping
<1>3. CASE Flush
  <2>1. /\ AllIn(drops', lost') /\ snapI' = 0 /\ (Ending' => ~lossOpen') /\ step = "flush"
        /\ UNCHANGED <<handed, keeping>>
    BY <1>3, FlushSteps
  <2>2. snapBusy' = snapBusy /\ ~snapBusy
    BY <1>0, <2>1 DEF Handing, handed
  <2>3. \A ch \in 0 .. snapI' - 1 : nextLost'[ch] = lost'[ch]
    BY <2>1
  <2> QED BY <1>0, <2>1, <2>2, <2>3 DEF Handing, handed, keeping
<1>4. CASE Snap
  <2>1. \A ch \in 0 .. snapI' - 1 : ch \in Channels
    <3>1. snapI' \in 0 .. Count
      BY <1>4, StepEnds DEF Snap, MarkInv, ReportType
    <3>2. Count \in Nat
      BY LossAssumption
    <3>3. \A n \in 0 .. Count : \A ch \in 0 .. n - 1 : ch \in 0 .. Count - 1
      BY <3>2
    <3> QED BY <3>1, <3>3 DEF Channels
  <2>2. /\ ~copyBusy' /\ hk # "copy" /\ hk' = hk
        /\ AllIn(drops', lost')
        /\ \A ch \in 0 .. snapI' - 1 : nextLost'[ch] = lost'[ch]
        /\ UNCHANGED keeping
        /\ snapBusy' => step' = "snap"
        /\ ~lossOpen'
    BY <1>4, <2>1, SnapSteps DEF keeping
  <2> QED BY <1>0, <2>2 DEF Handing, keeping
<1>5. CASE Amount
  <2>1. /\ UNCHANGED <<cleanup, handed, drops, buf, reportStart, copyI>>
        /\ hk = "amount" /\ hk' = "decide"
    BY <1>5 DEF Amount
  <2>2. loaded
    BY <2>1 DEF MarkInv, SeqInv, WaitingIsNext
  <2> QED BY <1>0, <2>1, <2>2 DEF Handing, Ending, cleanup, handed
<1>6. CASE Decide /\ MayCopy
  <2>1. /\ UNCHANGED <<cleanup, drops, snapBusy>>
        /\ copyBusy' = TRUE /\ nextValid' = FALSE /\ copyI' = 0 /\ hk' = "copy"
        /\ reportStart' = MergedStart /\ buf'.start = MergedStart
        /\ UNCHANGED nextLost
    BY <1>6, Decided DEF Decide
  <2>2. ~snapBusy
    BY <1>6 DEF MayCopy
  <2>3. \A ch \in 0 .. copyI' - 1 : buf'.lost[ch] = nextLost'[ch]
    BY <2>1
  <2> QED BY <1>0, <2>1, <2>2, <2>3 DEF Handing, Ending, cleanup
<1>7. CASE Copy
  <2>1. /\ hk = "copy"
        /\ UNCHANGED <<cleanup, drops, nextValid, snapBusy, nextEnd, nextLost, reportStart>>
        /\ copyI' = StepEnd(copyI)
        /\ \/ UNCHANGED <<hk, copyBusy>>
           \/ hk' = "release" /\ copyBusy' = FALSE
    BY <1>7 DEF Copy
  <2>2. copyI \in Nat /\ StepEnd(copyI) \in 0 .. Count /\ Count \in Nat
    BY StepEnds, LossAssumption DEF MarkInv, ReportType
  <2>3. /\ buf'.start = buf.start
        /\ buf'.end = IF copyI = 0 THEN nextEnd ELSE buf.end
        /\ \A ch \in Channels :
              buf'.lost[ch] = IF ch \in copyI .. StepEnd(copyI) - 1 THEN nextLost[ch]
                              ELSE buf.lost[ch]
    BY <1>7, Copied
  <2>4. /\ \A ch \in 0 .. copyI - 1 : buf.lost[ch] = nextLost[ch]
        /\ copyI # 0 => buf.end = nextEnd
        /\ buf.start = reportStart
    BY <1>0, <2>1 DEF Handing
  <2>5. \A ch \in 0 .. copyI' - 1 : buf'.lost[ch] = nextLost[ch]
    BY <2>1, <2>2, <2>3, <2>4 DEF Channels
  <2>6. buf'.end = nextEnd /\ buf'.start = reportStart
    BY <2>3, <2>4
  <2> QED BY <1>0, <2>1, <2>5, <2>6 DEF Handing, Ending, cleanup
<1>8. CASE ReadReport
  BY <1>0, <1>8 DEF ReadReport, Handing, Ending, cleanup, handed, keeping
<1>9. CASE AsideNext
  BY <1>0, <1>9, AsideSteps DEF Handing, Ending, cleanup, handed
<1> QED BY <1>1, <1>2, <1>3, <1>4, <1>5, <1>6, <1>7, <1>8, <1>9, StepKinds

-----------------------------------------------------------------------------
(* The counters. *)

\* With the last counters copied, the report's are the ones handed over.
LEMMA CopySteps ==
    ASSUME TicksFit, MarkInv, Copy
    PROVE  /\ hk = "copy" /\ ~snapBusy /\ ~nextValid
           /\ UNCHANGED <<cleanup, nextValid, snapBusy, nextStart, nextEnd, nextLost, reportSeq,
                          reportStart, tracker, drops>>
           /\ \A ch \in Channels : buf'.lost[ch] \in {buf.lost[ch], nextLost[ch]}
           /\ \/ hk' = "copy" /\ loaded' = loaded
              \/ /\ hk' = "release" /\ loaded' = TRUE
                 /\ buf'.lost = nextLost /\ buf'.end = nextEnd
<1>1. /\ hk = "copy" /\ copyI' = StepEnd(copyI)
      /\ UNCHANGED <<cleanup, nextValid, snapBusy, nextStart, nextEnd, nextLost, reportSeq,
                     reportStart, tracker, drops>>
  BY DEF Copy
<1>2. ~snapBusy /\ ~nextValid
  BY <1>1 DEF MarkInv, Handing
<1>3. \A ch \in Channels : buf'.lost[ch] \in {buf.lost[ch], nextLost[ch]}
  BY Copied
<1>4. CASE StepEnd(copyI) < Count
  BY <1>1, <1>2, <1>3, <1>4 DEF Copy
<1>5. CASE ~(StepEnd(copyI) < Count)
  <2>1. hk' = "release" /\ loaded' = TRUE
    BY <1>5 DEF Copy
  <2>2. copyI' = Count /\ Count \in Nat \ {0}
    BY <1>1, <1>5, StepEnds, LossAssumption DEF MarkInv, ReportType
  <2>3. Handing' /\ ReportType'
    BY HandingStep, ReportStep DEF Next, KeepingNext
  <2>4. buf'.end = nextEnd
    BY <1>1, <1>2, <2>2, Copied DEF MarkInv, Handing
  <2>5. ASSUME NEW ch \in Channels PROVE buf'.lost[ch] = nextLost[ch]
    <3>1. copyI \in Nat /\ StepEnd(copyI) = Count
      BY <1>1, <2>2 DEF MarkInv, ReportType
    <3>2. ch \in 0 .. Count - 1
      BY DEF Channels
    <3>3. \A c \in 0 .. copyI - 1 : buf.lost[c] = nextLost[c]
      BY <1>1 DEF MarkInv, Handing
    <3>4. buf'.lost[ch] = IF ch \in copyI .. StepEnd(copyI) - 1 THEN nextLost[ch] ELSE buf.lost[ch]
      BY Copied
    <3> QED BY <2>2, <3>1, <3>2, <3>3, <3>4
  <2>6. buf'.lost \in Counters /\ nextLost \in Counters
    BY <2>3 DEF ReportType, MarkInv
  <2>7. buf'.lost = nextLost
    BY <2>5, <2>6 DEF Counters
  <2> QED BY <1>1, <1>2, <1>3, <2>1, <2>4, <2>7
<1> QED BY <1>4, <1>5

LEMMA BelowBoth ==
    ASSUME NEW k \in Counters, NEW l \in Counters, NEW m \in Counters, Below(k, l), Below(l, m)
    PROVE  Below(k, m)
<1> SUFFICES ASSUME NEW ch \in Channels PROVE k[ch] <= m[ch]
  BY DEF Below
<1>1. k[ch] \in Nat /\ l[ch] \in Nat /\ m[ch] \in Nat
  BY DEF Counters
<1>2. k[ch] <= l[ch] /\ l[ch] <= m[ch]
  BY DEF Below
<1> QED BY <1>1, <1>2

LEMMA CountedInit == Init => Counted
<1> SUFFICES ASSUME Init PROVE Counted
  OBVIOUS
<1>1. /\ snapBusy = FALSE /\ nextValid = FALSE /\ loaded = FALSE /\ havePrev = FALSE /\ hk = "poll"
      /\ nextLost = [ch \in Channels |-> 0] /\ last = [ch \in Channels |-> 0]
      /\ lost = [ch \in Channels |-> 0] /\ buf.lost = [ch \in Channels |-> 0]
  BY DEF Init
<1> QED BY <1>1 DEF Counted, NextWhole, BufWhole, Below

\* Whole counters stay right for their ends: a drop comes after all of them, and the counters that
\* are handed over take in every drop.
LEMMA CountedStep == ASSUME TicksFit, MarkInv, [Next]_vars PROVE Counted'
<1> USE DEF NextWhole, BufWhole
<1>0. Counted
  BY DEF MarkInv
<1>1. CASE UNCHANGED <<drops, lost, handed, loaded, buf, tracker>> /\ (hk' = "copy" <=> hk = "copy")
  BY <1>0, <1>1 DEF Counted, handed, tracker
<1>2. CASE ScanQuiet \/ ScanChange \/ Encode \/ ScanDropQuiet \/ ScanDropEnds \/ Heartbeat
  <2>1. UNCHANGED <<drops, lost, handed, keeping, tracker>>
    BY <1>2, QuietSteps DEF MarkInv
  <2> QED BY <1>1, <2>1 DEF keeping
<1>3. CASE RecordDrop \/ ScanDropChange
  <2>1. /\ step \in {"record", "scanDrop"}
        /\ UNCHANGED <<lost, handed, keeping, tracker>>
    BY <1>3, DropSteps
  <2>2. PICK S : Drop(S)
    BY <1>3, DropSteps
  <2>3. drops' = After(drops, S, pos)
    BY <2>2, Dropped
  <2>4. nextEnd < pos /\ buf.end < pos /\ prevEnd < pos
    <3>1. lossEnd < pos
      BY <2>1 DEF MarkInv, EndsArePast, Place
    <3> QED BY <3>1, Typed DEF MarkInv, EndsArePast
  <2>5. /\ Upto(drops, nextLost, nextEnd) => Upto(drops', nextLost, nextEnd)
        /\ Upto(drops, buf.lost, buf.end) => Upto(drops', buf.lost, buf.end)
        /\ Upto(drops, last, prevEnd) => Upto(drops', last, prevEnd)
    BY <2>3, <2>4, Typed, UptoAfter
  <2> QED BY <1>0, <2>1, <2>5 DEF Counted, handed, keeping, tracker
<1>4. CASE Flush
  <2>1. Below(lost, lost') /\ lost' \in Counters /\ UNCHANGED <<drops, handed, keeping, tracker>>
    BY <1>4, FlushSteps
  <2>2. Below(nextLost, lost') /\ Below(buf.lost, lost') /\ Below(last, lost')
    <3>1. Below(nextLost, lost) /\ Below(buf.lost, lost) /\ Below(last, lost)
      BY <1>0 DEF Counted
    <3>2. /\ nextLost \in Counters /\ buf.lost \in Counters /\ last \in Counters /\ lost \in Counters
      BY Typed
    <3> QED BY <2>1, <3>1, <3>2, BelowBoth
  <2> QED BY <1>0, <2>1, <2>2 DEF Counted, handed, keeping, tracker
<1>5. CASE Snap
  <2>1. /\ hk # "copy" /\ AllIn(drops, lost)
        /\ UNCHANGED <<lossEnd, lost, drops, keeping, tracker>>
    BY <1>5, SnapSteps
  <2>2. Below(nextLost', lost)
    <3>1. \A ch \in Channels : nextLost'[ch] \in {lost[ch], nextLost[ch]}
      BY <1>5 DEF Snap
    <3>2. \A ch \in Channels : nextLost[ch] <= lost[ch]
      BY <1>0 DEF Counted, Below
    <3>3. \A ch \in Channels : lost[ch] \in Nat
      BY Typed DEF Counters
    <3> QED BY <3>1, <3>2, <3>3 DEF Below
  <2>3. CASE snapBusy'
    BY <1>0, <2>1, <2>2, <2>3 DEF Counted, keeping, tracker
  <2>4. CASE ~snapBusy'
    <3>1. /\ nextEnd' = lossEnd
          /\ \A ch \in Channels : nextLost'[ch] = lost[ch]
      BY <1>5, <2>4, SnapSteps
    <3>2. nextLost' \in Counters
      BY <1>5, ReportStep DEF Next, CleanupNext, ReportType
    <3>3. nextLost' = lost
      BY <3>1, <3>2, Typed DEF Counters
    <3>4. Upto(drops, lost, lossEnd)
      BY <2>1, Typed, AllUpto DEF MarkInv, EndsArePast
    <3>5. Below(last, lost) /\ Below(buf.lost, lost)
      BY <1>0 DEF Counted
    <3> QED BY <1>0, <2>1, <2>2, <3>1, <3>3, <3>4, <3>5 DEF Counted, keeping, tracker
  <2> QED BY <2>3, <2>4
<1>6. CASE Amount
  <2>1. /\ UNCHANGED <<cleanup, handed, buf, tracker, drops>>
        /\ loaded' => loaded
        /\ hk # "copy" /\ hk' # "copy"
    <3>1. hk = "amount" /\ hk' = "decide" /\ UNCHANGED <<cleanup, handed, buf, tracker, drops>>
      BY <1>6 DEF Amount
    <3>2. loaded
      BY <3>1 DEF MarkInv, SeqInv, WaitingIsNext
    <3> QED BY <3>1, <3>2
  <2> QED BY <1>0, <2>1 DEF Counted, cleanup, handed, tracker
<1>7. CASE Decide /\ MayCopy
  <2>1. /\ UNCHANGED <<cleanup, snapBusy, nextEnd, nextLost, tracker, drops>>
        /\ hk' = "copy" /\ nextValid /\ ~snapBusy
        /\ buf'.lost = buf.lost
    BY <1>7, Decided DEF Decide, MayCopy
  <2> QED BY <1>0, <2>1 DEF Counted, cleanup, tracker
<1>8. CASE Copy
  <2>1. /\ hk = "copy" /\ ~snapBusy /\ ~nextValid
        /\ UNCHANGED <<cleanup, nextValid, snapBusy, nextEnd, nextLost, tracker, drops>>
        /\ \A ch \in Channels : buf'.lost[ch] \in {buf.lost[ch], nextLost[ch]}
    BY <1>8, CopySteps
  <2>2. Below(buf'.lost, lost)
    BY <1>0, <2>1 DEF Counted, Below
  <2>3. CASE hk' = "copy"
    BY <1>0, <2>1, <2>2, <2>3 DEF Counted, cleanup, tracker
  <2>4. CASE hk' = "release" /\ buf'.lost = nextLost /\ buf'.end = nextEnd
    BY <1>0, <2>1, <2>2, <2>4 DEF Counted, cleanup, tracker
  <2> QED BY <1>8, <2>3, <2>4, CopySteps
<1>9. CASE ReadReport
  <2>1. BufWhole
    BY <1>9 DEF ReadReport, TransactionEnds, MarkInv, SeqInv, SlaveHolds
  <2>2. /\ last' = buf.lost /\ prevEnd' = buf.end
        /\ UNCHANGED <<cleanup, handed, keeping, drops>>
    BY <1>9, Taken DEF ReadReport
  <2>3. Below(buf.lost, buf.lost)
    BY Typed DEF Below, Counters
  <2> QED BY <1>0, <2>1, <2>2, <2>3 DEF Counted, cleanup, handed, keeping
<1>10. CASE AsideNext
  <2>1. UNCHANGED <<drops, lost, handed, loaded, buf, tracker>> /\ (hk' = "copy" <=> hk = "copy")
    BY <1>10, AsideSteps DEF cleanup
  <2> QED BY <1>1, <2>1
<1> QED
  BY <1>2, <1>3, <1>4, <1>5, <1>6, <1>7, <1>8, <1>9, <1>10, StepKinds

-----------------------------------------------------------------------------
(* The starts. *)

LEMMA CoverInit == Init => StartsCover
<1> SUFFICES ASSUME Init PROVE StartsCover
  OBVIOUS
<1>1. /\ snapBusy = FALSE /\ nextValid = FALSE /\ loaded = FALSE /\ hk = "poll"
      /\ nextSeq = 0 /\ reportSeq = 0 /\ lossOpen = FALSE /\ step = "heartbeat"
      /\ AllIn(drops, last)
  BY DEF Init, AllIn
<1> QED
  BY <1>1 DEF StartsCover, NextWhole, BufWhole, InRest, InLoss, Losing, Ending

\* What counters leave out goes on being in the loss, or in what follows them.
LEMMA RestSteps ==
    ASSUME TicksFit, MarkInv, NEW l \in Counters,
           \/ ScanQuiet \/ ScanChange \/ Encode \/ ScanDropQuiet \/ ScanDropEnds \/ Heartbeat
           \/ RecordDrop \/ ScanDropChange
           \/ Flush
    PROVE  /\ InLoss(l) => InLoss(l)'
           /\ InRest(l) => InRest(l)'
<1>1. CASE /\ Losing' <=> Losing
           /\ UNCHANGED <<lossStart, drops, handed>>
  BY <1>1 DEF InLoss, InRest, handed
<1>2. CASE ScanQuiet \/ ScanChange \/ Encode \/ ScanDropQuiet \/ ScanDropEnds \/ Heartbeat
  BY <1>1, <1>2, QuietSteps DEF MarkInv
<1>3. CASE Flush
  BY <1>1, <1>3, FlushSteps
<1>4. CASE RecordDrop \/ ScanDropChange
  <2>1. PICK S : Drop(S)
    BY <1>4, DropSteps
  <2>2. /\ drops' = After(drops, S, pos)
        /\ lossStart' = IF lossOpen THEN lossStart ELSE pos
    BY <2>1, Dropped
  <2>3. /\ Losing' /\ (Losing => lossOpen)
        /\ UNCHANGED <<nextValid, nextStart>>
    BY <1>4, DropSteps DEF Losing, handed
  <2>4. lossStart <= pos /\ nextStart <= pos
    BY Typed DEF MarkInv, EndsArePast
  <2>5. ASSUME InLoss(l) PROVE From(drops', l, lossStart')
    <3>1. CASE lossOpen
      <4>1. From(drops, l, lossStart)
        BY <2>5, <3>1 DEF InLoss, Losing
      <4> QED BY <2>2, <2>4, <3>1, <4>1, Typed, FromAfter
    <3>2. CASE ~lossOpen
      <4>1. AllIn(drops, l)
        BY <2>3, <2>5, <3>2 DEF InLoss
      <4> QED BY <2>2, <3>2, <4>1, Typed, NewLoss
    <3> QED BY <3>1, <3>2
  <2>6. ASSUME From(drops, l, nextStart) PROVE From(drops', l, nextStart)
    BY <2>2, <2>4, <2>6, Typed, FromAfter
  <2> QED BY <2>3, <2>5, <2>6 DEF InLoss, InRest
<1> QED BY <1>2, <1>3, <1>4

\* When a loss is handed over, its start covers what was in it.
LEMMA RestSnap ==
    ASSUME MarkInv, NEW l \in Counters, Snap
    PROVE  InRest(l) => InRest(l)'
<1>1. Losing /\ UNCHANGED <<lossStart, drops>>
  BY SnapSteps DEF Losing
<1>2. CASE step' = "snap" /\ UNCHANGED <<nextStart, nextValid>>
  <2>1. Losing'
    BY <1>2 DEF Losing, Ending
  <2> QED BY <1>1, <1>2, <2>1 DEF InRest, InLoss
<1>3. CASE nextValid' = TRUE /\ nextStart' = IF nextValid THEN nextStart ELSE lossStart
  BY <1>1, <1>3 DEF InRest, InLoss
<1> QED BY <1>2, <1>3, SnapSteps

LEMMA CoverStep == ASSUME TicksFit, MarkInv, [Next]_vars PROVE StartsCover'
<1> USE DEF NextWhole, BufWhole
<1>0. /\ StartsCover
      /\ nextLost \in Counters /\ buf.lost \in Counters /\ last \in Counters
      /\ nextSeq \in Nat /\ reportSeq \in Nat
  BY Typed DEF MarkInv
<1>1. CASE \/ ScanQuiet \/ ScanChange \/ Encode \/ ScanDropQuiet \/ ScanDropEnds \/ Heartbeat
           \/ RecordDrop \/ ScanDropChange
           \/ Flush
  <2>1. UNCHANGED <<handed, keeping, tracker>>
    BY <1>1, QuietSteps, DropSteps, FlushSteps DEF MarkInv
  <2>2. ASSUME From(drops, last, reportStart) PROVE From(drops', last, reportStart)
    <3>1. CASE RecordDrop \/ ScanDropChange
      <4>1. PICK S : Drop(S)
        BY <3>1, DropSteps
      <4>2. drops' = After(drops, S, pos)
        BY <4>1, Dropped
      <4>3. reportStart <= pos
        BY Typed DEF MarkInv, EndsArePast
      <4> QED BY <2>2, <4>2, <4>3, Typed, FromAfter
    <3>2. CASE drops' = drops
      BY <2>2, <3>2
    <3> QED BY <1>1, <3>1, <3>2, QuietSteps, FlushSteps DEF MarkInv
  <2>3. /\ InLoss(nextLost) => InLoss(nextLost)'
        /\ InRest(buf.lost) => InRest(buf.lost)'
        /\ InRest(last) => InRest(last)'
    <3>1. \A l \in Counters : (InLoss(l) => InLoss(l)') /\ (InRest(l) => InRest(l)')
      BY <1>1, RestSteps
    <3> QED BY <1>0, <2>1, <3>1 DEF InLoss, InRest, handed, keeping, tracker
  <2> QED BY <1>0, <2>1, <2>2, <2>3 DEF StartsCover, handed, keeping, tracker
<1>2. CASE Snap
  <2>1. UNCHANGED <<drops, keeping, tracker>> /\ hk # "copy"
    BY <1>2, SnapSteps
  <2>2. /\ InRest(buf.lost) => InRest(buf.lost)'
        /\ InRest(last) => InRest(last)'
    <3>1. \A l \in Counters : InRest(l) => InRest(l)'
      BY <1>2, RestSnap
    <3> QED BY <1>0, <2>1, <3>1 DEF InLoss, InRest, keeping, tracker
  <2>3. ~snapBusy' => InLoss(nextLost)'
    <3>1. ~snapBusy' => ~Losing' /\ \A ch \in Channels : nextLost'[ch] = lost[ch]
      BY <1>2, SnapSteps
    <3>2. AllIn(drops, lost)
      BY <1>2, SnapSteps
    <3> QED BY <2>1, <3>1, <3>2 DEF InLoss, AllIn
  <2> QED BY <1>0, <2>1, <2>2, <2>3 DEF StartsCover, keeping, tracker
<1>3. CASE /\ UNCHANGED <<cleanup, drops, handed, loaded, buf, reportStart, reportSeq, tracker>>
           /\ hk' = "copy" <=> hk = "copy"
  BY <1>0, <1>3
  DEF StartsCover, InRest, InLoss, Losing, Ending, cleanup, handed, tracker
<1>4. CASE Amount
  <2>1. /\ hk = "amount" /\ hk' = "decide"
        /\ UNCHANGED <<cleanup, handed, buf, reportStart, tracker, drops>>
    BY <1>4 DEF Amount
  <2>2. loaded /\ (nextSeq <= reportSeq \/ nextSeq = reportSeq + 1)
    BY <2>1 DEF MarkInv, SeqInv, WaitingIsNext, HostAhead
  <2>3. CASE Sent
    <3>1. reportSeq' = reportSeq + 1 /\ loaded' = FALSE
      BY <1>4, <2>3 DEF Amount
    <3>2. nextSeq = reportSeq + 1 => InRest(last)
      BY <1>0 DEF StartsCover
    <3>3. InRest(last) => InRest(last)'
      BY <2>1 DEF InRest, InLoss, Losing, Ending, cleanup, handed, tracker
    <3>4. InLoss(nextLost) => InLoss(nextLost)'
      BY <2>1 DEF InLoss, Losing, Ending, cleanup, handed, tracker
    <3> QED BY <1>0, <2>1, <2>2, <3>1, <3>2, <3>3, <3>4 DEF StartsCover, cleanup, handed, tracker
  <2>4. CASE ~Sent
    <3>1. reportSeq' = reportSeq /\ loaded'
      BY <1>4, <2>4 DEF Amount
    <3> QED BY <1>0, <2>1, <2>2, <3>1
            DEF StartsCover, InRest, InLoss, Losing, Ending, cleanup, handed, tracker
  <2> QED BY <2>3, <2>4
<1>5. CASE Decide /\ MayCopy
  <2>1. /\ hk = "decide" /\ hk' = "copy" /\ nextValid /\ ~snapBusy
        /\ reportStart' = MergedStart
        /\ UNCHANGED <<cleanup, snapBusy, nextLost, reportSeq, loaded, tracker, drops>>
    BY <1>5 DEF Decide, MayCopy
  <2>2. nextSeq <= reportSeq
    BY <2>1 DEF MarkInv, SeqInv, HostAhead
  <2>3. InLoss(nextLost)'
    <3>1. InLoss(nextLost)
      BY <1>0, <2>1 DEF StartsCover
    <3> QED BY <2>1, <3>1 DEF InLoss, Losing, Ending, cleanup
  <2>4. nextSeq = reportSeq => From(drops, last, MergedStart)
    BY <1>0, <2>1 DEF StartsCover, InRest, MergedStart
  <2> QED BY <1>0, <2>1, <2>2, <2>3, <2>4 DEF StartsCover, tracker
<1>6. CASE Copy
  <2>1. /\ hk = "copy" /\ ~snapBusy /\ ~nextValid
        /\ UNCHANGED <<cleanup, nextValid, snapBusy, nextStart, nextEnd, nextLost, reportSeq,
                       reportStart, tracker, drops>>
    BY <1>6, CopySteps
  <2>2. nextSeq <= reportSeq
    BY <2>1 DEF MarkInv, SeqInv, HostAhead
  <2>3. InLoss(nextLost)
    BY <1>0, <2>1 DEF StartsCover
  <2>4. CASE hk' = "copy"
    <3>1. InLoss(nextLost)'
      BY <2>1, <2>3 DEF InLoss, Losing, Ending, cleanup
    <3> QED BY <1>0, <2>1, <2>2, <2>4, <3>1 DEF StartsCover, tracker
  <2>5. CASE hk' = "release" /\ loaded' = TRUE /\ buf'.lost = nextLost
    <3>1. InRest(buf.lost)'
      BY <2>1, <2>3, <2>5 DEF InRest, InLoss, Losing, Ending, cleanup
    <3> QED BY <1>0, <2>1, <2>2, <2>5, <3>1 DEF StartsCover, tracker
  <2> QED BY <1>6, <2>4, <2>5, CopySteps
<1>7. CASE ReadReport
  <2>1. BufWhole /\ buf.seq = reportSeq
    BY <1>7 DEF ReadReport, TransactionEnds, MarkInv, SeqInv, SlaveHolds, WaitingIsNext
  <2>2. /\ last' = buf.lost /\ nextSeq' = reportSeq + 1
        /\ UNCHANGED <<cleanup, handed, keeping, drops>>
    BY <1>7, <2>1, Taken DEF ReadReport
  <2>3. InRest(buf.lost)
    BY <1>0, <2>1 DEF StartsCover
  <2>4. InRest(buf.lost)' /\ InRest(last)'
    BY <2>2, <2>3 DEF InRest, InLoss, Losing, Ending, cleanup, handed, keeping
  <2>5. InLoss(nextLost) => InLoss(nextLost)'
    BY <2>2 DEF InLoss, Losing, Ending, cleanup, handed
  <2> QED BY <1>0, <2>2, <2>4, <2>5 DEF StartsCover, handed, keeping
<1>8. CASE AsideNext
  BY <1>3, <1>8, AsideSteps
<1> QED BY <1>1, <1>2, <1>4, <1>5, <1>6, <1>7, <1>8, StepKinds

-----------------------------------------------------------------------------
(* The marks. *)

LEMMA MarksInit == Init => MarksExact
<1> SUFFICES ASSUME Init PROVE MarksExact
  OBVIOUS
<1>1. /\ havePrev = FALSE /\ marks = {}
      /\ \A ch \in Channels : last[ch] = 0
  BY DEF Init
<1> QED BY <1>1 DEF MarksExact, ReportExact, CountedIsMarked, MarkedIsLost

\* What the host has counted is a part of the drops.
LEMMA LastIsDrop ==
    ASSUME MarkInv
    PROVE  \A ch \in Channels : /\ last[ch] \in Nat /\ buf.lost[ch] \in Nat
                                /\ Len(drops[ch]) \in Nat
                                /\ last[ch] <= Len(drops[ch])
<1> SUFFICES ASSUME NEW ch \in Channels
             PROVE  /\ last[ch] \in Nat /\ buf.lost[ch] \in Nat
                    /\ Len(drops[ch]) \in Nat
                    /\ last[ch] <= Len(drops[ch])
  OBVIOUS
<1>1. last[ch] \in Nat /\ buf.lost[ch] \in Nat /\ lost[ch] \in Nat
  BY Typed DEF Counters
<1>2. drops[ch] \in Seq(Nat) /\ slices[ch] \in Nat
  BY DEF MarkInv, CountInv, CountType
<1>3. last[ch] <= lost[ch] /\ lost[ch] + slices[ch] = Len(drops[ch])
  BY DEF MarkInv, Counted, Below, CountInv, CountersExact
<1> QED BY <1>1, <1>2, <1>3

\* A drop that a report counts first is in the range the host marks for it.
LEMMA InRange ==
    ASSUME TicksFit, MarkInv, ReadReport,
           NEW ch \in Channels, NEW i \in 1 .. Len(drops[ch]), last[ch] < i, i <= buf.lost[ch]
    PROVE  drops[ch][i] \in RangeStart .. buf.end
<1>1. BufWhole /\ buf.seq = reportSeq /\ loaded
  BY DEF ReadReport, TransactionEnds, MarkInv, SeqInv, SlaveHolds, WaitingIsNext, BufWhole
<1>2. last[ch] \in Nat /\ buf.lost[ch] \in Nat /\ drops[ch][i] \in Nat /\ i \in Nat
  <2>1. drops[ch] \in Seq(Nat)
    BY Typed
  <2>2. drops[ch][i] \in Nat
    BY <2>1
  <2> QED BY <2>2, LastIsDrop
<1>3. RangeStart \in Nat /\ buf.end \in Nat /\ prevEnd \in Nat
  BY Taken, Typed
<1>4. drops[ch][i] <= buf.end
  BY <1>1 DEF MarkInv, Counted, Upto
<1>5. RangeStart <= drops[ch][i]
  <2>1. CASE buf.seq = nextSeq
    <3>1. From(drops, last, reportStart)
      BY <1>1, <2>1 DEF MarkInv, StartsCover
    <3>2. buf.start = reportStart
      BY <1>1 DEF MarkInv, Handing
    <3> QED BY <1>2, <2>1, <3>1, <3>2 DEF From, RangeStart
  <2>2. CASE buf.seq # nextSeq /\ havePrev
    <3>1. i <= last[ch] <=> drops[ch][i] <= prevEnd
      BY <2>2 DEF MarkInv, Counted, Upto
    <3> QED BY <1>2, <1>3, <2>2, <3>1 DEF RangeStart
  <2>3. CASE buf.seq # nextSeq /\ ~havePrev
    BY <1>2, <2>3 DEF RangeStart
  <2> QED BY <2>1, <2>2, <2>3
<1> QED BY <1>2, <1>3, <1>4, <1>5

\* The host marks what a report counts first, and nothing else.
LEMMA ReadMarks ==
    ASSUME TicksFit, MarkInv, ReadReport
    PROVE  (CountedIsMarked /\ MarkedIsLost)'
<1>1. /\ last' = buf.lost
      /\ marks' = marks \cup {[ch |-> ch, start |-> RangeStart, end |-> buf.end] : ch \in Risen}
      /\ drops' = drops
  BY Taken DEF ReadReport
<1>2. /\ \A ch \in Channels : last[ch] <= buf.lost[ch] /\ buf.lost[ch] <= Len(drops[ch])
  BY DEF ReadReport, TransactionEnds, MarkInv, SeqInv, SlaveHolds, BufWhole, Counted, Upto, Below
<1>3. ASSUME NEW ch \in Channels, NEW i \in 1 .. buf.lost[ch]
      PROVE  \E m \in marks' : m.ch = ch /\ drops[ch][i] \in m.start .. m.end
  <2>1. last[ch] \in Nat /\ buf.lost[ch] \in Nat /\ Len(drops[ch]) \in Nat
    BY LastIsDrop
  <2>2. CASE i <= last[ch]
    <3>1. PICK m \in marks : m.ch = ch /\ drops[ch][i] \in m.start .. m.end
      BY <2>1, <2>2 DEF MarkInv, MarksExact, CountedIsMarked
    <3> QED BY <1>1, <3>1
  <2>3. CASE ~(i <= last[ch])
    <3> DEFINE m == [ch |-> ch, start |-> RangeStart, end |-> buf.end]
    <3>1. last[ch] < i /\ i \in 1 .. Len(drops[ch]) /\ i <= buf.lost[ch]
      BY <1>2, <2>1, <2>3
    <3>2. drops[ch][i] \in RangeStart .. buf.end
      BY <3>1, InRange
    <3>3. ch \in Risen
      BY <2>1, <3>1 DEF Risen
    <3>4. m \in marks'
      BY <1>1, <3>3
    <3>5. m.ch = ch /\ m.start = RangeStart /\ m.end = buf.end
      OBVIOUS
    <3> HIDE DEF m
    <3> QED BY <3>2, <3>4, <3>5
  <2> QED BY <2>2, <2>3
<1>4. ASSUME NEW m \in marks'
      PROVE  \E i \in 1 .. Len(drops[m.ch]) : drops[m.ch][i] \in m.start .. m.end
  <2>1. CASE m \in marks
    BY <2>1 DEF MarkInv, MarksExact, MarkedIsLost
  <2>2. CASE m \notin marks
    <3>1. PICK ch \in Risen : m = [ch |-> ch, start |-> RangeStart, end |-> buf.end]
      BY <1>1, <2>2
    <3>2. m.ch = ch /\ m.start = RangeStart /\ m.end = buf.end
      BY <3>1
    <3>3. ch \in Channels /\ buf.lost[ch] # last[ch]
      BY DEF Risen
    <3>4. last[ch] \in Nat /\ buf.lost[ch] \in Nat /\ Len(drops[ch]) \in Nat
      BY <3>3, LastIsDrop
    <3>5. /\ last[ch] + 1 \in 1 .. Len(drops[ch])
          /\ last[ch] < last[ch] + 1 /\ last[ch] + 1 <= buf.lost[ch]
      BY <1>2, <3>3, <3>4
    <3>6. drops[ch][last[ch] + 1] \in RangeStart .. buf.end
      BY <3>3, <3>5, InRange
    <3> QED BY <3>2, <3>5, <3>6
  <2> QED BY <2>1, <2>2
<1>5. CountedIsMarked'
  BY <1>1, <1>3 DEF CountedIsMarked
<1>6. MarkedIsLost'
  BY <1>1, <1>4 DEF MarkedIsLost
<1> QED BY <1>5, <1>6

\* A drop changes nothing of the drops before it.
LEMMA DropMarks ==
    ASSUME TicksFit, MarkInv, NEW S, Drop(S), UNCHANGED <<last, marks>>
    PROVE  (CountedIsMarked /\ MarkedIsLost)'
<1>1. drops' = After(drops, S, pos)
  BY Dropped
<1>2. \A ch \in Channels : /\ Len(drops'[ch]) \in Nat /\ Len(drops[ch]) \in Nat
                           /\ Len(drops'[ch]) >= Len(drops[ch])
                           /\ \A i \in 1 .. Len(drops[ch]) : drops'[ch][i] = drops[ch][i]
  <2>1. drops \in [Channels -> Seq(Nat)] /\ pos \in Nat
    BY Typed
  <2> TAKE ch \in Channels
  <2>2. Len(drops[ch]) \in Nat
    BY LastIsDrop
  <2>3. /\ Len(After(drops, S, pos)[ch]) \in Nat
        /\ Len(After(drops, S, pos)[ch]) >= Len(drops[ch])
        /\ \A i \in 1 .. Len(drops[ch]) : After(drops, S, pos)[ch][i] = drops[ch][i]
    BY <2>1, AfterDrop
  <2>4. drops'[ch] = After(drops, S, pos)[ch]
    BY <1>1
  <2> QED BY <2>2, <2>3, <2>4
<1>3. CountedIsMarked'
  <2> SUFFICES ASSUME NEW ch \in Channels, NEW i \in 1 .. last[ch]
               PROVE  \E m \in marks : m.ch = ch /\ drops'[ch][i] \in m.start .. m.end
    BY DEF CountedIsMarked
  <2>1. i \in 1 .. Len(drops[ch])
    BY LastIsDrop
  <2>2. drops'[ch][i] = drops[ch][i]
    BY <1>2, <2>1
  <2> QED BY <2>2 DEF MarkInv, MarksExact, CountedIsMarked
<1>4. MarkedIsLost'
  <2> SUFFICES ASSUME NEW m \in marks
               PROVE  \E i \in 1 .. Len(drops'[m.ch]) : drops'[m.ch][i] \in m.start .. m.end
    BY DEF MarkedIsLost
  <2>1. m.ch \in Channels
    BY DEF MarkInv, ReportType
  <2>2. PICK i \in 1 .. Len(drops[m.ch]) : drops[m.ch][i] \in m.start .. m.end
    BY DEF MarkInv, MarksExact, MarkedIsLost
  <2>3. i \in 1 .. Len(drops'[m.ch]) /\ drops'[m.ch][i] = drops[m.ch][i]
    BY <1>2, <2>1
  <2> QED BY <2>2, <2>3
<1> QED BY <1>3, <1>4

LEMMA MarksStep == ASSUME TicksFit, MarkInv, [Next]_vars PROVE MarksExact'
<1>1. ReportExact'
  <2>1. havePrev' => Upto(drops', last', prevEnd')
    BY CountedStep DEF Counted
  <2> QED BY <2>1 DEF ReportExact, Upto
<1>2. (CountedIsMarked /\ MarkedIsLost)'
  <2>1. CASE ReadReport
    BY <2>1, ReadMarks
  <2>2. CASE RecordDrop \/ ScanDropChange
    <3>1. UNCHANGED <<last, marks>>
      BY <2>2, DropSteps DEF tracker
    <3>2. PICK S : Drop(S)
      BY <2>2, DropSteps
    <3> QED BY <3>1, <3>2, DropMarks
  <2>3. CASE UNCHANGED <<drops, tracker>>
    BY <2>3 DEF tracker, MarkInv, MarksExact, CountedIsMarked, MarkedIsLost
  <2>4. CASE \/ ScanQuiet \/ ScanChange \/ Encode \/ ScanDropQuiet \/ ScanDropEnds \/ Heartbeat
             \/ Flush \/ Snap \/ Copy \/ AsideNext
    BY <2>3, <2>4, QuietSteps, FlushSteps, SnapSteps, CopySteps, AsideSteps DEF MarkInv
  <2>5. CASE Amount \/ (Decide /\ MayCopy)
    BY <2>3, <2>5 DEF Amount, Decide
  <2> QED BY <2>1, <2>2, <2>4, <2>5, StepKinds
<1> QED BY <1>1, <1>2 DEF MarksExact

LEMMA MarkStep == ASSUME TicksFit PROVE MarkInv /\ [Next]_vars => MarkInv'
BY CountStep, SeqStep, PlaceStep, EndsStep, ReportStep, HandingStep, CountedStep, CoverStep,
   MarksStep
   DEF MarkInv

LEMMA MarkInit == Init => MarkInv
BY CountInit, SeqInit, PlaceInit, EndsInit, ReportInit, HandingInit, CountedInit, CoverInit,
   MarksInit
   DEF MarkInv

\* As long as ticks fit in the device's word, the host's counts are exact up to the last report's
\* end, each drop it has counted is in a range it marked for that channel, and in each range it
\* marked something was dropped: for any channels, bounds, failures and delays.
THEOREM LossIsMarked == ASSUME TicksFit PROVE Spec => []MarksExact
<1>1. Init => MarkInv
  BY MarkInit
<1>2. MarkInv /\ [Next]_vars => MarkInv'
  BY MarkStep
<1>3. MarkInv => MarksExact
  BY DEF MarkInv
<1> QED BY <1>1, <1>2, <1>3, PTL DEF Spec
=============================================================================
