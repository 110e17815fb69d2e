----------------------------- MODULE MCRecorder -----------------------------
(***************************************************************************)
(* Recorder's counts as sums over the log, the queue as one that announces *)
(* what it drops (AnnouncedStream), and liveness.                          *)
(***************************************************************************)
EXTENDS Recorder, Totals

\* All bytes handed over; the size of the first n items of the log, and the data in them.
Handed == Total([c \in 1 .. NumChannels |-> stream[c - 1]], NumChannels)

SizeUpTo(n) == Total([i \in 1 .. n |-> Size(log[i])], n)

DataLen(it) == IF it.kind = "data" THEN it.to - it.from ELSE 0

RecordedUpTo(n) == Total([i \in 1 .. n |-> DataLen(log[i])], n)

\* The size the queue is limited by is that of the items in the queue and in the writer's hands:
\* nothing leaks from it when the two threads add to it and take from it, in any order.
QueueSizeExact ==
    phase # "lost" => queued = held + SizeUpTo(Len(log)) - SizeUpTo(taken)

\* END's overflow count is the number of bytes handed over that are in no DATA chunk: what the
\* recorder itself dropped. What the backend dropped before is not handed over and not in it.
EndCountsOwnDrops ==
    \A i \in 1 .. Len(log) : log[i].kind = "end" => log[i].n = Handed - RecordedUpTo(Len(log))

\* "DATA bytes dropped by the host, all data channels" (docs/capture-file.md, END): with those the
\* backend dropped and told of in overflow events, which capture_overflow() counts too. It is not
\* so: recorder_close() writes its own count over that of capture_trailer().
EndCountsAllDropped ==
    \A i \in 1 .. Len(log) :
        log[i].kind = "end" => log[i].n = Handed - RecordedUpTo(Len(log)) + capOverflow

\* The pieces of a data channel's stream that the log tells of.
Pieces(ch) ==
    {[kind |-> IF log[i].kind = "data" THEN "data" ELSE "gap",
      from |-> log[i].from,
      to |-> log[i].to] : i \in {i \in 1 .. Len(log) : Tells(i, ch) /\ log[i].from < log[i].to}}

Announced == INSTANCE AnnouncedStream WITH
                 Streams <- Channels,
                 given <- stream,
                 told <- [ch \in Channels |-> Pieces(ch)]

\* The recorder is one of the queues that announce what they drop.
ImplementsAnnouncedStream == Announced!ASpec

-----------------------------------------------------------------------------
\* What was accepted is written, and recorder_close() returns, under fair scheduling.
WriterFinishes == AcceptedIsWritten /\ CloseReturns

=============================================================================
