--------------------------- MODULE MCLocalBackend ---------------------------
(***************************************************************************)
(* LocalBackend for TLC: fairness, and the properties that put the blocks  *)
(* of the pipeline together.                                               *)
(***************************************************************************)
EXTENDS LocalBackend, Totals

\* How many bytes the items or blocks of s have, and how many those told of as dropped.
BytesOf(s) == Total([i \in 1 .. Len(s) |-> Len(s[i].bytes)], Len(s))
ToldOf(s)  == Total([i \in 1 .. Len(s) |-> IF s[i].kind = "overflow" THEN s[i].n ELSE 0], Len(s))

\* The reader's block, if its bytes are of the current epoch.
Open == IF block # <<>> /\ ~Stale(block[1]) THEN block ELSE <<>>

Announced == ToldOf(given)

BytesTold == BytesOf(given) + Announced

\* The bytes of an item or block, and of the items or blocks of s.
Nums(b)   == {b.bytes[k] : k \in 1 .. Len(b.bytes)}
NumsIn(s) == UNION {Nums(s[i]) : i \in 1 .. Len(s)}

Below(S, T) == \A x \in S : \A y \in T : x < y

Ascending(bytes) == \A k, l \in 1 .. Len(bytes) : k < l => bytes[k] < bytes[l]

\* The bytes of s in the order they are given out are in the order they were sent.
Rising(s) ==
    /\ \A i \in 1 .. Len(s) : Ascending(s[i].bytes)
    /\ \A i, j \in 1 .. Len(s) : i < j => Below(Nums(s[i]), Nums(s[j]))

\* Bytes are given out in the order the device sent them and never twice, however the reader's
\* and the caller's lock sections interleave: those given out, the block next_item() took, the
\* queue and the reader's block follow each other.
InOrder ==
    /\ Rising(given) /\ Rising(got) /\ Rising(queue) /\ Rising(Open)
    /\ Below(NumsIn(given), NumsIn(got) \cup NumsIn(queue) \cup NumsIn(Open))
    /\ Below(NumsIn(got), NumsIn(queue) \cup NumsIn(Open))
    /\ Below(NumsIn(queue), NumsIn(Open))

\* What the reader took from the UART for this capture is on its way, or counted as dropped once:
\* given out, announced, or about to be.
Accounted ==
    readIn = BytesTold + BytesOf(got) + BytesOf(queue) + BytesOf(Open) + dropped + gotDropped

\* queued is the size of the queue, which passes its limit by the block put back at most.
QueueExact ==
    /\ queued = BytesOf(queue)
    /\ queued <= QueueMax + BlockSize

\* What the reader takes from the UART is given out once and in order, or announced, and the
\* queue's size does not drift, over blocks put back, resets and the reader's end.
OnceInOrder == InOrder /\ Accounted /\ QueueExact

-----------------------------------------------------------------------------
\* The caller is inside an operation, whose waits all end.
CallerGoesOn ==
    \/ ReceiveHello \/ FlushUart \/ FlushQueue \/ ReceiveReply \/ ReceiveOther \/ ReceiveFails
    \/ Look \/ TellOverflow \/ TellData \/ TellError \/ TellPending \/ TakeMessage \/ TellSilent
    \/ Sleep \/ Woken \/ ReadTimesOut \/ CloseJoin

\* Both threads run, COALESCE_MS comes to an end, and the caller keeps reading.
Fairness ==
    /\ WF_vars(ReaderRuns)
    /\ SF_vars(ReaderPublish)
    /\ WF_vars(CallerGoesOn)
    /\ SF_vars(ReadBegin)

FairSpec == Spec /\ Fairness

\* What the reader took from the UART is given out or announced, unless it is flushed.
ReadIsTold == (readIn > BytesTold) ~> (readIn = BytesTold)

\* The caller is told that the UART failed, or has closed the backend.
ErrorIsTold == readError ~> (errorTold \/ cpc = "closed")

\* local_close() returns.
CloseReturns == (cpc = "joining") ~> (cpc = "closed")

\* A reader that has ended is told of, and one that is in the way is ended: a failed UART reaches
\* the caller of local_read(), and local_close() returns.
EndIsTold == ErrorIsTold /\ CloseReturns
=============================================================================
