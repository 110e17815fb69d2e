------------------------------ MODULE Recorder ------------------------------
(***************************************************************************)
(* The capture file recorder, host/capture/recorder.c, with the index      *)
(* builder it feeds and the storage under it.                              *)
(*                                                                         *)
(* Two threads share a queue under a lock.  The caller hands over data     *)
(* bytes, control messages, events and good heartbeats; none of its calls  *)
(* waits on storage, so what does not fit is dropped, and the next bytes   *)
(* that fit carry an overflow event.  The writer takes the whole queue,    *)
(* turns it into chunks, and writes, indexes and syncs them in batches.    *)
(*                                                                         *)
(* Every item the queue ever accepted stays in the sequence log, in order, *)
(* and the parts of the pipeline are intervals of it: the file holds       *)
(* log[1..fileLen], the batch log[offset+1..taken], the list the writer is *)
(* working on log[taken+1..listEnd], the queue the rest.  A chunk's file   *)
(* offset is its position in log (a mark takes a position and no bytes).   *)
(***************************************************************************)
EXTENDS Integers, Sequences, FiniteSets, IndexBuilder

CONSTANTS
    NumChannels,    \* data channels, 0 .. NumChannels-1
    PieceLens,      \* lengths of the pieces of data handed over
    ItemSize,       \* what an item counts towards the queue besides its data
    QueueMax,       \* RECORDER_QUEUE_MAX
    BatchMin,       \* RECORDER_BATCH_MIN, in chunks
    HeartbeatLen,   \* bytes of a heartbeat
    AllocMayFail,   \* whether malloc() may return NULL
    WriteMayFail,   \* whether write() and fsync() may fail
    PowerMayFail,   \* whether power may be lost
    MaxStream,      \* bound: bytes handed over per data channel, and lost by the backend
    MaxGrid,        \* bound: grid counts of the heartbeats
    MaxHeartbeats,  \* bound: heartbeats per data channel
    MaxCalls,       \* bound: items accepted before the recording is closed
    MaxControls,    \* bound: control messages refused in a row
    BackendLosses   \* sizes of the overflows the backend reports; {} for none

ASSUME RecorderAssumption ==
    /\ NumChannels \in Nat \ {0}
    /\ PieceLens \subseteq Nat \ {0}
    /\ ItemSize \in Nat \ {0}
    /\ QueueMax \in Nat
    /\ BatchMin \in Nat
    /\ HeartbeatLen \in Nat \ {0}
    /\ AllocMayFail \in BOOLEAN
    /\ WriteMayFail \in BOOLEAN
    /\ PowerMayFail \in BOOLEAN
    /\ MaxStream \in Nat
    /\ MaxGrid \in Nat
    /\ MaxHeartbeats \in Nat
    /\ MaxCalls \in Nat
    /\ MaxControls \in Nat
    /\ BackendLosses \subseteq Nat

Channels == 0 .. NumChannels - 1

VARIABLES
    \* the caller
    phase,          \* of the recording: its calls come in this order
    stream,         \* bytes handed over per data channel
    dropped,        \* bytes dropped per data channel since its last overflow event
    droppedCtrl,    \* control messages dropped since the last overflow event
    overflowBytes,  \* all bytes dropped
    nextGrid,       \* per data channel, the grid count the next mark is due at
    endQueued,      \* whether the END item was queued
    heartbeats,     \* per data channel, the good heartbeats so far: <<grid, pos>>
    fresh,          \* per data channel, the bytes of the piece being parsed, if any
    capOverflow,    \* bytes dropped by the backend (cap->overflow, capture.c)
    \* shared under the lock
    log,            \* every item accepted, in order
    queued,         \* size of the queue and of the list the writer holds
    closing,
    error,
    \* the writer
    wpc,
    listEnd,        \* the list taken ends at this position of log
    taken,          \* items serialised
    held,           \* size of the items of the list serialised so far
    sawClosing,     \* closing, as read when the list was taken
    failed,         \* err of this pass
    offset,         \* items in batches written whole
    flushed,
    lanes,          \* the index builder's
    indexOut,       \* entries made and not written yet
    \* storage
    fileLen,        \* items in the file
    torn,           \* whether a chunk cut short follows them
    fileSynced,     \* items durable
    index,          \* entries in the index file
    indexSynced     \* entries durable

caller  == <<phase, stream, dropped, droppedCtrl, overflowBytes, nextGrid, endQueued,
             heartbeats, fresh, capOverflow>>
shared  == <<log, queued, closing, error>>
writer  == <<wpc, listEnd, taken, held, sawClosing, failed, offset, flushed, lanes, indexOut>>
storage == <<fileLen, torn, fileSynced, index, indexSynced>>
vars    == <<caller, shared, writer, storage>>

-----------------------------------------------------------------------------
(* Items. *)

\* An item of the queue. A DATA chunk carries the stream bytes from .. to-1. An overflow event
\* has its count of bytes as to - from: the gap it announces ends at stream offset to. A mark is
\* a heartbeat to index, with its grid count in n and its first byte at from. The n of the other
\* items is the control messages an overflow event counts, or the overflow count of END.
Kinds == {"header", "data", "overflow", "control", "event", "mark", "end"}
Item  == {it \in [kind : Kinds, ch : Channels, from : Nat, to : Nat, n : Nat] : it.from <= it.to}

NewItem(kind, ch, from, to, n) ==
    [kind |-> kind, ch |-> ch, from |-> from, to |-> to, n |-> n]

Size(it) == ItemSize + IF it.kind = "data" THEN it.to - it.from ELSE 0

OverflowItemOfTotal(ch) ==
    NewItem("overflow", ch, stream[ch] - overflowBytes, stream[ch], droppedCtrl)

OverflowItem(ch) == NewItem("overflow", ch, stream[ch] - dropped[ch], stream[ch], droppedCtrl)

\* Whether an allocation gives memory.
Alloc == IF AllocMayFail THEN BOOLEAN ELSE {TRUE}

\* push(): refused after an error, and a droppable one when the queue would grow past its limit.
Fits(need, droppable) == ~error /\ (droppable => queued + need <= QueueMax)

Push(items, need) ==
    /\ log' = log \o items
    /\ queued' = queued + need
    /\ UNCHANGED <<closing, error>>

-----------------------------------------------------------------------------
(* The caller. *)

Recording == phase = "recording"
CallBound == Len(log) < MaxCalls

\* recorder_begin(): the header is the first item; the writer starts.
Begin ==
    /\ phase = "open"
    /\ phase' = "recording"
    /\ Push(<<NewItem("header", 0, 0, 0, 0)>>, ItemSize)
    /\ wpc' = "idle"
    /\ UNCHANGED <<stream, dropped, droppedCtrl, overflowBytes, nextGrid, endQueued, heartbeats,
                   fresh, capOverflow, listEnd, taken, held, sawClosing, failed, offset, flushed,
                   lanes, indexOut, storage>>

EventFirstNever(due, ch) == {<<>>}

\* The overflow event to queue before an item: none if none is due, or if there is no memory.
EventFirst(due, ch) ==
    (IF due THEN {<<OverflowItem(ch)>>} ELSE {<<>>}) \cup (IF AllocMayFail THEN {<<>>} ELSE {})

DroppedAllCleared(ch, ev) == IF ev = <<>> THEN dropped ELSE [c \in Channels |-> 0]

\* What is dropped and not announced after an overflow event for data channel ch, if there is one.
DroppedAfter(ch, ev) == IF ev = <<>> THEN dropped ELSE [dropped EXCEPT ![ch] = 0]
DroppedCtrlAfter(ev) == IF ev = <<>> THEN droppedCtrl ELSE 0

NotParsing == [ch \in Channels |-> 0]

DataQueuedEventFree(ch, len, ev) ==
    LET need == ItemSize + len
    IN  /\ Fits(need, TRUE)
        /\ Push(Append(ev, NewItem("data", ch, stream[ch], stream[ch] + len, 0)), need)
        /\ dropped' = DroppedAfter(ch, ev)
        /\ droppedCtrl' = DroppedCtrlAfter(ev)
        /\ UNCHANGED overflowBytes

DataQueued(ch, len, ev) ==
    LET need == (Len(ev) + 1) * ItemSize + len
    IN  /\ Fits(need, TRUE)
        /\ Push(Append(ev, NewItem("data", ch, stream[ch], stream[ch] + len, 0)), need)
        /\ dropped' = DroppedAfter(ch, ev)
        /\ droppedCtrl' = DroppedCtrlAfter(ev)
        /\ UNCHANGED overflowBytes

DataDropped(ch, len) ==
    /\ dropped' = [dropped EXCEPT ![ch] = @ + len]
    /\ overflowBytes' = overflowBytes + len
    /\ UNCHANGED <<shared, droppedCtrl>>

\* recorder_data(), from handle() (capture.c): the piece is parsed right after.
RecorderData(ch, len) ==
    /\ Recording
    /\ CallBound
    /\ stream[ch] + len <= MaxStream
    /\ \E ev \in EventFirst(dropped[ch] > 0 \/ droppedCtrl > 0, ch), memory \in Alloc :
          \/ memory /\ DataQueued(ch, len, ev)
          \/ /\ ~memory \/ ~Fits((Len(ev) + 1) * ItemSize + len, TRUE)
             /\ DataDropped(ch, len)
    /\ stream' = [stream EXCEPT ![ch] = @ + len]
    /\ fresh' = [NotParsing EXCEPT ![ch] = len]
    /\ UNCHANGED <<phase, nextGrid, endQueued, heartbeats, capOverflow, writer, storage>>

\* recorder_control(): an overflow event it carries is for data channel 0.
RecorderControl ==
    /\ Recording
    /\ CallBound
    /\ \E ev \in EventFirst(droppedCtrl > 0, 0), memory \in Alloc :
          LET need == (Len(ev) + 1) * ItemSize
          IN  \/ /\ memory /\ Fits(need, TRUE)
                 /\ Push(Append(ev, NewItem("control", 0, 0, 0, 0)), need)
                 /\ dropped' = DroppedAfter(0, ev)
                 /\ droppedCtrl' = DroppedCtrlAfter(ev)
              \/ /\ ~memory \/ ~Fits(need, TRUE)
                 /\ droppedCtrl < MaxControls
                 /\ droppedCtrl' = droppedCtrl + 1
                 /\ UNCHANGED <<shared, dropped>>
    /\ fresh' = NotParsing
    /\ UNCHANGED <<phase, stream, overflowBytes, nextGrid, endQueued, heartbeats, capOverflow,
                   writer, storage>>

\* recorder_event() with an overflow of the backend's, from handle(), which counts its bytes.
\* Events are not droppable.
RecorderEvent(ch, bytes) ==
    /\ Recording
    /\ CallBound
    /\ capOverflow + bytes <= MaxStream
    /\ \E memory \in Alloc :
          \/ memory /\ Fits(ItemSize, FALSE) /\ Push(<<NewItem("event", ch, 0, 0, bytes)>>, ItemSize)
          \/ (~memory \/ ~Fits(ItemSize, FALSE)) /\ UNCHANGED shared
    /\ capOverflow' = capOverflow + bytes
    /\ fresh' = NotParsing
    /\ UNCHANGED <<phase, stream, dropped, droppedCtrl, overflowBytes, nextGrid, endQueued,
                   heartbeats, writer, storage>>

LastHeartbeat(ch) ==
    IF heartbeats[ch] = <<>> THEN [grid |-> 0, end |-> 0]
    ELSE [grid |-> heartbeats[ch][Len(heartbeats[ch])][1],
          end  |-> heartbeats[ch][Len(heartbeats[ch])][2] + HeartbeatLen]

\* Where the parser may find a heartbeat complete in the piece just handed over.
HeartbeatStarts(ch) ==
    {pos \in LastHeartbeat(ch).end .. stream[ch] :
        /\ pos + HeartbeatLen <= stream[ch]
        /\ pos + HeartbeatLen > stream[ch] - fresh[ch]}

MarkDue(ch, grid) == grid >= nextGrid[ch]

\* recorder_heartbeat(), from on_heartbeat() (capture.c): a mark is droppable.
RecorderHeartbeat(ch, grid, pos) ==
    /\ Recording
    /\ CallBound
    /\ Len(heartbeats[ch]) < MaxHeartbeats
    /\ grid >= LastHeartbeat(ch).grid
    /\ heartbeats' = [heartbeats EXCEPT ![ch] = Append(@, <<grid, pos>>)]
    /\ IF ~MarkDue(ch, grid)
       THEN UNCHANGED <<nextGrid, shared>>
       ELSE /\ nextGrid' = [nextGrid EXCEPT ![ch] = NextGrid(grid)]
            /\ \E memory \in Alloc :
                  \/ /\ memory /\ Fits(ItemSize, TRUE)
                     /\ Push(<<NewItem("mark", ch, pos, pos, grid)>>, ItemSize)
                  \/ (~memory \/ ~Fits(ItemSize, TRUE)) /\ UNCHANGED shared
    /\ UNCHANGED <<phase, stream, dropped, droppedCtrl, overflowBytes, endQueued, fresh,
                   capOverflow, writer, storage>>

\* recorder_close(): END is queued, ...
CloseEnd ==
    /\ Recording
    /\ phase' = "ending"
    /\ \E memory \in Alloc :
          \/ /\ memory /\ Fits(ItemSize, FALSE)
             /\ Push(<<NewItem("end", 0, 0, 0, overflowBytes)>>, ItemSize)
             /\ endQueued' = TRUE
          \/ /\ ~memory \/ ~Fits(ItemSize, FALSE)
             /\ endQueued' = FALSE
             /\ UNCHANGED shared
    /\ UNCHANGED <<stream, dropped, droppedCtrl, overflowBytes, nextGrid, heartbeats, fresh,
                   capOverflow, writer, storage>>

\* ... the writer is told, in a lock section of its own, ...
CloseSignal ==
    /\ phase = "ending"
    /\ phase' = "joining"
    /\ closing' = TRUE
    /\ UNCHANGED <<stream, dropped, droppedCtrl, overflowBytes, nextGrid, endQueued, heartbeats,
                   fresh, capOverflow, log, queued, error, writer, storage>>

\* ... and joined.
CloseJoin ==
    /\ phase = "joining"
    /\ wpc = "done"
    /\ phase' = "closed"
    /\ UNCHANGED <<stream, dropped, droppedCtrl, overflowBytes, nextGrid, endQueued, heartbeats,
                   fresh, capOverflow, shared, writer, storage>>

\* recorder_close() of a recording that never began removes its files.
CloseUnbegun ==
    /\ phase = "open"
    /\ phase' = "closed"
    /\ UNCHANGED <<stream, dropped, droppedCtrl, overflowBytes, nextGrid, endQueued, heartbeats,
                   fresh, capOverflow, shared, writer, storage>>

\* Whether recorder_begin() was called: the header is in the log.
Begun == log # <<>>

CloseErrorOfWriter == error

\* Whether recorder_close() returns an error.
CloseError == error \/ (Begun /\ ~endQueued)

-----------------------------------------------------------------------------
(* The writer: one pass of writer_main()'s loop. *)

\* Lock section: the whole queue is taken. The wait ends by a signal or, with nothing queued,
\* when a flush or a sync is due.
Take ==
    /\ wpc = "idle"
    /\ listEnd' = Len(log)
    /\ sawClosing' = closing
    /\ failed' = error
    /\ wpc' = "serialize"
    /\ UNCHANGED <<caller, shared, taken, held, offset, flushed, lanes, indexOut, storage>>

\* serialize() of the list's next item: into the batch, and to the index builder. After an error
\* the items are only freed. It may find no memory.
Serialize ==
    LET it == log[taken + 1]
        at == taken + 1
    IN  /\ wpc = "serialize"
        /\ taken < listEnd
        /\ taken' = taken + 1
        /\ held' = held + Size(it)
        /\ \/ /\ failed \/ it.kind \notin {"data", "mark"}
              /\ UNCHANGED <<failed, lanes, indexOut>>
           \/ /\ ~failed /\ it.kind = "data"
              /\ lanes' = [lanes EXCEPT ![it.ch] = LaneChunk(@, it.from, it.to - it.from, at)]
              /\ UNCHANGED <<failed, indexOut>>
           \/ /\ ~failed /\ it.kind = "mark"
              /\ lanes' = [lanes EXCEPT ![it.ch] = LaneHeartbeat(@, it.n, it.from)]
              /\ indexOut' = indexOut \o EntriesFor(lanes[it.ch], it.ch, it.n, it.from)
              /\ UNCHANGED failed
           \/ /\ ~failed /\ FALSE \in Alloc
              /\ failed' = TRUE
              /\ UNCHANGED <<lanes, indexOut>>
        /\ UNCHANGED <<caller, shared, wpc, listEnd, sawClosing, offset, flushed, storage>>

\* Positions of the batch's chunks: a mark puts no bytes into it.
Chunked(from, to) == {n \in from .. to : log[n].kind # "mark"}
BatchLen == Cardinality(Chunked(offset + 1, taken))

MustFlush == BatchLen >= BatchMin \/ ~flushed \/ sawClosing

Listed == wpc = "serialize" /\ taken = listEnd

StartFlushByIndex ==
    /\ Listed
    /\ ~failed
    /\ wpc' = "writeIndex"
    /\ UNCHANGED <<caller, shared, listEnd, taken, held, sawClosing, failed, offset, flushed,
                   lanes, indexOut, storage>>

StartFlushNoTimer ==
    /\ Listed
    /\ ~failed
    /\ MustFlush
    /\ wpc' = "write"
    /\ UNCHANGED <<caller, shared, listEnd, taken, held, sawClosing, failed, offset, flushed,
                   lanes, indexOut, storage>>

\* The batch is due by its size, by what has not been written at all, at the end, or by time.
StartFlush ==
    /\ Listed
    /\ ~failed
    /\ wpc' = "write"
    /\ UNCHANGED <<caller, shared, listEnd, taken, held, sawClosing, failed, offset, flushed,
                   lanes, indexOut, storage>>

SkipFlush ==
    /\ Listed
    /\ failed \/ ~MustFlush
    /\ wpc' = IF failed THEN "publish" ELSE "sync"
    /\ UNCHANGED <<caller, shared, listEnd, taken, held, sawClosing, failed, offset, flushed,
                   lanes, indexOut, storage>>

\* flush(): the batch into the capture file. A write that fails leaves whole chunks of it and
\* perhaps part of the next.
Write ==
    /\ wpc = "write"
    /\ flushed' = TRUE
    /\ \/ /\ fileLen' = taken
          /\ offset' = taken
          /\ wpc' = "writeIndex"
          /\ UNCHANGED <<torn, failed>>
       \/ /\ WriteMayFail
          /\ \E n \in Chunked(offset + 1, taken) : fileLen' = n - 1
          /\ torn' = TRUE
          /\ failed' = TRUE
          /\ wpc' = "publish"
          /\ UNCHANGED offset
    /\ UNCHANGED <<caller, shared, listEnd, taken, held, sawClosing, lanes, indexOut,
                   fileSynced, index, indexSynced>>

\* flush(): then the entries made for it into the index file.
WriteIndex ==
    /\ wpc = "writeIndex"
    /\ indexOut' = <<>>
    /\ \/ /\ index' = index \o indexOut
          /\ wpc' = "sync"
          /\ UNCHANGED failed
       \/ /\ WriteMayFail
          /\ \E n \in 0 .. Len(indexOut) - 1 : index' = index \o SubSeq(indexOut, 1, n)
          /\ failed' = TRUE
          /\ wpc' = "publish"
    /\ UNCHANGED <<caller, shared, listEnd, taken, held, sawClosing, offset, flushed, lanes,
                   fileLen, torn, fileSynced, indexSynced>>

\* fsync() of the capture file, when due by time or at the end.
Sync ==
    /\ wpc = "sync"
    /\ \/ /\ ~sawClosing
          /\ wpc' = "publish"
          /\ UNCHANGED <<failed, fileSynced>>
       \/ /\ fileSynced' = fileLen
          /\ wpc' = "syncIndex"
          /\ UNCHANGED failed
       \/ /\ WriteMayFail
          /\ failed' = TRUE
          /\ wpc' = "publish"
          /\ UNCHANGED fileSynced
    /\ UNCHANGED <<caller, shared, listEnd, taken, held, sawClosing, offset, flushed, lanes,
                   indexOut, fileLen, torn, index, indexSynced>>

\* fsync() of the index file.
SyncIndex ==
    /\ wpc = "syncIndex"
    /\ wpc' = "publish"
    /\ \/ /\ indexSynced' = Len(index)
          /\ UNCHANGED failed
       \/ /\ WriteMayFail
          /\ failed' = TRUE
          /\ UNCHANGED indexSynced
    /\ UNCHANGED <<caller, shared, listEnd, taken, held, sawClosing, offset, flushed, lanes,
                   indexOut, fileLen, torn, fileSynced, index>>

FirstErrorForgotten == error
FirstError == error \/ failed
PassIsLast == sawClosing /\ taken = Len(log)

\* Lock section: the list no longer counts towards the queue, and the first error is kept.
Publish ==
    /\ wpc = "publish"
    /\ queued' = queued - held
    /\ held' = 0
    /\ error' = FirstError
    /\ wpc' = IF PassIsLast THEN "done" ELSE "idle"
    /\ UNCHANGED <<caller, log, closing, listEnd, taken, sawClosing, failed, offset, flushed,
                   lanes, indexOut, storage>>

-----------------------------------------------------------------------------
(* Storage. *)

\* Power is lost: of what was not synced, any part of each file's end is gone.
PowerLoss ==
    /\ PowerMayFail
    /\ phase \in {"recording", "ending", "joining"}
    /\ phase' = "lost"
    /\ wpc' = "off"
    /\ fileLen' \in fileSynced .. fileLen
    /\ \E n \in indexSynced .. Len(index) : index' = SubSeq(index, 1, n)
    /\ UNCHANGED <<stream, dropped, droppedCtrl, overflowBytes, nextGrid, endQueued, heartbeats,
                   fresh, capOverflow, shared, listEnd, taken, held, sawClosing, failed, offset,
                   flushed, lanes, indexOut, torn, fileSynced, indexSynced>>

\* The recording is over.
Over ==
    /\ phase \in {"closed", "lost"}
    /\ UNCHANGED vars

-----------------------------------------------------------------------------
Init ==
    /\ phase = "open"
    /\ stream = [ch \in Channels |-> 0]
    /\ dropped = [ch \in Channels |-> 0]
    /\ droppedCtrl = 0
    /\ overflowBytes = 0
    /\ nextGrid = [ch \in Channels |-> 0]
    /\ endQueued = FALSE
    /\ heartbeats = [ch \in Channels |-> <<>>]
    /\ fresh = NotParsing
    /\ capOverflow = 0
    /\ log = <<>>
    /\ queued = 0
    /\ closing = FALSE
    /\ error = FALSE
    /\ wpc = "off"
    /\ listEnd = 0
    /\ taken = 0
    /\ held = 0
    /\ sawClosing = FALSE
    /\ failed = FALSE
    /\ offset = 0
    /\ flushed = FALSE
    /\ lanes = [ch \in Channels |-> EmptyLane]
    /\ indexOut = <<>>
    /\ fileLen = 0
    /\ torn = FALSE
    /\ fileSynced = 0
    /\ index = <<>>
    /\ indexSynced = 0

CallerNext ==
    \/ Begin
    \/ \E ch \in Channels, len \in PieceLens : RecorderData(ch, len)
    \/ RecorderControl
    \/ \E ch \in Channels, bytes \in BackendLosses : RecorderEvent(ch, bytes)
    \/ \E ch \in Channels, grid \in 0 .. MaxGrid : \E pos \in HeartbeatStarts(ch) :
          RecorderHeartbeat(ch, grid, pos)
    \/ CloseEnd
    \/ CloseSignal
    \/ CloseJoin
    \/ CloseUnbegun

WriterNext ==
    \/ Take
    \/ Serialize
    \/ StartFlush
    \/ SkipFlush
    \/ Write
    \/ WriteIndex
    \/ Sync
    \/ SyncIndex
    \/ Publish

Next == CallerNext \/ WriterNext \/ PowerLoss \/ Over

Spec == Init /\ [][Next]_vars

\* The writer thread is scheduled, its timers run out (a flush that is put off is not put off
\* for ever), and the caller closes what it began and waits for the writer.
Fairness ==
    /\ WF_vars(WriterNext)
    /\ SF_vars(StartFlush)
    /\ WF_vars(CloseSignal)
    /\ WF_vars(CloseJoin)

FairSpec == Spec /\ Fairness

-----------------------------------------------------------------------------
(* Properties. *)

Phases == {"open", "recording", "ending", "joining", "closed", "lost"}
Pcs == {"off", "idle", "serialize", "write", "writeIndex", "sync", "syncIndex", "publish", "done"}

FlagsType ==
    /\ endQueued \in BOOLEAN
    /\ closing \in BOOLEAN
    /\ error \in BOOLEAN
    /\ sawClosing \in BOOLEAN
    /\ failed \in BOOLEAN
    /\ flushed \in BOOLEAN
    /\ torn \in BOOLEAN

CallerType ==
    /\ phase \in Phases
    /\ stream \in [Channels -> Nat]
    /\ dropped \in [Channels -> Nat]
    /\ droppedCtrl \in Nat
    /\ overflowBytes \in Nat
    /\ nextGrid \in [Channels -> Nat]
    /\ heartbeats \in [Channels -> Seq(Nat \X Nat)]
    /\ fresh \in [Channels -> Nat]
    /\ capOverflow \in Nat

SharedType ==
    /\ log \in Seq(Item)
    /\ queued \in Int

WriterType ==
    /\ wpc \in Pcs
    /\ listEnd \in 0 .. Len(log)
    /\ taken \in 0 .. listEnd
    /\ held \in Nat
    /\ offset \in 0 .. taken
    /\ lanes \in [Channels -> Lane]
    /\ indexOut \in Seq(Entry)

StorageType ==
    /\ fileLen \in 0 .. taken
    /\ fileSynced \in 0 .. fileLen
    /\ index \in Seq(Entry)
    /\ indexSynced \in 0 .. Len(index)

\* Every variable has its type, and the intervals of log that are the file, the batch, the list
\* and the queue follow each other.
TypeOK == FlagsType /\ CallerType /\ SharedType /\ WriterType /\ StorageType

\* An item that tells of data channel ch's stream: its bytes, or a gap in them.
Tells(i, ch) == log[i].kind \in {"data", "overflow"} /\ log[i].ch = ch

\* "An overflow event marks the gap" (recorder.h): up to any point of the capture file, every
\* byte of a data channel's stream is in a DATA chunk or in the gap an overflow event announces,
\* in stream order and never in two: no byte is missing silently or recorded twice, whatever was
\* dropped, wherever the file was cut.
FileMarksGaps ==
    \A ch \in Channels : \A j \in 1 .. fileLen :
        Tells(j, ch) =>
            /\ \A i \in 1 .. j - 1 : Tells(i, ch) => log[i].to <= log[j].from
            /\ \A p \in 0 .. log[j].to - 1 :
                  \E i \in 1 .. j : Tells(i, ch) /\ log[i].from <= p /\ p < log[i].to

\* An index entry points at a DATA chunk of its data channel, and its payload offset is where
\* the stream byte lies that a heartbeat of that grid count, confirmed good, starts at.
EntryIsRight(e) ==
    /\ e.chunk \in 1 .. Len(log)
    /\ log[e.chunk].kind = "data"
    /\ log[e.chunk].ch = e.ch
    /\ log[e.chunk].from + e.payload < log[e.chunk].to
    /\ \E m \in 1 .. Len(log) :
          /\ log[m].kind = "mark"
          /\ log[m].ch = e.ch
          /\ log[m].n = e.grid
          /\ log[m].from = log[e.chunk].from + e.payload

IndexPoints ==
    /\ \A i \in 1 .. Len(index) : EntryIsRight(index[i])
    /\ \A i \in 1 .. Len(indexOut) : EntryIsRight(indexOut[i])

\* While the power is on, an entry in the index file points into what the capture file already
\* holds, also when a write failed half way: flush() writes the chunks first.
IndexWithinFile ==
    phase # "lost" => \A i \in 1 .. Len(index) : index[i].chunk <= fileLen

\* When recorder_close() of a recording returns no error, everything accepted is in the file and
\* durable, END comes last, no index entry is left behind, and no memory is held by the queue.
ClosedIsDurable ==
    phase = "closed" /\ Begun /\ ~CloseError =>
        /\ log[Len(log)].kind = "end"
        /\ fileLen = Len(log) /\ ~torn
        /\ fileSynced = fileLen
        /\ indexOut = <<>>
        /\ indexSynced = Len(index)
        /\ queued = 0

\* After a write that failed nothing more is written: what follows would not be readable, and
\* the offsets in the index would be wrong.
TornIsLast ==
    [][torn /\ phase' # "lost" => UNCHANGED <<fileLen, index>>]_vars

\* What the queue accepted reaches the file, unless storage fails or power is lost.
AcceptedIsWritten ==
    \A n \in 1 .. MaxCalls : (Len(log) >= n) ~> (fileLen >= n \/ error \/ phase = "lost")

\* recorder_close() returns, unless power is lost.
CloseReturns == (phase = "ending") ~> (phase \in {"closed", "lost"})
=============================================================================
