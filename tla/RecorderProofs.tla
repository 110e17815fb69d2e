--------------------------- MODULE RecorderProofs ---------------------------
(***************************************************************************)
(* Proofs about Recorder:                                                  *)
(*  - type correctness, and that the capture file tells of every byte      *)
(*    dropped, wherever it was cut (FileMarksGaps);                        *)
(*  - the index: every entry points at the stream byte its heartbeat       *)
(*    starts at (IndexPoints), in a chunk the capture file already holds   *)
(*    (IndexWithinFile);                                                   *)
(*  - the queue's size (QueueSizeExact) and END's count of the recorder's  *)
(*    own drops (EndCountsOwnDrops), what a recording that closed without  *)
(*    error leaves (ClosedIsDurable), and that the recorder implements     *)
(*    AnnouncedStream.                                                     *)
(***************************************************************************)
EXTENDS MCRecorder, TotalsProofs

-----------------------------------------------------------------------------
(* Types, and the gaps the file marks. *)

\* NewItem() makes an item of the parts it is given.
LEMMA NewItemType ==
    ASSUME NEW kind \in Kinds, NEW ch \in Channels, NEW from \in Nat, NEW to \in Nat,
           NEW n \in Nat, from <= to
    PROVE  NewItem(kind, ch, from, to, n) \in Item
BY DEF NewItem, Item

\* A nonempty set of spans has a first one.
LEMMA FirstSpanExists ==
    ASSUME NEW spans \in SUBSET Span, spans # {}
    PROVE  /\ FirstSpan(spans) \in spans
           /\ \A t \in spans : FirstSpan(spans).start <= t.start
<1> DEFINE starts == {s.start : s \in spans}
<1>1. starts \in SUBSET Nat /\ starts # {}
  BY DEF Span
<1>2. \E m \in starts : \A n \in starts : m <= n
  <2>. HIDE DEF starts
  <2>. QED
    BY <1>1, LeastNatural
<1>3. PICK s \in spans : \A t \in spans : s.start <= t.start
  BY <1>2
<1>. QED
  BY <1>3 DEF FirstSpan

\* The builder's operators stay within their types.
LEMMA LaneChunkType ==
    ASSUME NEW lane \in Lane, NEW start \in Nat, NEW len \in Nat, NEW chunk \in Nat
    PROVE  LaneChunk(lane, start, len, chunk) \in Lane
BY DEF LaneChunk, Lane, Span

LEMMA LaneHeartbeatType ==
    ASSUME NEW lane \in Lane, NEW ch \in Nat, NEW grid \in Nat, NEW pos \in Nat
    PROVE  /\ LaneHeartbeat(lane, grid, pos) \in Lane
           /\ EntriesFor(lane, ch, grid, pos) \in Seq(Entry)
<1>1. NextGrid(grid) \in Nat
  BY KAssumption DEF NextGrid
<1>2. LiveSpans(lane, pos) \in SUBSET Span
  BY DEF LiveSpans, Lane
<1>3. LaneHeartbeat(lane, grid, pos) \in Lane
  BY <1>1, <1>2 DEF LaneHeartbeat, Lane
<1>4. ASSUME ByteIsKnown(lane, pos)
      PROVE  EntryFor(lane, ch, grid, pos) \in Entry
  <2> DEFINE s == FirstSpan(LiveSpans(lane, pos))
  <2>1. s \in Span
    BY <1>2, <1>4, FirstSpanExists DEF ByteIsKnown
  <2>2. s.start <= pos
    BY <1>4 DEF ByteIsKnown
  <2>3. pos - s.start \in Nat
    BY <2>1, <2>2 DEF Span
  <2>. QED
    BY <2>1, <2>3 DEF EntryFor, Entry, Span
<1>5. EntriesFor(lane, ch, grid, pos) \in Seq(Entry)
  BY <1>4 DEF EntriesFor
<1>. QED
  BY <1>3, <1>5

-----------------------------------------------------------------------------
(* Type correctness. *)

\* No more is dropped than was handed over: what an overflow event announces begins in the stream.
DroppedBound == \A ch \in Channels : dropped[ch] <= stream[ch]

Working == {"serialize", "write", "writeIndex", "sync", "syncIndex", "publish"}

\* How the intervals of log that are on storage hang together, and that a pass that has failed,
\* or that follows one, writes nothing.
PipelineInv ==
    /\ phase \in {"open", "lost"} => wpc = "off"
    /\ phase # "lost" => /\ fileSynced <= offset
                         /\ offset <= fileLen
                         /\ ~torn => fileLen = offset
                         /\ torn => error \/ (failed /\ wpc = "publish")
    /\ error /\ wpc \in Working => failed
    /\ wpc \in {"write", "writeIndex", "sync", "syncIndex"} => ~failed
    /\ wpc \in {"write", "writeIndex", "sync", "syncIndex", "publish"} => taken = listEnd
    /\ wpc = "writeIndex" => offset = taken

TypeInv == TypeOK /\ DroppedBound /\ PipelineInv

LEMMA ChannelsNat == Channels \subseteq Nat /\ 0 \in Channels
BY RecorderAssumption DEF Channels

LEMMA TypeInit == Init => TypeInv
<1> SUFFICES ASSUME Init PROVE TypeInv
  OBVIOUS
<1>1. EmptyLane \in Lane
  BY DEF EmptyLane, Lane
<1>0. <<>> \in Seq(Item) /\ <<>> \in Seq(Entry) /\ <<>> \in Seq(Nat \X Nat) /\ Len(<<>>) = 0
  OBVIOUS
<1>2. CallerType
  BY <1>0 DEF Init, CallerType, NotParsing, Phases
<1>3. SharedType
  BY <1>0 DEF Init, SharedType
<1>4. WriterType
  BY <1>0, <1>1 DEF Init, WriterType, Pcs
<1>5. StorageType
  BY <1>0 DEF Init, StorageType
<1>7. FlagsType
  BY DEF Init, FlagsType
<1>6. DroppedBound /\ PipelineInv
  BY DEF Init, DroppedBound, PipelineInv, Working
<1>. QED
  BY <1>2, <1>3, <1>4, <1>5, <1>6, <1>7 DEF TypeInv, TypeOK

\* Pushing items keeps the log typed and the intervals of it in range.
LEMMA PushType ==
    ASSUME TypeOK, NEW items \in Seq(Item), NEW need \in Nat, Push(items, need)
    PROVE  /\ log' \in Seq(Item)
           /\ queued' \in Int
           /\ Len(log') = Len(log) + Len(items)
           /\ UNCHANGED <<closing, error>>
BY DEF TypeOK, SharedType, Push

LEMMA OverflowItemType ==
    ASSUME TypeOK, DroppedBound, NEW ch \in Channels
    PROVE  OverflowItem(ch) \in Item
<1>1. stream[ch] - dropped[ch] \in Nat /\ stream[ch] - dropped[ch] <= stream[ch]
  BY DEF TypeOK, CallerType, DroppedBound
<1>. QED
  BY <1>1, NewItemType DEF OverflowItem, TypeOK, CallerType, Kinds

LEMMA ItemParts ==
    ASSUME NEW it \in Item
    PROVE  /\ it.ch \in Channels /\ it.ch \in Nat
           /\ it.n \in Nat /\ it.from \in Nat /\ it.to - it.from \in Nat
<1>1. it \in [kind : Kinds, ch : Channels, from : Nat, to : Nat, n : Nat] /\ it.from <= it.to
  BY DEF Item
<1>2. it.ch \in Channels /\ it.n \in Nat /\ it.from \in Nat /\ it.to \in Nat
  BY <1>1
<1>3. it.ch \in Nat
  BY <1>2, ChannelsNat, Zenon
<1>4. it.to - it.from \in Nat
  BY <1>1, <1>2
<1>. QED
  BY <1>2, <1>3, <1>4

\* What EventFirst() gives is no item or one.
LEMMA EventFirstType ==
    ASSUME TypeOK, DroppedBound, NEW ch \in Channels, NEW due \in BOOLEAN,
           NEW ev \in EventFirst(due, ch)
    PROVE  ev \in Seq(Item) /\ Len(ev) \in {0, 1}
<1>1. <<OverflowItem(ch)>> \in Seq(Item) /\ Len(<<OverflowItem(ch)>>) = 1
  BY OverflowItemType
<1>2. <<>> \in Seq(Item) /\ Len(<<>>) = 0
  OBVIOUS
<1>3. ev = <<OverflowItem(ch)>> \/ ev = <<>>
  BY DEF EventFirst
<1>. QED
  BY <1>1, <1>2, <1>3

\* What each part of the type says of a step that leaves its variables alone.
LEMMA Frames ==
    ASSUME TypeInv
    PROVE  /\ UNCHANGED caller => CallerType' /\ DroppedBound'
           /\ UNCHANGED shared => SharedType'
           /\ UNCHANGED storage /\ taken' >= taken /\ taken' \in Nat => StorageType'
<1> USE DEF TypeInv, TypeOK
<1>1. UNCHANGED caller => CallerType' /\ DroppedBound'
  BY DEF caller, CallerType, DroppedBound
<1>2. UNCHANGED shared => SharedType'
  BY DEF shared, SharedType
<1>3. UNCHANGED storage /\ taken' >= taken /\ taken' \in Nat => StorageType'
  BY DEF storage, StorageType, WriterType
<1>. QED
  BY <1>1, <1>2, <1>3

\* The writer's steps.
LEMMA WriterTypeStep == TypeInv /\ WriterNext => TypeInv'
<1> SUFFICES ASSUME TypeInv, WriterNext PROVE TypeInv'
  OBVIOUS
<1> USE DEF TypeInv, TypeOK
<1>1. CASE Take
  <2>1. FlagsType'
    BY <1>1 DEF FlagsType, Take, caller, shared, storage
  <2>2. CallerType' /\ DroppedBound' /\ SharedType'
    BY <1>1, Frames DEF Take, caller, shared, SharedType
  <2>3. WriterType'
    BY <1>1 DEF WriterType, SharedType, Take, shared, Pcs
  <2>4. StorageType'
    BY <1>1 DEF WriterType, StorageType, PipelineInv, Take, storage
  <2>5. PipelineInv'
    BY <1>1 DEF WriterType, StorageType, PipelineInv, Working, Take, caller, shared, storage
  <2>. QED
    BY <2>1, <2>2, <2>3, <2>4, <2>5
<1>2. CASE Serialize
  <2>1. FlagsType'
    BY <1>2 DEF FlagsType, Serialize, caller, shared, storage
  <2>2. CallerType' /\ DroppedBound' /\ SharedType'
    BY <1>2, Frames DEF Serialize, caller, shared, SharedType
  <2> DEFINE it == log[taken + 1]
  <2>a. it \in Item /\ taken + 1 \in Nat
    BY <1>2 DEF WriterType, SharedType, Serialize
  <2>b. /\ it.ch \in Channels /\ it.ch \in Nat
        /\ it.n \in Nat /\ it.from \in Nat /\ it.to - it.from \in Nat
    BY <2>a, ItemParts
  <2>c. /\ wpc = "serialize" /\ wpc' = wpc
        /\ taken < listEnd /\ taken' = taken + 1
        /\ UNCHANGED <<caller, shared, listEnd, sawClosing, offset, flushed, storage>>
    BY <1>2 DEF Serialize
  <2>d. held' \in Nat
    <3>1. held' = held + Size(it)
      BY <1>2 DEF Serialize
    <3>2. Size(it) \in Nat
      BY <2>b, RecorderAssumption DEF Size
    <3>. QED
      BY <3>1, <3>2 DEF WriterType
  <2>e. lanes' \in [Channels -> Lane] /\ indexOut' \in Seq(Entry)
    <3>1. lanes \in [Channels -> Lane] /\ indexOut \in Seq(Entry)
      BY DEF WriterType
    <3>2. CASE UNCHANGED <<lanes, indexOut>>
      BY <3>1, <3>2
    <3>3. CASE it.kind = "data" /\ lanes' = [lanes EXCEPT ![it.ch] = LaneChunk(@, it.from, it.to - it.from, taken + 1)] /\ indexOut' = indexOut
      BY <3>1, <3>3, <2>a, <2>b, LaneChunkType
    <3>4. CASE /\ lanes' = [lanes EXCEPT ![it.ch] = LaneHeartbeat(@, it.n, it.from)]
               /\ indexOut' = indexOut \o EntriesFor(lanes[it.ch], it.ch, it.n, it.from)
      <4>1. lanes[it.ch] \in Lane
        BY <3>1, <2>b
      <4>2. /\ LaneHeartbeat(lanes[it.ch], it.n, it.from) \in Lane
            /\ EntriesFor(lanes[it.ch], it.ch, it.n, it.from) \in Seq(Entry)
        BY <4>1, <2>b, LaneHeartbeatType
      <4>3. lanes' \in [Channels -> Lane]
        BY <3>1, <3>4, <4>2, Zenon
      <4>4. indexOut' \in Seq(Entry)
        BY <3>1, <3>4, <4>2
      <4>. QED
        BY <4>3, <4>4
    <3>5. \/ UNCHANGED <<lanes, indexOut>>
          \/ /\ it.kind = "data"
             /\ lanes' = [lanes EXCEPT ![it.ch] =
                             LaneChunk(@, it.from, it.to - it.from, taken + 1)]
             /\ indexOut' = indexOut
          \/ /\ lanes' = [lanes EXCEPT ![it.ch] = LaneHeartbeat(@, it.n, it.from)]
             /\ indexOut' = indexOut \o EntriesFor(lanes[it.ch], it.ch, it.n, it.from)
      BY <1>2, Zenon DEF Serialize
    <3>. QED
      BY <3>2, <3>3, <3>4, <3>5
  <2>3. WriterType'
    BY <2>c, <2>d, <2>e DEF WriterType, shared
  <2>4. StorageType'
    BY <1>2 DEF WriterType, StorageType, PipelineInv, Serialize, storage
  <2>f. failed => failed'
    BY <1>2 DEF Serialize
  <2>5. PipelineInv'
    BY <2>c, <2>f DEF PipelineInv, Working, caller, shared, storage
  <2>. QED
    BY <2>1, <2>2, <2>3, <2>4, <2>5
<1>3. CASE StartFlush
  <2>1. FlagsType'
    BY <1>3 DEF FlagsType, StartFlush, Listed, caller, shared, storage
  <2>2. CallerType' /\ DroppedBound' /\ SharedType'
    BY <1>3, Frames DEF StartFlush, caller, shared, SharedType
  <2>3. WriterType'
    BY <1>3 DEF WriterType, SharedType, StartFlush, Listed, shared, Pcs
  <2>4. StorageType'
    BY <1>3 DEF WriterType, StorageType, PipelineInv, StartFlush, storage
  <2>5. PipelineInv'
    BY <1>3 DEF WriterType, StorageType, PipelineInv, Working, StartFlush, Listed, caller, shared, storage
  <2>. QED
    BY <2>1, <2>2, <2>3, <2>4, <2>5
<1>4. CASE SkipFlush
  <2>1. FlagsType'
    BY <1>4 DEF FlagsType, SkipFlush, Listed, caller, shared, storage
  <2>2. CallerType' /\ DroppedBound' /\ SharedType'
    BY <1>4, Frames DEF SkipFlush, caller, shared, SharedType
  <2>3. WriterType'
    BY <1>4 DEF WriterType, SharedType, SkipFlush, Listed, shared, Pcs
  <2>4. StorageType'
    BY <1>4 DEF WriterType, StorageType, PipelineInv, SkipFlush, storage
  <2>5. PipelineInv'
    BY <1>4 DEF WriterType, StorageType, PipelineInv, Working, SkipFlush, Listed, caller, shared, storage
  <2>. QED
    BY <2>1, <2>2, <2>3, <2>4, <2>5
<1>5. CASE Write
  <2>1. FlagsType'
    BY <1>5 DEF FlagsType, Write, Chunked, caller, shared, storage
  <2>2. CallerType' /\ DroppedBound' /\ SharedType'
    BY <1>5, Frames DEF Write, Chunked, caller, shared, SharedType
  <2>3. WriterType'
    BY <1>5 DEF WriterType, SharedType, Write, Chunked, shared, Pcs
  <2>4. StorageType'
    BY <1>5 DEF WriterType, StorageType, PipelineInv, Write, Chunked, storage
  <2>5. PipelineInv'
    BY <1>5 DEF WriterType, StorageType, PipelineInv, Working, Write, Chunked, caller, shared, storage
  <2>. QED
    BY <2>1, <2>2, <2>3, <2>4, <2>5
<1>6. CASE WriteIndex
  <2>1. FlagsType'
    BY <1>6 DEF FlagsType, WriteIndex, caller, shared, storage
  <2>2. CallerType' /\ DroppedBound' /\ SharedType'
    BY <1>6, Frames DEF WriteIndex, caller, shared, SharedType
  <2>3. WriterType'
    BY <1>6 DEF WriterType, SharedType, WriteIndex, shared, Pcs
  <2>4. StorageType'
    <3>1. \A more \in Seq(Entry) : index \o more \in Seq(Entry) /\ Len(index \o more) >= Len(index)
      BY DEF StorageType
    <3>2. \A n \in 0 .. Len(indexOut) - 1 : SubSeq(indexOut, 1, n) \in Seq(Entry)
      BY DEF WriterType
    <3>3. index' \in Seq(Entry) /\ Len(index') >= Len(index)
      BY <1>6, <3>1, <3>2 DEF WriteIndex, WriterType
    <3>. QED
      BY <1>6, <3>3 DEF WriterType, StorageType, WriteIndex
  <2>5. PipelineInv'
    BY <1>6 DEF WriterType, StorageType, PipelineInv, Working, WriteIndex, caller, shared, storage
  <2>. QED
    BY <2>1, <2>2, <2>3, <2>4, <2>5
<1>7. CASE Sync
  <2>1. FlagsType'
    BY <1>7 DEF FlagsType, Sync, caller, shared, storage
  <2>2. CallerType' /\ DroppedBound' /\ SharedType'
    BY <1>7, Frames DEF Sync, caller, shared, SharedType
  <2>3. WriterType'
    BY <1>7 DEF WriterType, SharedType, Sync, shared, Pcs
  <2>4. StorageType'
    BY <1>7 DEF WriterType, StorageType, PipelineInv, Sync, storage
  <2>5. PipelineInv'
    BY <1>7 DEF WriterType, StorageType, PipelineInv, Working, Sync, caller, shared, storage
  <2>. QED
    BY <2>1, <2>2, <2>3, <2>4, <2>5
<1>8. CASE SyncIndex
  <2>1. FlagsType'
    BY <1>8 DEF FlagsType, SyncIndex, caller, shared, storage
  <2>2. CallerType' /\ DroppedBound' /\ SharedType'
    BY <1>8, Frames DEF SyncIndex, caller, shared, SharedType
  <2>3. WriterType'
    BY <1>8 DEF WriterType, SharedType, SyncIndex, shared, Pcs
  <2>4. StorageType'
    BY <1>8 DEF WriterType, StorageType, PipelineInv, SyncIndex, storage
  <2>5. PipelineInv'
    BY <1>8 DEF WriterType, StorageType, PipelineInv, Working, SyncIndex, caller, shared, storage
  <2>. QED
    BY <2>1, <2>2, <2>3, <2>4, <2>5
<1>9. CASE Publish
  <2>1. FlagsType'
    BY <1>9 DEF FlagsType, Publish, FirstError, PassIsLast, caller, shared, storage
  <2>2. CallerType' /\ DroppedBound' /\ SharedType'
    BY <1>9, Frames DEF Publish, caller, shared, SharedType
  <2>3. WriterType'
    BY <1>9 DEF WriterType, SharedType, Publish, FirstError, PassIsLast, shared, Pcs
  <2>4. StorageType'
    BY <1>9 DEF WriterType, StorageType, PipelineInv, Publish, storage
  <2>5. PipelineInv'
    BY <1>9 DEF WriterType, StorageType, PipelineInv, Working, Publish, FirstError, PassIsLast, caller, shared, storage
  <2>. QED
    BY <2>1, <2>2, <2>3, <2>4, <2>5
<1>. QED
  BY <1>1, <1>2, <1>3, <1>4, <1>5, <1>6, <1>7, <1>8, <1>9 DEF WriterNext

\* What a step of the caller leaves of the writer and of storage.
LEMMA CallerFrame ==
    ASSUME TypeInv, UNCHANGED <<writer, storage, error>>, phase # "lost",
           phase' \notin {"open", "lost"},
           log' \in Seq(Item), Len(log') >= Len(log)
    PROVE  WriterType' /\ StorageType' /\ PipelineInv'
<1>1. WriterType'
  BY DEF TypeInv, TypeOK, WriterType, SharedType, writer
<1>2. StorageType'
  BY DEF TypeInv, TypeOK, WriterType, StorageType, writer, storage
<1>3. PipelineInv'
  BY DEF TypeInv, PipelineInv, Working, writer, storage
<1>. QED
  BY <1>1, <1>2, <1>3

\* The items a call pushes: an overflow event if there is one, and the item it is for.
LEMMA AppendType ==
    ASSUME NEW ev \in Seq(Item), Len(ev) \in {0, 1}, NEW it \in Item
    PROVE  /\ Append(ev, it) \in Seq(Item)
           /\ Len(Append(ev, it)) = Len(ev) + 1
           /\ (Len(ev) + 1) * ItemSize \in Nat
<1>1. Append(ev, it) \in Seq(Item) /\ Len(Append(ev, it)) = Len(ev) + 1
  OBVIOUS
<1>2. (Len(ev) + 1) * ItemSize \in Nat
  BY RecorderAssumption
<1>. QED
  BY <1>1, <1>2

\* What a call that queues or refuses leaves of the log.
LEMMA PushedOrNot ==
    ASSUME TypeInv, NEW items \in Seq(Item), NEW need \in Nat,
           Push(items, need) \/ UNCHANGED shared
    PROVE  /\ log' \in Seq(Item) /\ Len(log') >= Len(log)
           /\ queued' \in Int
           /\ closing' = closing /\ error' = error
<1>1. CASE Push(items, need)
  BY <1>1, PushType DEF TypeInv
<1>2. CASE UNCHANGED shared
  BY <1>2 DEF shared, TypeInv, TypeOK, SharedType
<1>. QED
  BY <1>1, <1>2

\* What remains to be announced after an overflow event for ch.
LEMMA DroppedAfterType ==
    ASSUME TypeInv, NEW ch \in Channels, NEW ev
    PROVE  /\ DroppedAfter(ch, ev) \in [Channels -> Nat]
           /\ DroppedCtrlAfter(ev) \in Nat
           /\ \A c \in Channels : DroppedAfter(ch, ev)[c] <= stream[c]
BY DEF TypeInv, TypeOK, CallerType, DroppedBound, DroppedAfter, DroppedCtrlAfter

LEMMA DataTypeStep ==
    ASSUME TypeInv, NEW ch \in Channels, NEW len \in PieceLens, RecorderData(ch, len)
    PROVE  TypeInv'
<1>1. /\ phase = "recording" /\ phase' = phase
      /\ stream' = [stream EXCEPT ![ch] = @ + len]
      /\ fresh' = [NotParsing EXCEPT ![ch] = len]
      /\ UNCHANGED <<nextGrid, endQueued, heartbeats, capOverflow, writer, storage>>
  BY DEF RecorderData, Recording
<1>2. len \in Nat /\ stream \in [Channels -> Nat]
  BY RecorderAssumption DEF TypeInv, TypeOK, CallerType
<1>3. PICK ev \in EventFirst(dropped[ch] > 0 \/ droppedCtrl > 0, ch) :
         DataQueued(ch, len, ev) \/ DataDropped(ch, len)
  BY DEF RecorderData
<1>4. ev \in Seq(Item) /\ Len(ev) \in {0, 1}
  <2>1. (dropped[ch] > 0 \/ droppedCtrl > 0) \in BOOLEAN
    BY DEF TypeInv, TypeOK, CallerType
  <2>. QED
    BY <2>1, <1>3, EventFirstType DEF TypeInv
<1> DEFINE it == NewItem("data", ch, stream[ch], stream[ch] + len, 0)
           need == (Len(ev) + 1) * ItemSize + len
<1>5. it \in Item
  BY <1>2, NewItemType DEF Kinds
<1>6. Append(ev, it) \in Seq(Item) /\ need \in Nat
  BY <1>2, <1>4, <1>5, AppendType
<1>7. /\ Push(Append(ev, it), need) \/ UNCHANGED shared
      /\ DataQueued(ch, len, ev) => /\ dropped' = DroppedAfter(ch, ev)
                                    /\ droppedCtrl' = DroppedCtrlAfter(ev)
                                    /\ overflowBytes' = overflowBytes
      /\ DataDropped(ch, len) => /\ dropped' = [dropped EXCEPT ![ch] = @ + len]
                                 /\ droppedCtrl' = droppedCtrl
                                 /\ overflowBytes' = overflowBytes + len
  BY <1>3 DEF DataQueued, DataDropped
<1> HIDE DEF it, need
<1>8. /\ log' \in Seq(Item) /\ Len(log') >= Len(log)
      /\ queued' \in Int
      /\ closing' = closing /\ error' = error
  BY <1>6, <1>7, PushedOrNot
<1>9. /\ dropped' \in [Channels -> Nat]
      /\ droppedCtrl' \in Nat
      /\ overflowBytes' \in Nat
      /\ DroppedBound'
  <2>1. /\ dropped \in [Channels -> Nat]
        /\ \A c \in Channels : dropped[c] <= stream[c]
        /\ droppedCtrl \in Nat
        /\ overflowBytes \in Nat
    BY DEF TypeInv, TypeOK, CallerType, DroppedBound
  <2>2. stream' \in [Channels -> Nat] /\ \A c \in Channels : stream'[c] >= stream[c]
    BY <1>1, <1>2
  <2>3. CASE DataQueued(ch, len, ev)
    <3>1. /\ dropped' = DroppedAfter(ch, ev)
          /\ droppedCtrl' = DroppedCtrlAfter(ev)
          /\ overflowBytes' = overflowBytes
      BY <1>7, <2>3
    <3>2. /\ dropped' \in [Channels -> Nat]
          /\ droppedCtrl' \in Nat
          /\ \A c \in Channels : dropped'[c] <= stream[c]
      BY <3>1, DroppedAfterType
    <3>. QED
      BY <1>2, <2>1, <2>2, <3>1, <3>2 DEF DroppedBound
  <2>4. CASE DataDropped(ch, len)
    <3>1. /\ dropped' = [dropped EXCEPT ![ch] = @ + len]
          /\ droppedCtrl' = droppedCtrl
          /\ overflowBytes' = overflowBytes + len
      BY <1>7, <2>4
    <3>2. dropped' \in [Channels -> Nat] /\ droppedCtrl' \in Nat /\ overflowBytes' \in Nat
      BY <1>2, <2>1, <3>1
    <3>3. \A c \in Channels : dropped'[c] <= stream'[c]
      BY <1>1, <1>2, <2>1, <3>1
    <3>. QED
      BY <3>2, <3>3 DEF DroppedBound
  <2>. QED
    BY <2>3, <2>4, <1>3
<1>10. CallerType'
  <2>1. CallerType
    BY DEF TypeInv, TypeOK
  <2>2. stream' \in [Channels -> Nat]
    BY <1>1, <1>2
  <2>3. fresh' \in [Channels -> Nat]
    BY <1>1, <1>2 DEF NotParsing
  <2>4. phase' \in Phases /\ UNCHANGED <<nextGrid, heartbeats, capOverflow>>
    BY <1>1, <2>1 DEF CallerType
  <2>. QED
    BY <1>9, <2>1, <2>2, <2>3, <2>4 DEF CallerType
<1>11. WriterType' /\ StorageType' /\ PipelineInv'
  BY <1>1, <1>8, CallerFrame
<1>12. FlagsType'
  BY <1>1, <1>8, Zenon DEF TypeInv, TypeOK, FlagsType, writer, storage
<1>. QED
  BY <1>8, <1>9, <1>10, <1>11, <1>12 DEF TypeInv, TypeOK, SharedType

LEMMA ControlTypeStep ==
    ASSUME TypeInv, RecorderControl
    PROVE  TypeInv'
<1>1. /\ phase = "recording" /\ phase' = phase
      /\ fresh' = NotParsing
      /\ UNCHANGED <<stream, overflowBytes, nextGrid, endQueued, heartbeats, capOverflow, writer,
                     storage>>
  BY DEF RecorderControl, Recording
<1> DEFINE it == NewItem("control", 0, 0, 0, 0)
<1>2. PICK ev \in EventFirst(droppedCtrl > 0, 0) :
         \/ /\ Push(Append(ev, it), (Len(ev) + 1) * ItemSize)
            /\ dropped' = DroppedAfter(0, ev)
            /\ droppedCtrl' = DroppedCtrlAfter(ev)
         \/ /\ droppedCtrl' = droppedCtrl + 1
            /\ UNCHANGED <<shared, dropped>>
  BY DEF RecorderControl
<1>3. ev \in Seq(Item) /\ Len(ev) \in {0, 1}
  <2>1. (droppedCtrl > 0) \in BOOLEAN
    BY DEF TypeInv, TypeOK, CallerType
  <2>. QED
    BY <2>1, <1>2, ChannelsNat, EventFirstType DEF TypeInv
<1>4. it \in Item
  BY ChannelsNat, NewItemType DEF Kinds
<1> HIDE DEF it
<1>5. Append(ev, it) \in Seq(Item) /\ (Len(ev) + 1) * ItemSize \in Nat
  BY <1>3, <1>4, AppendType
<1>6. /\ log' \in Seq(Item) /\ Len(log') >= Len(log)
      /\ queued' \in Int
      /\ closing' = closing /\ error' = error
  BY <1>2, <1>5, PushedOrNot
<1>7. /\ dropped' \in [Channels -> Nat]
      /\ droppedCtrl' \in Nat
      /\ DroppedBound'
  BY <1>1, <1>2, ChannelsNat, DroppedAfterType DEF TypeInv, TypeOK, CallerType, DroppedBound
<1>8. CallerType'
  BY <1>1, <1>7 DEF TypeInv, TypeOK, CallerType, NotParsing
<1>9. WriterType' /\ StorageType' /\ PipelineInv'
  BY <1>1, <1>6, CallerFrame
<1>10. FlagsType'
  BY <1>1, <1>6, Zenon DEF TypeInv, TypeOK, FlagsType, writer, storage
<1>. QED
  BY <1>6, <1>7, <1>8, <1>9, <1>10 DEF TypeInv, TypeOK, SharedType

LEMMA EventTypeStep ==
    ASSUME TypeInv, NEW ch \in Channels, NEW bytes \in BackendLosses, RecorderEvent(ch, bytes)
    PROVE  TypeInv'
<1>1. /\ phase = "recording" /\ phase' = phase
      /\ fresh' = NotParsing
      /\ capOverflow' = capOverflow + bytes
      /\ UNCHANGED <<stream, dropped, droppedCtrl, overflowBytes, nextGrid, endQueued, heartbeats,
                     writer, storage>>
  BY DEF RecorderEvent, Recording
<1>2. Push(<<NewItem("event", ch, 0, 0, bytes)>>, ItemSize) \/ UNCHANGED shared
  BY DEF RecorderEvent
<1>3. bytes \in Nat /\ ItemSize \in Nat
  BY RecorderAssumption
<1>4. <<NewItem("event", ch, 0, 0, bytes)>> \in Seq(Item)
  BY <1>3, NewItemType DEF Kinds
<1>5. /\ log' \in Seq(Item) /\ Len(log') >= Len(log)
      /\ queued' \in Int
      /\ closing' = closing /\ error' = error
  BY <1>2, <1>3, <1>4, PushedOrNot
<1>6. CallerType' /\ DroppedBound'
  BY <1>1, <1>3 DEF TypeInv, TypeOK, CallerType, NotParsing, DroppedBound
<1>7. WriterType' /\ StorageType' /\ PipelineInv'
  BY <1>1, <1>5, CallerFrame
<1>8. FlagsType'
  BY <1>1, <1>5, Zenon DEF TypeInv, TypeOK, FlagsType, writer, storage
<1>. QED
  BY <1>5, <1>6, <1>7, <1>8 DEF TypeInv, TypeOK, SharedType

LEMMA HeartbeatTypeStep ==
    ASSUME TypeInv, NEW ch \in Channels, NEW grid \in 0 .. MaxGrid,
           NEW pos \in HeartbeatStarts(ch), RecorderHeartbeat(ch, grid, pos)
    PROVE  TypeInv'
<1>1. /\ phase = "recording" /\ phase' = phase
      /\ heartbeats' = [heartbeats EXCEPT ![ch] = Append(@, <<grid, pos>>)]
      /\ UNCHANGED <<stream, dropped, droppedCtrl, overflowBytes, endQueued, fresh, capOverflow,
                     writer, storage>>
  BY DEF RecorderHeartbeat, Recording
<1>2. /\ \/ nextGrid' = nextGrid
         \/ nextGrid' = [nextGrid EXCEPT ![ch] = NextGrid(grid)]
      /\ Push(<<NewItem("mark", ch, pos, pos, grid)>>, ItemSize) \/ UNCHANGED shared
  BY DEF RecorderHeartbeat, shared
<1>3. grid \in Nat /\ NextGrid(grid) \in Nat /\ ItemSize \in Nat
  BY RecorderAssumption, KAssumption DEF NextGrid
<1>4. pos \in Nat
  <2>1. heartbeats[ch] \in Seq(Nat \X Nat) /\ stream[ch] \in Nat
    BY DEF TypeInv, TypeOK, CallerType
  <2>2. LastHeartbeat(ch).end \in Nat
    <3>1. CASE heartbeats[ch] = <<>>
      BY <3>1 DEF LastHeartbeat
    <3>2. CASE heartbeats[ch] # <<>>
      <4>1. heartbeats[ch][Len(heartbeats[ch])] \in Nat \X Nat
        BY <2>1, <3>2
      <4>2. heartbeats[ch][Len(heartbeats[ch])][2] + HeartbeatLen \in Nat
        BY <4>1, RecorderAssumption
      <4>. QED
        BY <3>2, <4>2 DEF LastHeartbeat
    <3>. QED
      BY <3>1, <3>2
  <2>3. pos \in LastHeartbeat(ch).end .. stream[ch]
    BY DEF HeartbeatStarts
  <2>. QED
    BY <2>1, <2>2, <2>3
<1>5. <<NewItem("mark", ch, pos, pos, grid)>> \in Seq(Item)
  BY <1>3, <1>4, NewItemType DEF Kinds
<1>6. /\ log' \in Seq(Item) /\ Len(log') >= Len(log)
      /\ queued' \in Int
      /\ closing' = closing /\ error' = error
  BY <1>2, <1>3, <1>5, PushedOrNot
<1>7. nextGrid' \in [Channels -> Nat] /\ heartbeats' \in [Channels -> Seq(Nat \X Nat)]
  BY <1>1, <1>2, <1>3, <1>4 DEF TypeInv, TypeOK, CallerType
<1>8. CallerType' /\ DroppedBound'
  BY <1>1, <1>7 DEF TypeInv, TypeOK, CallerType, DroppedBound
<1>9. WriterType' /\ StorageType' /\ PipelineInv'
  BY <1>1, <1>6, CallerFrame
<1>10. FlagsType'
  BY <1>1, <1>6, Zenon DEF TypeInv, TypeOK, FlagsType, writer, storage
<1>. QED
  BY <1>6, <1>8, <1>9, <1>10 DEF TypeInv, TypeOK, SharedType

LEMMA BeginTypeStep ==
    ASSUME TypeInv, Begin
    PROVE  TypeInv'
<1>1. /\ phase = "open" /\ phase' = "recording" /\ wpc' = "idle"
      /\ UNCHANGED <<stream, dropped, droppedCtrl, overflowBytes, nextGrid, endQueued, heartbeats,
                     fresh, capOverflow, listEnd, taken, held, sawClosing, failed, offset, flushed,
                     lanes, indexOut, storage>>
      /\ Push(<<NewItem("header", 0, 0, 0, 0)>>, ItemSize)
  BY DEF Begin
<1>2. <<NewItem("header", 0, 0, 0, 0)>> \in Seq(Item) /\ ItemSize \in Nat
  BY RecorderAssumption, ChannelsNat, NewItemType DEF Kinds
<1>3. /\ log' \in Seq(Item) /\ Len(log') >= Len(log)
      /\ queued' \in Int
      /\ closing' = closing /\ error' = error
  BY <1>1, <1>2, PushedOrNot
<1>4. CallerType' /\ DroppedBound'
  BY <1>1 DEF TypeInv, TypeOK, CallerType, DroppedBound, Phases
<1>5. WriterType'
  BY <1>1, <1>3 DEF TypeInv, TypeOK, WriterType, SharedType, Pcs
<1>6. StorageType'
  BY <1>1 DEF TypeInv, TypeOK, WriterType, StorageType, storage
<1>7. PipelineInv'
  BY <1>1, <1>3 DEF TypeInv, PipelineInv, Working, storage
<1>8. FlagsType'
  BY <1>1, <1>3, Zenon DEF TypeInv, TypeOK, FlagsType, storage
<1>. QED
  BY <1>3, <1>4, <1>5, <1>6, <1>7, <1>8 DEF TypeInv, TypeOK, SharedType

LEMMA CloseTypeStep ==
    ASSUME TypeInv, CloseEnd \/ CloseSignal \/ CloseJoin \/ CloseUnbegun
    PROVE  TypeInv'
<1>1. /\ phase \in {"open", "recording", "ending", "joining"}
      /\ phase' \in {"ending", "joining", "closed"}
      /\ UNCHANGED <<stream, dropped, droppedCtrl, overflowBytes, nextGrid, heartbeats, fresh,
                     capOverflow, writer, storage>>
  BY DEF CloseEnd, CloseSignal, CloseJoin, CloseUnbegun, Recording
<1>2. <<NewItem("end", 0, 0, 0, overflowBytes)>> \in Seq(Item) /\ ItemSize \in Nat
  BY RecorderAssumption, ChannelsNat, NewItemType DEF Kinds, TypeInv, TypeOK, CallerType
<1>3. /\ log' \in Seq(Item) /\ Len(log') >= Len(log)
      /\ queued' \in Int
      /\ error' = error
  <2>1. CASE CloseEnd
    <3>1. Push(<<NewItem("end", 0, 0, 0, overflowBytes)>>, ItemSize) \/ UNCHANGED shared
      BY <2>1 DEF CloseEnd
    <3>. QED
      BY <1>2, <3>1, PushedOrNot
  <2>2. CASE CloseSignal \/ CloseJoin \/ CloseUnbegun
    BY <2>2 DEF CloseSignal, CloseJoin, CloseUnbegun, shared, TypeInv, TypeOK, SharedType
  <2>. QED
    BY <2>1, <2>2
<1>4. CallerType' /\ DroppedBound'
  BY <1>1 DEF TypeInv, TypeOK, CallerType, DroppedBound, Phases
<1>5. WriterType' /\ StorageType' /\ PipelineInv'
  BY <1>1, <1>3, CallerFrame
<1>6. closing' \in BOOLEAN /\ endQueued' \in BOOLEAN
  BY Zenon DEF CloseEnd, CloseSignal, CloseJoin, CloseUnbegun, Push, shared, TypeInv, TypeOK, FlagsType
<1>7. FlagsType'
  BY <1>1, <1>3, <1>6, Zenon DEF TypeInv, TypeOK, FlagsType, writer, storage
<1>. QED
  BY <1>3, <1>4, <1>5, <1>7 DEF TypeInv, TypeOK, SharedType

LEMMA PowerLossTypeStep ==
    ASSUME TypeInv, PowerLoss
    PROVE  TypeInv'
<1>1. /\ phase' = "lost" /\ wpc' = "off"
      /\ fileLen' \in fileSynced .. fileLen
      /\ UNCHANGED <<stream, dropped, droppedCtrl, overflowBytes, nextGrid, endQueued, heartbeats,
                     fresh, capOverflow, shared, listEnd, taken, held, sawClosing, failed, offset,
                     flushed, lanes, indexOut, torn, fileSynced, indexSynced>>
  BY DEF PowerLoss
<1>2. PICK n \in indexSynced .. Len(index) : index' = SubSeq(index, 1, n)
  BY DEF PowerLoss
<1>3. index' \in Seq(Entry) /\ Len(index') = n
  BY <1>2 DEF TypeInv, TypeOK, StorageType
<1>4. CallerType' /\ DroppedBound'
  BY <1>1 DEF TypeInv, TypeOK, CallerType, DroppedBound, Phases
<1>5. SharedType' /\ WriterType'
  BY <1>1 DEF TypeInv, TypeOK, SharedType, WriterType, shared, Pcs
<1>6. StorageType'
  BY <1>1, <1>2, <1>3 DEF TypeInv, TypeOK, WriterType, StorageType
<1>7. PipelineInv'
  BY <1>1 DEF TypeInv, PipelineInv, Working, shared
<1>8. FlagsType'
  BY <1>1, Zenon DEF TypeInv, TypeOK, FlagsType, shared
<1>. QED
  BY <1>4, <1>5, <1>6, <1>7, <1>8 DEF TypeInv, TypeOK

LEMMA TypeStep == TypeInv /\ [Next]_vars => TypeInv'
<1> SUFFICES ASSUME TypeInv, [Next]_vars PROVE TypeInv'
  OBVIOUS
<1>1. CASE CallerNext
  BY <1>1, BeginTypeStep, DataTypeStep, ControlTypeStep, EventTypeStep, HeartbeatTypeStep,
     CloseTypeStep DEF CallerNext
<1>2. CASE WriterNext
  BY <1>2, WriterTypeStep
<1>3. CASE PowerLoss
  BY <1>3, PowerLossTypeStep
<1>4. CASE UNCHANGED vars
  <2>1. CallerType' /\ DroppedBound' /\ SharedType'
    BY <1>4, Frames DEF vars
  <2>2. WriterType' /\ StorageType' /\ PipelineInv'
    BY <1>4 DEF vars, caller, shared, writer, storage, TypeInv, TypeOK, SharedType, WriterType,
                StorageType, PipelineInv, Working
  <2>3. FlagsType'
    BY <1>4, Zenon DEF vars, caller, shared, writer, storage, TypeInv, TypeOK, FlagsType
  <2>. QED
    BY <2>1, <2>2, <2>3 DEF TypeInv, TypeOK
<1>. QED
  BY <1>1, <1>2, <1>3, <1>4 DEF Next, Over

\* Every variable of the recorder keeps its type, and the file, the batch, the writer's list and
\* the queue stay intervals of what was accepted, one after the other, whatever the two threads
\* do and whatever fails.
THEOREM TypeCorrect == Spec => []TypeOK
<1>1. TypeInv => TypeOK
  BY DEF TypeInv
<1>. QED
  BY <1>1, TypeInit, TypeStep, PTL DEF Spec

-----------------------------------------------------------------------------
(* Nothing is written after a write that failed. *)

\* Once a chunk was cut short, the capture file and the index file stay as they are while the
\* power is on.
THEOREM TornStaysLast == Spec => TornIsLast
<1>1. TypeInv /\ [Next]_vars =>
         [torn /\ phase' # "lost" => UNCHANGED <<fileLen, index>>]_vars
  <2> SUFFICES ASSUME TypeInv, Next, torn, phase' # "lost"
               PROVE  UNCHANGED <<fileLen, index>>
    OBVIOUS
  <2>1. CASE CallerNext
    BY <2>1 DEF CallerNext, Begin, RecorderData, RecorderControl, RecorderEvent,
                RecorderHeartbeat, CloseEnd, CloseSignal, CloseJoin, CloseUnbegun, storage
  <2>2. wpc \notin {"write", "writeIndex"}
    BY DEF TypeInv, PipelineInv, Working
  <2>3. CASE WriterNext
    BY <2>2, <2>3 DEF WriterNext, Take, Serialize, StartFlush, SkipFlush, Write, WriteIndex,
                      Sync, SyncIndex, Publish, storage
  <2>4. CASE PowerLoss
    BY <2>4 DEF PowerLoss
  <2>5. CASE Over
    BY <2>5 DEF Over, vars, storage
  <2>. QED
    BY <2>1, <2>3, <2>4, <2>5 DEF Next
<1>. QED
  BY <1>1, TypeInit, TypeStep, PTL DEF Spec, TornIsLast

-----------------------------------------------------------------------------
(* Every gap is marked. *)

\* An item that tells of data channel ch.
TellsOf(it, ch) == it.kind \in {"data", "overflow"} /\ it.ch = ch

\* The items of l tell of data channel ch's stream up to offset upto: none twice, none out of
\* order, and from any of them back to the start without a hole.
ToldUpTo(l, ch, upto) ==
    /\ \A j \in 1 .. Len(l) : TellsOf(l[j], ch) =>
          /\ l[j].to <= upto
          /\ \A i \in 1 .. j - 1 : TellsOf(l[i], ch) => l[i].to <= l[j].from
          /\ \A p \in 0 .. l[j].to - 1 :
                \E i \in 1 .. j : TellsOf(l[i], ch) /\ l[i].from <= p /\ p < l[i].to
    /\ \A p \in 0 .. upto - 1 :
          \E i \in 1 .. Len(l) : TellsOf(l[i], ch) /\ l[i].from <= p /\ p < l[i].to

\* All that was accepted tells of each stream but for what is still to be announced.
StreamTold == \A ch \in Channels : ToldUpTo(log, ch, stream[ch] - dropped[ch])

\* An item that does not tell of ch changes nothing.
LEMMA OtherAppended ==
    ASSUME NEW l \in Seq(Item), NEW ch \in Channels, NEW upto \in Nat, ToldUpTo(l, ch, upto),
           NEW it \in Item, ~TellsOf(it, ch)
    PROVE  ToldUpTo(Append(l, it), ch, upto)
<1> DEFINE m == Append(l, it)
<1>1. /\ Len(m) = Len(l) + 1 /\ Len(l) \in Nat
      /\ m[Len(m)] = it
      /\ \A i \in 1 .. Len(l) : m[i] = l[i]
  OBVIOUS
<1> HIDE DEF m
<1>2. ASSUME NEW j \in 1 .. Len(m), TellsOf(m[j], ch)
      PROVE  j \in 1 .. Len(l) /\ m[j] = l[j]
  BY <1>1, <1>2
<1>3. ASSUME NEW j \in 1 .. Len(m), TellsOf(m[j], ch)
      PROVE  /\ m[j].to <= upto
             /\ \A i \in 1 .. j - 1 : TellsOf(m[i], ch) => m[i].to <= m[j].from
             /\ \A p \in 0 .. m[j].to - 1 :
                   \E i \in 1 .. j : TellsOf(m[i], ch) /\ m[i].from <= p /\ p < m[i].to
  <2>1. j \in 1 .. Len(l) /\ m[j] = l[j] /\ \A i \in 1 .. j : m[i] = l[i]
    BY <1>1, <1>2, <1>3
  <2>. QED
    BY <2>1, <1>3 DEF ToldUpTo
<1>0. \A p \in 0 .. upto - 1 :
         \E i \in 1 .. Len(l) : TellsOf(l[i], ch) /\ l[i].from <= p /\ p < l[i].to
  BY Zenon DEF ToldUpTo
<1>4. ASSUME NEW p \in 0 .. upto - 1
      PROVE  \E i \in 1 .. Len(m) : TellsOf(m[i], ch) /\ m[i].from <= p /\ p < m[i].to
  <2>1. PICK i \in 1 .. Len(l) : TellsOf(l[i], ch) /\ l[i].from <= p /\ p < l[i].to
    BY <1>0, Zenon
  <2>2. i \in 1 .. Len(m) /\ m[i] = l[i]
    BY <1>1
  <2>. QED
    BY <2>1, <2>2, Zenon
<1>. QED
  BY <1>3, <1>4 DEF ToldUpTo, m

\* An item that tells of what comes next carries on the telling.
LEMMA NextAppended ==
    ASSUME NEW l \in Seq(Item), NEW ch \in Channels, NEW upto \in Nat, ToldUpTo(l, ch, upto),
           NEW it \in Item, TellsOf(it, ch), it.from = upto
    PROVE  ToldUpTo(Append(l, it), ch, it.to)
<1> DEFINE m == Append(l, it)
<1>1. /\ Len(m) = Len(l) + 1 /\ Len(l) \in Nat
      /\ m[Len(m)] = it
      /\ \A i \in 1 .. Len(l) : m[i] = l[i]
  OBVIOUS
<1>2. it.to \in Nat /\ upto <= it.to
  BY DEF Item
<1>3. \A i \in 1 .. Len(l) : l[i].to \in Nat
  BY DEF Item
<1> HIDE DEF m
<1>4. \A p \in 0 .. it.to - 1 :
         \E i \in 1 .. Len(m) : TellsOf(m[i], ch) /\ m[i].from <= p /\ p < m[i].to
  <2> SUFFICES ASSUME NEW p \in 0 .. it.to - 1
               PROVE  \E i \in 1 .. Len(m) : /\ TellsOf(m[i], ch)
                                             /\ m[i].from <= p /\ p < m[i].to
    OBVIOUS
  <2>1. CASE p < upto
    <3>1. PICK i \in 1 .. Len(l) : TellsOf(l[i], ch) /\ l[i].from <= p /\ p < l[i].to
      <4>1. \A q \in 0 .. upto - 1 :
               \E i \in 1 .. Len(l) : TellsOf(l[i], ch) /\ l[i].from <= q /\ q < l[i].to
        BY Zenon DEF ToldUpTo
      <4>2. p \in 0 .. upto - 1
        BY <2>1, <1>2
      <4>. QED
        BY <4>1, <4>2, Zenon
    <3>2. i \in 1 .. Len(m) /\ m[i] = l[i]
      BY <1>1
    <3>. QED
      BY <3>1, <3>2, Zenon
  <2>2. CASE upto <= p
    BY <2>2, <1>1, <1>2
  <2>. QED
    BY <2>1, <2>2, <1>2
<1>5. ASSUME NEW j \in 1 .. Len(m), TellsOf(m[j], ch)
      PROVE  /\ m[j].to <= it.to
             /\ \A i \in 1 .. j - 1 : TellsOf(m[i], ch) => m[i].to <= m[j].from
             /\ \A p \in 0 .. m[j].to - 1 :
                   \E i \in 1 .. j : TellsOf(m[i], ch) /\ m[i].from <= p /\ p < m[i].to
  <2>1. CASE j \in 1 .. Len(l)
    <3>1. m[j] = l[j] /\ \A i \in 1 .. j : m[i] = l[i]
      BY <2>1, <1>1
    <3>2. /\ l[j].to <= upto
          /\ \A i \in 1 .. j - 1 : TellsOf(l[i], ch) => l[i].to <= l[j].from
          /\ \A p \in 0 .. l[j].to - 1 :
                \E i \in 1 .. j : TellsOf(l[i], ch) /\ l[i].from <= p /\ p < l[i].to
      BY <2>1, <3>1, <1>5 DEF ToldUpTo
    <3>3. l[j].to <= it.to
      BY <2>1, <3>2, <1>2, <1>3
    <3>. QED
      BY <3>1, <3>2, <3>3
  <2>2. CASE j = Len(m)
    <3>1. m[j] = it
      BY <2>2, <1>1
    <3>2. \A i \in 1 .. j - 1 : m[i] = l[i] /\ i \in 1 .. Len(l)
      BY <2>2, <1>1
    <3>3. \A i \in 1 .. j - 1 : TellsOf(m[i], ch) => m[i].to <= upto
      BY <3>2 DEF ToldUpTo
    <3>. QED
      BY <2>2, <3>1, <3>3, <1>2, <1>4
  <2>. QED
    BY <2>1, <2>2, <1>1
<1>. QED
  BY <1>4, <1>5 DEF ToldUpTo, m

\* What was told reaches a point of the stream.
LEMMA ToldPoint ==
    ASSUME TypeInv, StreamTold, NEW ch \in Channels
    PROVE  /\ stream[ch] - dropped[ch] \in Nat /\ stream[ch] \in Nat /\ dropped[ch] \in Nat
           /\ ToldUpTo(log, ch, stream[ch] - dropped[ch])
<1>1. stream[ch] \in Nat /\ dropped[ch] \in Nat /\ dropped[ch] <= stream[ch]
  BY DEF TypeInv, TypeOK, CallerType, DroppedBound
<1>. QED
  BY <1>1 DEF StreamTold

\* A step that accepts nothing.
LEMMA NothingTold ==
    ASSUME StreamTold, UNCHANGED <<log, stream, dropped>>
    PROVE  StreamTold'
BY DEF StreamTold, ToldUpTo

\* A step that accepts an item that tells of no stream.
LEMMA OtherTold ==
    ASSUME TypeInv, StreamTold, NEW it \in Item, it.kind \notin {"data", "overflow"},
           log' = log \o <<it>>, UNCHANGED <<stream, dropped>>
    PROVE  StreamTold'
<1>1. log \in Seq(Item)
  BY DEF TypeInv, TypeOK, SharedType
<1>2. log' = Append(log, it)
  BY <1>1
<1>3. SUFFICES ASSUME NEW ch \in Channels
               PROVE  ToldUpTo(log', ch, stream[ch] - dropped[ch])
  BY DEF StreamTold
<1>4. ToldUpTo(Append(log, it), ch, stream[ch] - dropped[ch])
  BY <1>1, ToldPoint, OtherAppended DEF TellsOf
<1>. QED
  BY <1>2, <1>4

\* The overflow event due before an item takes the telling up to the end of the stream.
LEMMA OverflowTold ==
    ASSUME TypeInv, StreamTold, NEW ch \in Channels
    PROVE  LET told == Append(log, OverflowItem(ch))
           IN  /\ OverflowItem(ch) \in Item /\ told \in Seq(Item)
               /\ ToldUpTo(told, ch, stream[ch])
               /\ \A c \in Channels \ {ch} : ToldUpTo(told, c, stream[c] - dropped[c])
<1> DEFINE o == OverflowItem(ch)
<1>1. log \in Seq(Item) /\ o \in Item
  BY OverflowItemType DEF TypeInv, TypeOK, SharedType
<1>2. /\ o.kind = "overflow" /\ o.ch = ch
      /\ o.from = stream[ch] - dropped[ch] /\ o.to = stream[ch]
  BY DEF OverflowItem, NewItem
<1> HIDE DEF o
<1>3. ToldUpTo(Append(log, o), ch, stream[ch])
  <2>1. TellsOf(o, ch)
    BY <1>2 DEF TellsOf
  <2>2. ToldUpTo(Append(log, o), ch, o.to)
    BY <1>1, <1>2, <2>1, ToldPoint, NextAppended
  <2>. QED
    BY <1>2, <2>2
<1>4. ASSUME NEW c \in Channels \ {ch}
      PROVE  ToldUpTo(Append(log, o), c, stream[c] - dropped[c])
  <2>1. ~TellsOf(o, c)
    BY <1>2 DEF TellsOf
  <2>. QED
    BY <1>1, <2>1, ToldPoint, OtherAppended
<1>5. Append(log, o) \in Seq(Item)
  BY <1>1
<1>. QED
  BY <1>1, <1>3, <1>4, <1>5 DEF o

LEMMA DataTold ==
    ASSUME AllocMayFail = FALSE, TypeInv, StreamTold,
           NEW ch \in Channels, NEW len \in PieceLens, RecorderData(ch, len)
    PROVE  StreamTold'
<1>1. /\ stream' = [stream EXCEPT ![ch] = @ + len]
      /\ stream \in [Channels -> Nat] /\ dropped \in [Channels -> Nat]
      /\ droppedCtrl \in Nat
      /\ len \in Nat
      /\ log \in Seq(Item)
  BY RecorderAssumption DEF RecorderData, TypeInv, TypeOK, CallerType, SharedType
<1> DEFINE due == dropped[ch] > 0 \/ droppedCtrl > 0
           d == NewItem("data", ch, stream[ch], stream[ch] + len, 0)
<1>2. PICK ev \in EventFirst(due, ch) : DataQueued(ch, len, ev) \/ DataDropped(ch, len)
  BY DEF RecorderData
<1>3. /\ due => ev = <<OverflowItem(ch)>>
      /\ ~due => ev = <<>>
  BY <1>2 DEF EventFirst
<1>4. d \in Item /\ d.kind = "data" /\ d.ch = ch /\ d.from = stream[ch] /\ d.to = stream[ch] + len
  BY <1>1, NewItemType DEF Kinds, NewItem
<1>5. DataQueued(ch, len, ev) => log' = log \o Append(ev, d) /\ dropped' = DroppedAfter(ch, ev)
  BY DEF DataQueued, Push
<1>6. CASE DataDropped(ch, len)
  <2>1. log' = log /\ dropped' = [dropped EXCEPT ![ch] = @ + len]
    BY <1>6 DEF DataDropped, shared
  <2>2. \A c \in Channels : stream'[c] - dropped'[c] = stream[c] - dropped[c]
    BY <1>1, <2>1
  <2>. QED
    BY <2>1, <2>2 DEF StreamTold
<1> HIDE DEF d
<1>7. ASSUME NEW l \in Seq(Item), log' = Append(l, d), dropped'[ch] = 0,
             dropped' = [dropped EXCEPT ![ch] = 0],
             ToldUpTo(l, ch, stream[ch]),
             \A c \in Channels \ {ch} : ToldUpTo(l, c, stream[c] - dropped[c])
      PROVE  StreamTold'
  <2>1. ToldUpTo(log', ch, stream'[ch] - dropped'[ch])
    <3>1. TellsOf(d, ch)
      BY <1>4 DEF TellsOf
    <3>2. stream[ch] \in Nat
      BY <1>1
    <3>3. ToldUpTo(Append(l, d), ch, d.to)
      BY <1>4, <1>7, <3>1, <3>2, NextAppended
    <3>4. stream'[ch] - dropped'[ch] = d.to
      BY <1>1, <1>4, <1>7
    <3>. QED
      BY <1>7, <3>3, <3>4
  <2>2. ASSUME NEW c \in Channels \ {ch}
        PROVE  ToldUpTo(log', c, stream'[c] - dropped'[c])
    <3>1. ~TellsOf(d, c)
      BY <1>4 DEF TellsOf
    <3>2. stream'[c] - dropped'[c] = stream[c] - dropped[c]
      BY <1>1, <1>7
    <3>3. ToldUpTo(Append(l, d), c, stream[c] - dropped[c])
      BY <1>4, <1>7, <3>1, ToldPoint, OtherAppended
    <3>. QED
      BY <1>7, <3>2, <3>3
  <2>. QED
    BY <2>1, <2>2 DEF StreamTold
<1>8. CASE DataQueued(ch, len, ev) /\ due
  <2> DEFINE o == OverflowItem(ch)
  <2>1. o \in Item /\ Append(log, o) \in Seq(Item)
    BY <1>1, OverflowTold
  <2>2. log' = log \o Append(<<o>>, d)
    BY <1>3, <1>5, <1>8
  <2>3. dropped' = [dropped EXCEPT ![ch] = 0]
    <3>1. ev = <<o>> /\ dropped' = DroppedAfter(ch, ev)
      BY <1>3, <1>5, <1>8
    <3>2. Len(ev) = 1
      BY <3>1
    <3>3. ev # <<>>
      BY <3>2
    <3>. QED
      BY <3>1, <3>3 DEF DroppedAfter
  <2> HIDE DEF o
  <2>4. log' = Append(Append(log, o), d)
    BY <1>1, <1>4, <2>1, <2>2
  <2>5. /\ ToldUpTo(Append(log, o), ch, stream[ch])
        /\ \A c \in Channels \ {ch} : ToldUpTo(Append(log, o), c, stream[c] - dropped[c])
    BY OverflowTold DEF o
  <2>. QED
    BY <1>1, <1>7, <2>1, <2>3, <2>4, <2>5
<1>9. CASE DataQueued(ch, len, ev) /\ ~due
  <2>1. log' = log \o Append(<<>>, d) /\ dropped' = dropped /\ dropped[ch] = 0
    BY <1>1, <1>3, <1>5, <1>9 DEF DroppedAfter
  <2>2. log' = Append(log, d)
    BY <1>1, <1>4, <2>1
  <2>3. dropped' = [dropped EXCEPT ![ch] = 0]
    BY <1>1, <2>1
  <2>4. \A c \in Channels : ToldUpTo(log, c, stream[c] - dropped[c])
    BY ToldPoint
  <2>5. ToldUpTo(log, ch, stream[ch])
    BY <1>1, <2>1, <2>4
  <2>. QED
    BY <1>1, <1>7, <2>1, <2>2, <2>3, <2>4, <2>5
<1>. QED
  BY <1>2, <1>6, <1>8, <1>9

LEMMA ControlTold ==
    ASSUME AllocMayFail = FALSE, TypeInv, StreamTold, RecorderControl
    PROVE  StreamTold'
<1> DEFINE it == NewItem("control", 0, 0, 0, 0)
<1>1. /\ stream' = stream
      /\ stream \in [Channels -> Nat] /\ dropped \in [Channels -> Nat]
      /\ log \in Seq(Item)
      /\ 0 \in Channels
  BY ChannelsNat DEF RecorderControl, TypeInv, TypeOK, CallerType, SharedType
<1>2. PICK ev \in EventFirst(droppedCtrl > 0, 0) :
         \/ log' = log \o Append(ev, it) /\ dropped' = DroppedAfter(0, ev)
         \/ UNCHANGED <<log, dropped>>
  BY DEF RecorderControl, Push, shared
<1>3. ev = <<OverflowItem(0)>> \/ ev = <<>>
  BY <1>2 DEF EventFirst
<1>4. it \in Item /\ it.kind = "control"
  BY <1>1, NewItemType DEF Kinds, NewItem
<1> HIDE DEF it
<1>5. CASE UNCHANGED <<log, dropped>>
  BY <1>1, <1>5, NothingTold
<1>6. CASE ev = <<>> /\ log' = log \o Append(ev, it) /\ dropped' = DroppedAfter(0, ev)
  <2>1. log' = log \o <<it>> /\ dropped' = dropped
    BY <1>6 DEF DroppedAfter
  <2>. QED
    BY <1>1, <1>4, <2>1, OtherTold
<1>7. CASE /\ ev = <<OverflowItem(0)>>
           /\ log' = log \o Append(ev, it) /\ dropped' = DroppedAfter(0, ev)
  <2> DEFINE o == OverflowItem(0)
  <2>1. o \in Item /\ Append(log, o) \in Seq(Item)
    BY <1>1, OverflowTold
  <2>2. ev = <<o>> /\ log' = log \o Append(<<o>>, it) /\ dropped' = DroppedAfter(0, ev)
    BY <1>7
  <2>3. dropped' = [dropped EXCEPT ![0] = 0]
    <3>1. Len(ev) = 1
      BY <2>2
    <3>2. ev # <<>>
      BY <3>1
    <3>. QED
      BY <2>2, <3>2 DEF DroppedAfter
  <2>4. /\ ToldUpTo(Append(log, o), 0, stream[0])
        /\ \A c \in Channels \ {0} : ToldUpTo(Append(log, o), c, stream[c] - dropped[c])
    BY <1>1, OverflowTold
  <2> HIDE DEF o
  <2>5. log' = Append(Append(log, o), it)
    BY <1>1, <1>4, <2>1, <2>2
  <2>6. ASSUME NEW c \in Channels
        PROVE  ToldUpTo(log', c, stream'[c] - dropped'[c])
    <3>1. ToldUpTo(Append(log, o), c, stream'[c] - dropped'[c])
      BY <1>1, <2>3, <2>4
    <3>2. stream'[c] - dropped'[c] \in Nat
      <4>1. stream[c] - dropped[c] \in Nat /\ stream[c] \in Nat
        BY ToldPoint
      <4>. QED
        BY <4>1, <1>1, <2>3
    <3>3. ~TellsOf(it, c)
      BY <1>4 DEF TellsOf
    <3>. QED
      BY <1>4, <2>1, <2>5, <3>1, <3>2, <3>3, OtherAppended
  <2>. QED
    BY <2>6 DEF StreamTold
<1>. QED
  BY <1>2, <1>3, <1>5, <1>6, <1>7

\* The calls that accept an item of no stream, or nothing.
LEMMA OtherCalls ==
    ASSUME TypeInv,
           \/ Begin
           \/ \E ch \in Channels, bytes \in BackendLosses : RecorderEvent(ch, bytes)
           \/ \E ch \in Channels, grid \in 0 .. MaxGrid : \E pos \in HeartbeatStarts(ch) :
                 RecorderHeartbeat(ch, grid, pos)
           \/ CloseEnd \/ CloseSignal \/ CloseJoin \/ CloseUnbegun
    PROVE  /\ UNCHANGED <<stream, dropped>>
           /\ \/ log' = log
              \/ \E it \in Item : it.kind \notin {"data", "overflow"} /\ log' = log \o <<it>>
<1>1. UNCHANGED <<stream, dropped>>
  BY DEF Begin, RecorderEvent, RecorderHeartbeat, CloseEnd, CloseSignal, CloseJoin, CloseUnbegun
<1>2. \/ log' = log
      \/ \E it : it.kind \notin {"data", "overflow"} /\ log' = log \o <<it>>
  <2>1. CASE Begin
    BY <2>1 DEF Begin, Push, NewItem
  <2>2. CASE \E ch \in Channels, bytes \in BackendLosses : RecorderEvent(ch, bytes)
    BY <2>2 DEF RecorderEvent, Push, NewItem, shared
  <2>3. CASE \E ch \in Channels, grid \in 0 .. MaxGrid : \E pos \in HeartbeatStarts(ch) :
                RecorderHeartbeat(ch, grid, pos)
    BY <2>3 DEF RecorderHeartbeat, Push, NewItem, shared
  <2>4. CASE CloseEnd \/ CloseSignal \/ CloseJoin \/ CloseUnbegun
    BY <2>4 DEF CloseEnd, CloseSignal, CloseJoin, CloseUnbegun, Push, NewItem, shared
  <2>. QED
    BY <2>1, <2>2, <2>3, <2>4
<1>3. ASSUME NEW it, log' = log \o <<it>>
      PROVE  it \in Item
  <2>1. log \in Seq(Item) /\ log' \in Seq(Item)
    <3>1. TypeInv'
      BY BeginTypeStep, EventTypeStep, HeartbeatTypeStep, CloseTypeStep
    <3>. QED
      BY <3>1 DEF TypeInv, TypeOK, SharedType
  <2>2. Len(log') = Len(log) + 1 /\ log'[Len(log')] = it
    BY <1>3, <2>1
  <2>. QED
    BY <2>1, <2>2
<1>. QED
  BY <1>1, <1>2, <1>3

LEMMA OtherCallsTold ==
    ASSUME TypeInv, StreamTold,
           \/ Begin
           \/ \E ch \in Channels, bytes \in BackendLosses : RecorderEvent(ch, bytes)
           \/ \E ch \in Channels, grid \in 0 .. MaxGrid : \E pos \in HeartbeatStarts(ch) :
                 RecorderHeartbeat(ch, grid, pos)
           \/ CloseEnd \/ CloseSignal \/ CloseJoin \/ CloseUnbegun
    PROVE  StreamTold'
<1>1. CASE log' = log
  BY <1>1, OtherCalls, NothingTold
<1>2. CASE \E it \in Item : it.kind \notin {"data", "overflow"} /\ log' = log \o <<it>>
  <2>1. PICK it \in Item : it.kind \notin {"data", "overflow"} /\ log' = log \o <<it>>
    BY <1>2
  <2>. QED
    BY <2>1, OtherCalls, OtherTold
<1>. QED
  BY <1>1, <1>2, OtherCalls

LEMMA ToldStep ==
    ASSUME AllocMayFail = FALSE
    PROVE  TypeInv /\ StreamTold /\ [Next]_vars => StreamTold'
<1> SUFFICES ASSUME TypeInv, StreamTold, [Next]_vars PROVE StreamTold'
  OBVIOUS
<1>1. CASE CallerNext
  BY <1>1, DataTold, ControlTold, OtherCallsTold DEF CallerNext
<1>2. CASE WriterNext \/ PowerLoss \/ Over \/ UNCHANGED vars
  <2>1. UNCHANGED <<log, stream, dropped>>
    BY <1>2 DEF WriterNext, Take, Serialize, StartFlush, SkipFlush, Write, WriteIndex, Sync,
                SyncIndex, Publish, PowerLoss, Over, vars, caller, shared
  <2>. QED
    BY <2>1, NothingTold
<1>. QED
  BY <1>1, <1>2 DEF Next

LEMMA ToldInit == Init => StreamTold
<1> SUFFICES ASSUME Init, NEW ch \in Channels PROVE ToldUpTo(log, ch, stream[ch] - dropped[ch])
  BY DEF StreamTold
<1>1. Len(log) = 0 /\ stream[ch] - dropped[ch] = 0
  BY DEF Init
<1>. QED
  BY <1>1 DEF ToldUpTo

LEMMA ToldMarksGaps == TypeInv /\ StreamTold => FileMarksGaps
<1> SUFFICES ASSUME TypeInv, StreamTold, NEW ch \in Channels, NEW j \in 1 .. fileLen, Tells(j, ch)
             PROVE  /\ \A i \in 1 .. j - 1 : Tells(i, ch) => log[i].to <= log[j].from
                    /\ \A p \in 0 .. log[j].to - 1 :
                          \E i \in 1 .. j : Tells(i, ch) /\ log[i].from <= p /\ p < log[i].to
  BY DEF FileMarksGaps
<1>1. j \in 1 .. Len(log)
  BY DEF TypeInv, TypeOK, SharedType, WriterType, StorageType
<1>2. ToldUpTo(log, ch, stream[ch] - dropped[ch])
  BY DEF StreamTold
<1>3. \A i : Tells(i, ch) = TellsOf(log[i], ch)
  BY DEF Tells, TellsOf
<1>4. /\ \A i \in 1 .. j - 1 : TellsOf(log[i], ch) => log[i].to <= log[j].from
      /\ \A p \in 0 .. log[j].to - 1 :
            \E i \in 1 .. j : TellsOf(log[i], ch) /\ log[i].from <= p /\ p < log[i].to
  BY <1>1, <1>2, <1>3, Zenon DEF ToldUpTo
<1>. QED
  BY <1>3, <1>4, Zenon

\* As long as memory lasts, the capture file never loses a byte of a data channel silently: up
\* to any point of it, whatever storage and power did, each byte is in one DATA chunk or in one
\* announced gap, in order.
THEOREM GapsMarked ==
    ASSUME AllocMayFail = FALSE
    PROVE  Spec => []FileMarksGaps
<1>1. Init => TypeInv /\ StreamTold
  BY TypeInit, ToldInit
<1>2. TypeInv /\ StreamTold /\ [Next]_vars => (TypeInv /\ StreamTold)'
  BY TypeStep, ToldStep
<1>3. TypeInv /\ StreamTold => FileMarksGaps
  BY ToldMarksGaps
<1>. QED
  BY <1>1, <1>2, <1>3, PTL DEF Spec

-----------------------------------------------------------------------------
(* The index file. *)

\* A span of ch's lane is the DATA chunk in the log it was made of.
SpanIsRight(s, ch) ==
    /\ s.chunk \in 1 .. taken
    /\ log[s.chunk].kind = "data"
    /\ log[s.chunk].ch = ch
    /\ log[s.chunk].from = s.start
    /\ log[s.chunk].to = s.start + s.len

SpansRight == \A ch \in Channels : \A s \in lanes[ch].spans : SpanIsRight(s, ch)
MadeRight  == \A i \in 1 .. Len(indexOut) : EntryIsRight(indexOut[i]) /\ indexOut[i].chunk <= taken
FiledRight ==
    \A i \in 1 .. Len(index) :
        EntryIsRight(index[i]) /\ (phase # "lost" => index[i].chunk <= offset)

IndexInv == SpansRight /\ MadeRight /\ FiledRight

LEMMA IndexInit == Init => IndexInv
<1> SUFFICES ASSUME Init PROVE IndexInv
  OBVIOUS
<1>1. SpansRight
  BY DEF Init, SpansRight, EmptyLane
<1>2. Len(indexOut) = 0 /\ Len(index) = 0
  BY DEF Init
<1>. QED
  BY <1>1, <1>2 DEF IndexInv, MadeRight, FiledRight

\* What the log holds stays where it is.
LEMMA LogGrows ==
    ASSUME TypeInv, [Next]_vars
    PROVE  /\ Len(log') >= Len(log) /\ Len(log) \in Nat
           /\ \A i \in 1 .. Len(log) : log'[i] = log[i]
<1>1. log \in Seq(Item) /\ log' \in Seq(Item)
  BY TypeStep DEF TypeInv, TypeOK, SharedType
<1>2. \/ log' = log
      \/ \E items, need : Push(items, need)
  <2>1. ASSUME NEW ch \in Channels, NEW len \in PieceLens, RecorderData(ch, len)
        PROVE  log' = log \/ \E items, need : Push(items, need)
    BY <2>1 DEF RecorderData, DataQueued, DataDropped, shared
  <2>2. CASE RecorderControl
    BY <2>2 DEF RecorderControl, shared
  <2>3. ASSUME NEW ch, NEW bytes, RecorderEvent(ch, bytes)
        PROVE  log' = log \/ \E items, need : Push(items, need)
    BY <2>3 DEF RecorderEvent, shared
  <2>4. ASSUME NEW ch, NEW grid, NEW p, RecorderHeartbeat(ch, grid, p)
        PROVE  log' = log \/ \E items, need : Push(items, need)
    BY <2>4 DEF RecorderHeartbeat, shared
  <2>5. CASE CloseEnd
    BY <2>5 DEF CloseEnd, shared
  <2>6. CASE Begin \/ CloseSignal \/ CloseJoin \/ CloseUnbegun
    BY <2>6 DEF Begin, CloseSignal, CloseJoin, CloseUnbegun, shared
  <2>7. CASE Take \/ Serialize \/ StartFlush \/ SkipFlush
    BY <2>7 DEF Take, Serialize, StartFlush, SkipFlush, shared
  <2>8. CASE Write \/ WriteIndex \/ Sync
    BY <2>8 DEF Write, WriteIndex, Sync, shared
  <2>9. CASE SyncIndex \/ Publish
    BY <2>9 DEF SyncIndex, Publish, shared
  <2>10. CASE PowerLoss \/ Over \/ UNCHANGED vars
    BY <2>10 DEF PowerLoss, Over, vars, caller, shared
  <2>. QED
    BY <2>1, <2>2, <2>3, <2>4, <2>5, <2>6, <2>7, <2>8, <2>9, <2>10 DEF Next, CallerNext, WriterNext
<1>3. ASSUME NEW items, NEW need, Push(items, need)
      PROVE  /\ Len(log') >= Len(log) /\ Len(log) \in Nat
             /\ \A i \in 1 .. Len(log) : log'[i] = log[i]
  BY <1>1, <1>3 DEF Push
<1>. QED
  BY <1>1, <1>2, <1>3

\* An entry that is right, and a span that is right, stay so.
LEMMA EntryStaysRight ==
    ASSUME TypeInv, [Next]_vars, NEW e, EntryIsRight(e)
    PROVE  EntryIsRight(e)'
BY LogGrows DEF EntryIsRight

LEMMA SpanStaysRight ==
    ASSUME TypeInv, [Next]_vars, taken' >= taken, NEW s, NEW ch, SpanIsRight(s, ch)
    PROVE  SpanIsRight(s, ch)'
<1>1. taken \in Nat /\ taken' \in Nat /\ taken <= Len(log)
  BY TypeStep DEF TypeInv, TypeOK, WriterType, SharedType
<1>. QED
  BY <1>1, LogGrows DEF SpanIsRight

\* A step that leaves the builder and the index file alone.
LEMMA IndexFrame ==
    ASSUME TypeInv, IndexInv, [Next]_vars, UNCHANGED <<lanes, indexOut, index>>,
           taken' >= taken, phase' # "lost" => phase # "lost" /\ offset' >= offset
    PROVE  IndexInv'
<1>1. \A e : EntryIsRight(e) => EntryIsRight(e)'
  BY EntryStaysRight
<1>2. taken \in Nat /\ taken' \in Nat /\ offset \in Nat /\ offset' \in Nat
  BY TypeStep DEF TypeInv, TypeOK, WriterType
<1>3. \A e \in Entry : e.chunk \in Nat
  BY DEF Entry
<1>4. indexOut \in Seq(Entry) /\ index \in Seq(Entry)
  BY DEF TypeInv, TypeOK, WriterType, StorageType
<1>5. SpansRight'
  <2> SUFFICES ASSUME NEW ch \in Channels, NEW s \in lanes[ch].spans
               PROVE  SpanIsRight(s, ch)'
    BY DEF SpansRight, SpanIsRight
  <2>. QED
    BY SpanStaysRight DEF IndexInv, SpansRight
<1>6. MadeRight'
  <2> SUFFICES ASSUME NEW i \in 1 .. Len(indexOut)
               PROVE  EntryIsRight(indexOut[i])' /\ indexOut[i].chunk <= taken'
    BY DEF MadeRight
  <2>1. EntryIsRight(indexOut[i]) /\ indexOut[i].chunk <= taken /\ indexOut[i] \in Entry
    BY <1>4 DEF IndexInv, MadeRight
  <2>2. EntryIsRight(indexOut[i])'
    BY <1>1, <2>1 DEF EntryIsRight
  <2>. QED
    BY <1>2, <1>3, <2>1, <2>2
<1>7. FiledRight'
  <2> SUFFICES ASSUME NEW i \in 1 .. Len(index)
               PROVE  /\ EntryIsRight(index[i])'
                      /\ phase' # "lost" => index[i].chunk <= offset'
    BY DEF FiledRight
  <2>1. /\ EntryIsRight(index[i]) /\ index[i] \in Entry
        /\ phase # "lost" => index[i].chunk <= offset
    BY <1>4 DEF IndexInv, FiledRight
  <2>2. EntryIsRight(index[i])'
    BY <1>1, <2>1 DEF EntryIsRight
  <2>. QED
    BY <1>2, <1>3, <2>1, <2>2
<1>. QED
  BY <1>5, <1>6, <1>7 DEF IndexInv

\* A chunk serialised: its span joins its lane.
LEMMA ChunkIndexed ==
    ASSUME TypeInv, IndexInv, Serialize, NEW it, it = log[taken + 1], it.kind = "data",
           lanes' = [lanes EXCEPT ![it.ch] = LaneChunk(@, it.from, it.to - it.from, taken + 1)]
    PROVE  SpansRight'
<1>1. [Next]_vars
  BY DEF Next, WriterNext
<1>2. /\ taken' = taken + 1 /\ taken \in Nat /\ taken + 1 \in 1 .. Len(log)
      /\ log' = log
      /\ it \in Item
  BY DEF Serialize, shared, TypeInv, TypeOK, WriterType, SharedType
<1>3. it.ch \in Channels /\ it.from \in Nat /\ it.to \in Nat
  BY <1>2 DEF Item
<1>4. lanes \in [Channels -> Lane]
  BY DEF TypeInv, TypeOK, WriterType
<1> DEFINE new == [start |-> it.from, len |-> it.to - it.from, chunk |-> taken + 1]
<1>5. /\ new.chunk \in 1 .. taken'
      /\ log'[new.chunk].kind = "data"
      /\ log'[new.chunk].ch = it.ch
      /\ log'[new.chunk].from = new.start
      /\ log'[new.chunk].to = new.start + new.len
  BY <1>2, <1>3
<1>6. \A ch \in Channels : lanes'[ch].spans \subseteq
         lanes[ch].spans \cup (IF ch = it.ch THEN {new} ELSE {})
  BY <1>3, <1>4 DEF LaneChunk
<1> HIDE DEF new
<1>7. ASSUME NEW ch \in Channels, NEW s \in lanes'[ch].spans
      PROVE  SpanIsRight(s, ch)'
  <2>1. CASE s \in lanes[ch].spans
    BY <2>1, <1>1, <1>2, SpanStaysRight DEF IndexInv, SpansRight
  <2>2. CASE s = new /\ ch = it.ch
    BY <2>2, <1>5 DEF SpanIsRight
  <2>. QED
    BY <2>1, <2>2, <1>6
<1>. QED
  BY <1>7 DEF SpansRight

\* The entry made for a heartbeat points at its first byte.
LEMMA EntryMade ==
    ASSUME TypeInv, IndexInv, NEW it, it = log[taken + 1], taken < listEnd, it.kind = "mark",
           ByteIsKnown(lanes[it.ch], it.from)
    PROVE  /\ EntryIsRight(EntryFor(lanes[it.ch], it.ch, it.n, it.from))
           /\ EntryFor(lanes[it.ch], it.ch, it.n, it.from).chunk <= taken
<1> DEFINE live == LiveSpans(lanes[it.ch], it.from)
           s == FirstSpan(live)
           e == EntryFor(lanes[it.ch], it.ch, it.n, it.from)
<1>1. taken \in Nat /\ taken <= Len(log) /\ taken + 1 \in 1 .. Len(log) /\ it \in Item
  BY DEF TypeInv, TypeOK, WriterType, SharedType
<1>2. it.ch \in Channels /\ it.from \in Nat
  BY <1>1 DEF Item
<1>3. lanes[it.ch] \in Lane
  BY <1>2 DEF TypeInv, TypeOK, WriterType
<1>4. live \in SUBSET Span /\ live # {}
  BY <1>3 DEF LiveSpans, Lane, ByteIsKnown
<1>5. s \in live
  <2> HIDE DEF live
  <2>. QED
    BY <1>4, FirstSpanExists
<1>6. s \in Span /\ s \in lanes[it.ch].spans /\ s.start + s.len > it.from
  BY <1>4, <1>5 DEF LiveSpans
<1>7. s.start <= it.from
  BY DEF ByteIsKnown
<1>8. SpanIsRight(s, it.ch)
  BY <1>2, <1>6 DEF IndexInv, SpansRight
<1>9. /\ e.grid = it.n /\ e.chunk = s.chunk /\ e.payload = it.from - s.start /\ e.ch = it.ch
  BY DEF EntryFor
<1> HIDE DEF e, s, live
<1>10. s.start \in Nat /\ s.len \in Nat
  BY <1>6 DEF Span
<1>11. /\ log[e.chunk].from + e.payload = it.from
       /\ log[e.chunk].from + e.payload < log[e.chunk].to
  BY <1>2, <1>6, <1>7, <1>8, <1>9, <1>10 DEF SpanIsRight
<1>12. EntryIsRight(e)
  BY <1>1, <1>8, <1>9, <1>11 DEF EntryIsRight, SpanIsRight
<1>13. e.chunk <= taken
  BY <1>1, <1>8, <1>9 DEF SpanIsRight
<1>. QED
  BY <1>12, <1>13 DEF e

\* A heartbeat serialised: spans only go, and the entries made are right.
LEMMA HeartbeatIndexed ==
    ASSUME TypeInv, IndexInv, Serialize, NEW it, it = log[taken + 1], it.kind = "mark",
           lanes' = [lanes EXCEPT ![it.ch] = LaneHeartbeat(@, it.n, it.from)],
           indexOut' = indexOut \o EntriesFor(lanes[it.ch], it.ch, it.n, it.from)
    PROVE  SpansRight' /\ MadeRight'
<1>1. [Next]_vars
  BY DEF Next, WriterNext
<1>2. /\ taken' = taken + 1 /\ taken \in Nat /\ taken < listEnd
      /\ log' = log
      /\ it \in Item
  <2>1. taken' = taken + 1 /\ taken < listEnd /\ log' = log
    BY DEF Serialize, shared
  <2>2. taken \in Nat /\ log \in Seq(Item) /\ listEnd \in Nat /\ listEnd <= Len(log)
    BY DEF TypeInv, TypeOK, WriterType, SharedType
  <2>3. taken + 1 \in 1 .. Len(log)
    BY <2>1, <2>2
  <2> QED BY <2>1, <2>2, <2>3
<1>3. it.ch \in Channels /\ it.ch \in Nat /\ it.n \in Nat /\ it.from \in Nat
  BY <1>2, ItemParts
<1>4. lanes \in [Channels -> Lane] /\ indexOut \in Seq(Entry)
  BY DEF TypeInv, TypeOK, WriterType
<1>5. SpansRight'
  <2>1. \A ch \in Channels : lanes'[ch].spans \subseteq lanes[ch].spans
    BY <1>3, <1>4 DEF LaneHeartbeat, LiveSpans
  <2>2. ASSUME NEW ch \in Channels, NEW s \in lanes'[ch].spans
        PROVE  SpanIsRight(s, ch)'
    BY <2>1, <1>1, <1>2, SpanStaysRight DEF IndexInv, SpansRight
  <2>. QED
    BY <2>2 DEF SpansRight
<1>6. MadeRight'
  <2> DEFINE made == EntriesFor(lanes[it.ch], it.ch, it.n, it.from)
  <2>1. made \in Seq(Entry)
    BY <1>3, <1>4, LaneHeartbeatType
  <2>2. ASSUME NEW i \in 1 .. Len(made)
        PROVE  EntryIsRight(made[i]) /\ made[i].chunk <= taken
    <3>1. CASE ByteIsKnown(lanes[it.ch], it.from) /\ Due(lanes[it.ch], it.n)
      <4>1. made = <<EntryFor(lanes[it.ch], it.ch, it.n, it.from)>>
        BY <3>1 DEF EntriesFor
      <4>2. made[i] = EntryFor(lanes[it.ch], it.ch, it.n, it.from)
        BY <4>1
      <4>. QED
        BY <4>2, <3>1, <1>2, EntryMade
    <3>2. CASE ~(ByteIsKnown(lanes[it.ch], it.from) /\ Due(lanes[it.ch], it.n))
      <4>1. made = <<>>
        BY <3>2 DEF EntriesFor
      <4>. QED
        BY <4>1
    <3>. QED
      BY <3>1, <3>2
  <2> HIDE DEF made
  <2>3. indexOut' = indexOut \o made
    BY DEF made
  <2>6. \A e : EntryIsRight(e) => EntryIsRight(e)'
    BY <1>1, EntryStaysRight
  <2>4. ASSUME NEW i \in 1 .. Len(indexOut')
        PROVE  EntryIsRight(indexOut'[i]) /\ indexOut'[i].chunk <= taken /\ indexOut'[i] \in Entry
    <3>1. CASE i \in 1 .. Len(indexOut)
      BY <3>1, <2>1, <2>3, <1>4 DEF IndexInv, MadeRight
    <3>2. CASE i \notin 1 .. Len(indexOut)
      <4>1. i - Len(indexOut) \in 1 .. Len(made) /\ indexOut'[i] = made[i - Len(indexOut)]
        BY <3>2, <2>1, <2>3, <1>4
      <4>. QED
        BY <4>1, <2>1, <2>2
    <3>. QED
      BY <3>1, <3>2
  <2>5. ASSUME NEW i \in 1 .. Len(indexOut')
        PROVE  EntryIsRight(indexOut[i])' /\ indexOut'[i].chunk <= taken'
    <3>1. EntryIsRight(indexOut[i])'
      <4>1. EntryIsRight(indexOut'[i])
        BY <2>4
      <4>. QED
        BY <4>1, <2>6 DEF EntryIsRight
    <3>2. indexOut'[i].chunk \in Nat /\ indexOut'[i].chunk <= taken
      BY <2>4 DEF Entry
    <3>3. indexOut'[i].chunk <= taken'
      BY <3>2, <1>2
    <3>. QED
      BY <3>1, <3>3
  <2>. QED
    BY <2>5 DEF MadeRight
<1>. QED
  BY <1>5, <1>6

LEMMA IndexStep == TypeInv /\ IndexInv /\ [Next]_vars => IndexInv'
<1> SUFFICES ASSUME TypeInv, IndexInv, [Next]_vars PROVE IndexInv'
  OBVIOUS
<1>1. \A e : EntryIsRight(e) => EntryIsRight(e)'
  BY EntryStaysRight
<1>2. /\ taken \in Nat /\ offset \in Nat
      /\ indexOut \in Seq(Entry) /\ index \in Seq(Entry)
      /\ \A e \in Entry : e.chunk \in Nat
  BY DEF TypeInv, TypeOK, WriterType, StorageType, Entry
<1>3. CASE Serialize
  <2> DEFINE it == log[taken + 1]
  <2>1. /\ phase' = phase /\ offset' = offset /\ index' = index /\ taken' = taken + 1
    BY <1>3 DEF Serialize, caller, storage
  <2>2. CASE UNCHANGED <<lanes, indexOut>>
    BY <2>1, <2>2, <1>2, IndexFrame
  <2>3. FiledRight'
    <3> SUFFICES ASSUME NEW i \in 1 .. Len(index)
                 PROVE  /\ EntryIsRight(index[i])'
                        /\ phase' # "lost" => index[i].chunk <= offset'
      BY <2>1 DEF FiledRight
    <3>1. /\ EntryIsRight(index[i])
          /\ phase # "lost" => index[i].chunk <= offset
      BY DEF IndexInv, FiledRight
    <3>2. EntryIsRight(index[i])'
      BY <3>1, <2>1, <1>1 DEF EntryIsRight
    <3>. QED
      BY <3>1, <3>2, <2>1
  <2>4. CASE /\ it.kind = "data" /\ indexOut' = indexOut
             /\ lanes' = [lanes EXCEPT ![it.ch] =
                             LaneChunk(@, it.from, it.to - it.from, taken + 1)]
    <3>1. SpansRight'
      BY <1>3, <2>4, ChunkIndexed
    <3>2. MadeRight'
      <4> SUFFICES ASSUME NEW i \in 1 .. Len(indexOut)
                   PROVE  EntryIsRight(indexOut[i])' /\ indexOut[i].chunk <= taken'
        BY <2>4 DEF MadeRight
      <4>1. /\ EntryIsRight(indexOut[i]) /\ indexOut[i].chunk <= taken
            /\ indexOut[i] \in Entry
        BY <1>2 DEF IndexInv, MadeRight
      <4>2. EntryIsRight(indexOut[i])'
        BY <4>1, <2>4, <1>1 DEF EntryIsRight
      <4>. QED
        BY <4>1, <4>2, <2>1, <1>2
    <3>. QED
      BY <3>1, <3>2, <2>3 DEF IndexInv
  <2>5. CASE /\ it.kind = "mark"
             /\ lanes' = [lanes EXCEPT ![it.ch] = LaneHeartbeat(@, it.n, it.from)]
             /\ indexOut' = indexOut \o EntriesFor(lanes[it.ch], it.ch, it.n, it.from)
    BY <1>3, <2>3, <2>5, HeartbeatIndexed DEF IndexInv
  <2>6. \/ UNCHANGED <<lanes, indexOut>>
        \/ /\ it.kind = "data" /\ indexOut' = indexOut
           /\ lanes' = [lanes EXCEPT ![it.ch] =
                           LaneChunk(@, it.from, it.to - it.from, taken + 1)]
        \/ /\ it.kind = "mark"
           /\ lanes' = [lanes EXCEPT ![it.ch] = LaneHeartbeat(@, it.n, it.from)]
           /\ indexOut' = indexOut \o EntriesFor(lanes[it.ch], it.ch, it.n, it.from)
    BY <1>3, Zenon DEF Serialize
  <2>. QED
    BY <2>2, <2>4, <2>5, <2>6
<1>4. CASE WriteIndex
  <2>1. /\ indexOut' = <<>> /\ lanes' = lanes /\ taken' = taken /\ offset' = offset
        /\ phase' = phase /\ offset = taken
    BY <1>4 DEF WriteIndex, caller, TypeInv, PipelineInv
  <2>2. SpansRight'
    <3>1. ASSUME NEW ch \in Channels, NEW s \in lanes[ch].spans
          PROVE  SpanIsRight(s, ch)'
      BY <2>1, <1>2, SpanStaysRight DEF IndexInv, SpansRight
    <3>. QED
      BY <3>1, <2>1 DEF SpansRight
  <2>3. MadeRight'
    <3>1. Len(indexOut') = 0
      BY <2>1
    <3>. QED
      BY <3>1 DEF MadeRight
  <2>4. PICK n \in 0 .. Len(indexOut) : index' = index \o SubSeq(indexOut, 1, n)
    <3>1. SubSeq(indexOut, 1, Len(indexOut)) = indexOut
      BY <1>2
    <3>2. /\ Len(indexOut) \in 0 .. Len(indexOut)
          /\ 0 .. Len(indexOut) - 1 \subseteq 0 .. Len(indexOut)
      BY <1>2
    <3>3. \/ index' = index \o indexOut
          \/ \E n \in 0 .. Len(indexOut) - 1 : index' = index \o SubSeq(indexOut, 1, n)
      BY <1>4, Zenon DEF WriteIndex
    <3>. QED
      BY <3>1, <3>2, <3>3, Zenon
  <2>5. ASSUME NEW i \in 1 .. Len(index')
        PROVE  EntryIsRight(index'[i]) /\ (phase # "lost" => index'[i].chunk <= offset)
    <3>1. CASE i \in 1 .. Len(index)
      <4>1. index'[i] = index[i]
        BY <2>4, <3>1, <1>2
      <4>. QED
        BY <3>1, <4>1 DEF IndexInv, FiledRight
    <3>2. CASE i \notin 1 .. Len(index)
      <4>1. SubSeq(indexOut, 1, n) \in Seq(Entry) /\ Len(SubSeq(indexOut, 1, n)) = n
        BY <1>2
      <4>2. /\ i - Len(index) \in 1 .. n
            /\ index'[i] = SubSeq(indexOut, 1, n)[i - Len(index)]
        BY <2>4, <3>2, <4>1, <1>2
      <4>3. index'[i] = indexOut[i - Len(index)] /\ i - Len(index) \in 1 .. Len(indexOut)
        BY <4>2, <1>2
      <4>. QED
        BY <4>3, <2>1 DEF IndexInv, MadeRight
    <3>. QED
      BY <3>1, <3>2
  <2>6. FiledRight'
    <3>1. ASSUME NEW i \in 1 .. Len(index')
          PROVE  EntryIsRight(index[i])'
      BY <2>5, <1>1 DEF EntryIsRight
    <3>. QED
      BY <3>1, <2>1, <2>5 DEF FiledRight
  <2>. QED
    BY <2>2, <2>3, <2>6 DEF IndexInv
<1>5. CASE PowerLoss
  <2>1. /\ lanes' = lanes /\ indexOut' = indexOut /\ taken' = taken /\ phase' = "lost"
    BY <1>5 DEF PowerLoss
  <2>2. PICK n \in indexSynced .. Len(index) : index' = SubSeq(index, 1, n)
    BY <1>5 DEF PowerLoss
  <2>3. /\ n \in 0 .. Len(index) /\ Len(index') = n
        /\ \A i \in 1 .. n : index'[i] = index[i]
    BY <2>2, <1>2 DEF TypeInv, TypeOK, StorageType
  <2>4. SpansRight'
    <3>1. ASSUME NEW ch \in Channels, NEW s \in lanes[ch].spans
          PROVE  SpanIsRight(s, ch)'
      BY <2>1, <1>2, SpanStaysRight DEF IndexInv, SpansRight
    <3>. QED
      BY <3>1, <2>1 DEF SpansRight
  <2>5. MadeRight'
    <3>1. ASSUME NEW i \in 1 .. Len(indexOut)
          PROVE  EntryIsRight(indexOut[i])' /\ indexOut[i].chunk <= taken
      BY <2>1, <1>1 DEF EntryIsRight, IndexInv, MadeRight
    <3>. QED
      BY <3>1, <2>1 DEF MadeRight
  <2>6. FiledRight'
    <3>1. ASSUME NEW i \in 1 .. Len(index')
          PROVE  EntryIsRight(index[i])'
      <4>1. EntryIsRight(index'[i])
        BY <2>3, <3>1 DEF IndexInv, FiledRight
      <4>. QED
        BY <4>1, <1>1 DEF EntryIsRight
    <3>. QED
      BY <3>1, <2>1 DEF FiledRight
  <2>. QED
    BY <2>4, <2>5, <2>6 DEF IndexInv
<1>6. CASE \/ CallerNext \/ Take \/ StartFlush \/ SkipFlush \/ Write \/ Sync \/ SyncIndex
           \/ Publish \/ Over \/ UNCHANGED vars
  <2>1. /\ UNCHANGED <<lanes, indexOut, index, taken>>
        /\ phase' # "lost" => phase # "lost"
        /\ offset' = offset \/ offset' = taken
    BY <1>6 DEF CallerNext, Begin, RecorderData, RecorderControl, RecorderEvent,
                RecorderHeartbeat, CloseEnd, CloseSignal, CloseJoin, CloseUnbegun, Recording,
                Take, StartFlush, SkipFlush, Write, Sync, SyncIndex, Publish, Over, vars, caller,
                writer, storage
  <2>2. offset <= taken
    BY DEF TypeInv, TypeOK, WriterType
  <2>. QED
    BY <2>1, <2>2, <1>2, IndexFrame
<1>. QED
  BY <1>3, <1>4, <1>5, <1>6 DEF Next, WriterNext

\* Every index entry, written or about to be, points at the stream byte its heartbeat starts at,
\* in a DATA chunk of its data channel.
THEOREM IndexPointsRight == Spec => []IndexPoints
<1>1. TypeInv /\ IndexInv => IndexPoints
  BY DEF IndexInv, MadeRight, FiledRight, IndexPoints
<1>2. Init => TypeInv /\ IndexInv
  BY TypeInit, IndexInit
<1>3. TypeInv /\ IndexInv /\ [Next]_vars => (TypeInv /\ IndexInv)'
  BY TypeStep, IndexStep
<1>. QED
  BY <1>1, <1>2, <1>3, PTL DEF Spec

\* While the power is on, the index file never points beyond the whole chunks of the capture
\* file, whatever writes fail.
THEOREM IndexStaysWithinFile == Spec => []IndexWithinFile
<1>1. TypeInv /\ IndexInv => IndexWithinFile
  <2> SUFFICES ASSUME TypeInv, IndexInv, phase # "lost", NEW i \in 1 .. Len(index)
               PROVE  index[i].chunk <= fileLen
    BY DEF IndexWithinFile
  <2>1. index[i] \in Entry /\ offset \in Nat /\ fileLen \in Nat
    BY DEF TypeInv, TypeOK, WriterType, StorageType
  <2>2. index[i].chunk \in Nat /\ index[i].chunk <= offset /\ offset <= fileLen
    BY <2>1 DEF IndexInv, FiledRight, Entry, TypeInv, PipelineInv
  <2>. QED
    BY <2>1, <2>2
<1>2. Init => TypeInv /\ IndexInv
  BY TypeInit, IndexInit
<1>3. TypeInv /\ IndexInv /\ [Next]_vars => (TypeInv /\ IndexInv)'
  BY TypeStep, IndexStep
<1>. QED
  BY <1>1, <1>2, <1>3, PTL DEF Spec

-----------------------------------------------------------------------------
(* The sizes and the data of the first items of a log. *)

SizeOf(l, n) == Total([i \in 1 .. n |-> Size(l[i])], n)
DataOf(l, n) == Total([i \in 1 .. n |-> DataLen(l[i])], n)

LEMMA ItemSizes ==
    ASSUME NEW it \in Item
    PROVE  Size(it) \in Nat /\ DataLen(it) \in Nat
BY ItemParts, RecorderAssumption DEF Size, DataLen

LEMMA OfLog ==
    ASSUME NEW l \in Seq(Item), NEW n \in 0 .. Len(l)
    PROVE  /\ [i \in 1 .. n |-> Size(l[i])] \in [1 .. n -> Int]
           /\ [i \in 1 .. n |-> DataLen(l[i])] \in [1 .. n -> Int]
           /\ SizeOf(l, n) \in Int /\ DataOf(l, n) \in Int
<1>1. \A i \in 1 .. n : Size(l[i]) \in Int /\ DataLen(l[i]) \in Int
  <2> TAKE i \in 1 .. n
  <2>1. l[i] \in Item
    OBVIOUS
  <2>. QED
    BY <2>1, ItemSizes
<1>2. n \in Nat
  OBVIOUS
<1> DEFINE f == [i \in 1 .. n |-> Size(l[i])]
           g == [i \in 1 .. n |-> DataLen(l[i])]
<1>3. f \in [1 .. n -> Int] /\ g \in [1 .. n -> Int]
  BY <1>1
<1> HIDE DEF f, g
<1>4. Total(f, n) \in Int /\ Total(g, n) \in Int
  BY <1>2, <1>3, TotalInt
<1>. QED
  BY <1>3, <1>4 DEF f, g, SizeOf, DataOf

\* One more item of the log.
LEMMA OfNext ==
    ASSUME NEW l \in Seq(Item), NEW n \in Nat, n < Len(l)
    PROVE  /\ SizeOf(l, n + 1) = SizeOf(l, n) + Size(l[n + 1])
           /\ DataOf(l, n + 1) = DataOf(l, n) + DataLen(l[n + 1])
<1>1. n \in 0 .. Len(l) /\ n + 1 \in 0 .. Len(l)
  OBVIOUS
<1> DEFINE f == [i \in 1 .. n + 1 |-> Size(l[i])]
           fn == [i \in 1 .. n |-> Size(l[i])]
           g == [i \in 1 .. n + 1 |-> DataLen(l[i])]
           gn == [i \in 1 .. n |-> DataLen(l[i])]
<1>2. /\ f \in [1 .. n + 1 -> Int] /\ fn \in [1 .. n -> Int]
      /\ g \in [1 .. n + 1 -> Int] /\ gn \in [1 .. n -> Int]
  BY <1>1, OfLog
<1>3. /\ \A i \in 1 .. n : f[i] = fn[i]
      /\ \A i \in 1 .. n : g[i] = gn[i]
      /\ f[n + 1] = Size(l[n + 1]) /\ g[n + 1] = DataLen(l[n + 1])
  OBVIOUS
<1> HIDE DEF f, fn, g, gn
<1>4. Total(f, n + 1) = Total(fn, n) + f[n + 1] /\ Total(g, n + 1) = Total(gn, n) + g[n + 1]
  BY <1>2, <1>3, TotalNext
<1>. QED
  BY <1>3, <1>4 DEF f, fn, g, gn, SizeOf, DataOf

\* An item appended leaves the first ones, and adds its own.
LEMMA OfAppend ==
    ASSUME NEW l \in Seq(Item), NEW it \in Item
    PROVE  /\ Append(l, it) \in Seq(Item) /\ Len(Append(l, it)) = Len(l) + 1
           /\ \A n \in 0 .. Len(l) : SizeOf(Append(l, it), n) = SizeOf(l, n)
           /\ SizeOf(Append(l, it), Len(l) + 1) = SizeOf(l, Len(l)) + Size(it)
           /\ DataOf(Append(l, it), Len(l) + 1) = DataOf(l, Len(l)) + DataLen(it)
<1> DEFINE m == Append(l, it)
<1>1. m \in Seq(Item) /\ Len(m) = Len(l) + 1 /\ Len(l) \in Nat /\ m[Len(l) + 1] = it
      /\ \A i \in 1 .. Len(l) : m[i] = l[i]
  OBVIOUS
<1> HIDE DEF m
<1>2. ASSUME NEW n \in 0 .. Len(l)
      PROVE  SizeOf(m, n) = SizeOf(l, n) /\ DataOf(m, n) = DataOf(l, n)
  <2>1. \A i \in 1 .. n : m[i] = l[i]
    BY <1>1
  <2>2. /\ [i \in 1 .. n |-> Size(m[i])] = [i \in 1 .. n |-> Size(l[i])]
        /\ [i \in 1 .. n |-> DataLen(m[i])] = [i \in 1 .. n |-> DataLen(l[i])]
    BY <2>1
  <2>. QED
    BY <2>2, Zenon DEF SizeOf, DataOf
<1>3. /\ SizeOf(m, Len(l) + 1) = SizeOf(m, Len(l)) + Size(m[Len(l) + 1])
      /\ DataOf(m, Len(l) + 1) = DataOf(m, Len(l)) + DataLen(m[Len(l) + 1])
  <2>1. Len(l) < Len(m)
    BY <1>1
  <2>. QED
    BY <1>1, <2>1, OfNext
<1>. QED
  BY <1>1, <1>2, <1>3 DEF m

-----------------------------------------------------------------------------
(* What a call puts into the queue and counts. *)

\* An item that a call pushes is not END, unless it closes the recording.
MayPush(it) == it.kind = "end" => phase' # "recording" /\ it.n = overflowBytes

PushesNone(len) == UNCHANGED <<log, queued>> /\ overflowBytes' = overflowBytes + len

PushesOne(len) ==
    /\ overflowBytes' = overflowBytes
    /\ \E it \in Item : /\ MayPush(it) /\ DataLen(it) = len
                        /\ log' = Append(log, it)
                        /\ queued' = queued + Size(it)

\* An overflow event first.
PushesTwo(len) ==
    /\ overflowBytes' = overflowBytes
    /\ \E ev, it \in Item : /\ MayPush(ev) /\ DataLen(ev) = 0
                            /\ MayPush(it) /\ DataLen(it) = len
                            /\ log' = Append(Append(log, ev), it)
                            /\ queued' = queued + Size(ev) + Size(it)

\* len bytes of a stream are handed over, recorded or dropped.
CallEffect ==
    \E len \in Nat, ch \in Channels :
        /\ stream' = [stream EXCEPT ![ch] = @ + len]
        /\ PushesNone(len) \/ PushesOne(len) \/ PushesTwo(len)

\* A call with an item of its own, and an overflow event if one is due.
LEMMA EventAndItem ==
    ASSUME TypeInv, NEW ch \in Channels, NEW due \in BOOLEAN, NEW ev \in EventFirst(due, ch),
           NEW it \in Item, MayPush(it), overflowBytes' = overflowBytes,
           NEW need, need = (Len(ev) + 1) * ItemSize + DataLen(it),
           Size(it) = ItemSize + DataLen(it),
           Push(Append(ev, it), need)
    PROVE  PushesOne(DataLen(it)) \/ PushesTwo(DataLen(it))
<1>1. log \in Seq(Item) /\ queued \in Int /\ ItemSize \in Nat /\ DataLen(it) \in Nat
  BY RecorderAssumption, ItemSizes DEF TypeInv, TypeOK, SharedType
<1>2. ev = <<>> \/ ev = <<OverflowItem(ch)>>
  BY DEF EventFirst
<1>3. log' = log \o Append(ev, it) /\ queued' = queued + need
  BY DEF Push
<1>4. CASE ev = <<>>
  <2>1. log' = Append(log, it)
    BY <1>1, <1>3, <1>4
  <2>2. Len(ev) = 0
    BY <1>4
  <2>3. queued' = queued + Size(it)
    BY <1>1, <1>3, <2>2
  <2>. QED
    BY <2>1, <2>3 DEF PushesOne
<1>5. CASE ev = <<OverflowItem(ch)>>
  <2> DEFINE o == OverflowItem(ch)
  <2>1. o \in Item /\ o.kind = "overflow"
    BY OverflowItemType DEF TypeInv, OverflowItem, NewItem
  <2>2. Size(o) = ItemSize /\ DataLen(o) = 0 /\ MayPush(o)
    BY <2>1, <1>1 DEF Size, DataLen, MayPush
  <2>3. ev = <<o>>
    BY <1>5
  <2> HIDE DEF o
  <2>4. log' = Append(Append(log, o), it)
    BY <1>1, <1>3, <2>1, <2>3
  <2>5. Len(ev) = 1
    BY <2>3
  <2>6. need = 2 * ItemSize + DataLen(it)
    BY <2>5, <1>1
  <2>7. queued' = queued + Size(o) + Size(it)
    BY <1>1, <1>3, <2>2, <2>6
  <2>. QED
    BY <2>1, <2>2, <2>4, <2>7 DEF PushesTwo
<1>. QED
  BY <1>2, <1>4, <1>5

LEMMA DataEffect ==
    ASSUME TypeInv, NEW ch \in Channels, NEW len \in PieceLens, RecorderData(ch, len)
    PROVE  CallEffect
<1>1. /\ stream' = [stream EXCEPT ![ch] = @ + len]
      /\ stream[ch] \in Nat /\ len \in Nat
  BY RecorderAssumption DEF RecorderData, TypeInv, TypeOK, CallerType
<1> DEFINE due == dropped[ch] > 0 \/ droppedCtrl > 0
           d == NewItem("data", ch, stream[ch], stream[ch] + len, 0)
<1>2. PICK ev \in EventFirst(due, ch) : DataQueued(ch, len, ev) \/ DataDropped(ch, len)
  BY DEF RecorderData
<1>3. d \in Item /\ d.kind = "data" /\ d.from = stream[ch] /\ d.to = stream[ch] + len
  BY <1>1, NewItemType DEF Kinds, NewItem
<1>4. DataLen(d) = len /\ Size(d) = ItemSize + len /\ MayPush(d)
  BY <1>1, <1>3 DEF DataLen, Size, MayPush
<1>5. CASE DataDropped(ch, len)
  BY <1>1, <1>5 DEF DataDropped, shared, PushesNone, CallEffect
<1>6. CASE DataQueued(ch, len, ev)
  <2>1. due \in BOOLEAN
    BY DEF TypeInv, TypeOK, CallerType
  <2>2. /\ Push(Append(ev, d), (Len(ev) + 1) * ItemSize + len)
        /\ overflowBytes' = overflowBytes
    BY <1>6 DEF DataQueued
  <2> HIDE DEF d, due
  <2>3. Push(Append(ev, d), (Len(ev) + 1) * ItemSize + DataLen(d))
    BY <2>2, <1>4
  <2>4. PushesOne(DataLen(d)) \/ PushesTwo(DataLen(d))
    BY <1>2, <1>3, <1>4, <2>1, <2>2, <2>3, EventAndItem
  <2>. QED
    BY <1>1, <1>4, <2>4 DEF CallEffect
<1>. QED
  BY <1>2, <1>5, <1>6

\* A call that hands over no bytes.
LEMMA NoBytes ==
    ASSUME TypeInv, stream' = stream,
           PushesNone(0) \/ PushesOne(0) \/ PushesTwo(0)
    PROVE  CallEffect
<1>1. 0 \in Channels /\ stream \in [Channels -> Nat]
  BY ChannelsNat DEF TypeInv, TypeOK, CallerType
<1>2. stream' = [stream EXCEPT ![0] = @ + 0]
  BY <1>1
<1>. QED
  BY <1>1, <1>2 DEF CallEffect

LEMMA ControlEffect ==
    ASSUME TypeInv, RecorderControl
    PROVE  CallEffect
<1> DEFINE it == NewItem("control", 0, 0, 0, 0)
<1>1. stream' = stream /\ overflowBytes' = overflowBytes /\ overflowBytes \in Nat
  BY DEF RecorderControl, TypeInv, TypeOK, CallerType
<1>2. PICK ev \in EventFirst(droppedCtrl > 0, 0) :
         Push(Append(ev, it), (Len(ev) + 1) * ItemSize) \/ UNCHANGED shared
  BY DEF RecorderControl
<1>3. it \in Item /\ it.kind = "control"
  BY ChannelsNat, NewItemType DEF Kinds, NewItem
<1> HIDE DEF it
<1>4. DataLen(it) = 0 /\ Size(it) = ItemSize /\ MayPush(it) /\ ItemSize \in Nat
  BY <1>3, RecorderAssumption DEF DataLen, Size, MayPush
<1>5. CASE UNCHANGED shared
  BY <1>1, <1>5, NoBytes DEF shared, PushesNone
<1>6. CASE Push(Append(ev, it), (Len(ev) + 1) * ItemSize)
  <2>1. (droppedCtrl > 0) \in BOOLEAN
    BY DEF TypeInv, TypeOK, CallerType
  <2>2. ev \in Seq(Item) /\ Len(ev) \in {0, 1}
    BY <2>1, ChannelsNat, EventFirstType DEF TypeInv
  <2>3. (Len(ev) + 1) * ItemSize = (Len(ev) + 1) * ItemSize + DataLen(it)
    BY <2>2, <1>4
  <2>4. PushesOne(DataLen(it)) \/ PushesTwo(DataLen(it))
    <3>1. /\ Push(Append(ev, it), (Len(ev) + 1) * ItemSize + DataLen(it))
          /\ Size(it) = ItemSize + DataLen(it) /\ 0 \in Channels
      BY <1>4, <1>6, <2>3, ChannelsNat
    <3>. QED
      BY <1>1, <1>2, <1>3, <1>4, <2>1, <3>1, EventAndItem
  <2>. QED
    BY <1>1, <1>4, <2>4, NoBytes
<1>. QED
  BY <1>2, <1>5, <1>6

\* The calls with one item, of the size of an item.
LEMMA OneItemEffect ==
    ASSUME TypeInv, stream' = stream, overflowBytes' = overflowBytes,
           \/ UNCHANGED <<log, queued>>
           \/ \E it \in Item : it.kind # "data" /\ MayPush(it) /\ Push(<<it>>, ItemSize)
    PROVE  CallEffect
<1>1. log \in Seq(Item) /\ overflowBytes \in Nat /\ ItemSize \in Nat
  BY RecorderAssumption DEF TypeInv, TypeOK, SharedType, CallerType
<1>2. CASE UNCHANGED <<log, queued>>
  BY <1>1, <1>2, NoBytes DEF PushesNone
<1>3. CASE \E it \in Item : it.kind # "data" /\ MayPush(it) /\ Push(<<it>>, ItemSize)
  <2>1. PICK it \in Item : it.kind # "data" /\ MayPush(it) /\ Push(<<it>>, ItemSize)
    BY <1>3
  <2>2. DataLen(it) = 0 /\ Size(it) = ItemSize
    BY <1>1, <2>1 DEF DataLen, Size
  <2>3. log' = Append(log, it) /\ queued' = queued + Size(it)
    BY <1>1, <2>1, <2>2 DEF Push
  <2>. QED
    BY <2>1, <2>2, <2>3, NoBytes DEF PushesOne
<1>. QED
  BY <1>2, <1>3

LEMMA OtherEffects ==
    ASSUME TypeInv,
           \/ Begin
           \/ \E ch \in Channels, bytes \in BackendLosses : RecorderEvent(ch, bytes)
           \/ \E ch \in Channels, grid \in 0 .. MaxGrid : \E pos \in HeartbeatStarts(ch) :
                 RecorderHeartbeat(ch, grid, pos)
           \/ CloseEnd \/ CloseSignal \/ CloseJoin \/ CloseUnbegun
    PROVE  CallEffect
<1>1. stream' = stream /\ overflowBytes' = overflowBytes
  BY DEF Begin, RecorderEvent, RecorderHeartbeat, CloseEnd, CloseSignal, CloseJoin, CloseUnbegun
<1>2. overflowBytes \in Nat /\ 0 \in Channels
  BY ChannelsNat DEF TypeInv, TypeOK, CallerType
<1>3. CASE Begin
  <2>1. Push(<<NewItem("header", 0, 0, 0, 0)>>, ItemSize)
    BY <1>3 DEF Begin
  <2>2. NewItem("header", 0, 0, 0, 0) \in Item /\ NewItem("header", 0, 0, 0, 0).kind = "header"
    BY <1>2, NewItemType DEF Kinds, NewItem
  <2>. QED
    BY <1>1, <2>1, <2>2, OneItemEffect DEF MayPush
<1>4. CASE \E ch \in Channels, bytes \in BackendLosses : RecorderEvent(ch, bytes)
  <2>1. PICK ch \in Channels, bytes \in BackendLosses : RecorderEvent(ch, bytes)
    BY <1>4
  <2>2. Push(<<NewItem("event", ch, 0, 0, bytes)>>, ItemSize) \/ UNCHANGED shared
    BY <2>1 DEF RecorderEvent
  <2>3. /\ NewItem("event", ch, 0, 0, bytes) \in Item
        /\ NewItem("event", ch, 0, 0, bytes).kind = "event"
    BY RecorderAssumption, NewItemType DEF Kinds, NewItem
  <2>. QED
    BY <1>1, <2>2, <2>3, OneItemEffect DEF MayPush, shared
<1>5. CASE \E ch \in Channels, grid \in 0 .. MaxGrid : \E pos \in HeartbeatStarts(ch) :
              RecorderHeartbeat(ch, grid, pos)
  <2>0. PICK ch \in Channels, grid \in 0 .. MaxGrid : \E pos \in HeartbeatStarts(ch) :
           RecorderHeartbeat(ch, grid, pos)
    BY <1>5
  <2>1. PICK pos \in HeartbeatStarts(ch) : RecorderHeartbeat(ch, grid, pos)
    BY <2>0
  <2>2. Push(<<NewItem("mark", ch, pos, pos, grid)>>, ItemSize) \/ UNCHANGED shared
    BY <2>1 DEF RecorderHeartbeat, shared
  <2>3. CASE UNCHANGED shared
    BY <1>1, <2>3, OneItemEffect DEF shared
  <2>4. CASE Push(<<NewItem("mark", ch, pos, pos, grid)>>, ItemSize)
    <3>1. log' \in Seq(Item) /\ log \in Seq(Item)
      BY <2>1, HeartbeatTypeStep DEF TypeInv, TypeOK, SharedType
    <3> DEFINE it == NewItem("mark", ch, pos, pos, grid)
    <3>2. it.kind = "mark"
      BY DEF NewItem
    <3>3. log' = log \o <<it>>
      BY <2>4 DEF Push
    <3> HIDE DEF it
    <3>4. log' = Append(log, it)
      BY <3>1, <3>3
    <3>6. Len(log') = Len(log) + 1 /\ log'[Len(log) + 1] = it
      BY <3>1, <3>4
    <3>5. it \in Item
      BY <3>1, <3>6
    <3>. QED
      BY <1>1, <2>4, <3>2, <3>5, OneItemEffect DEF MayPush, it
  <2>. QED
    BY <2>2, <2>3, <2>4
<1>6. CASE CloseEnd
  <2> DEFINE it == NewItem("end", 0, 0, 0, overflowBytes)
  <2>1. phase' = "ending" /\ (Push(<<it>>, ItemSize) \/ UNCHANGED shared)
    BY <1>6 DEF CloseEnd
  <2>2. it \in Item /\ it.kind = "end" /\ it.n = overflowBytes
    BY <1>2, NewItemType DEF Kinds, NewItem
  <2> HIDE DEF it
  <2>3. MayPush(it) /\ it.kind # "data"
    BY <2>1, <2>2 DEF MayPush
  <2>. QED
    BY <1>1, <2>1, <2>2, <2>3, OneItemEffect DEF shared
<1>7. CASE CloseSignal \/ CloseJoin \/ CloseUnbegun
  BY <1>1, <1>7, OneItemEffect DEF CloseSignal, CloseJoin, CloseUnbegun, shared
<1>. QED
  BY <1>3, <1>4, <1>5, <1>6, <1>7

LEMMA CallsCount == TypeInv /\ CallerNext => CallEffect
BY DataEffect, ControlEffect, OtherEffects DEF CallerNext

-----------------------------------------------------------------------------
(* The counts. *)

\* QueueSizeExact, also after a power loss.
QueueInv == queued = held + SizeOf(log, Len(log)) - SizeOf(log, taken)

\* All that is dropped is counted, and END has the count.
DropInv ==
    /\ overflowBytes = Handed - DataOf(log, Len(log))
    /\ \A i \in 1 .. Len(log) :
          log[i].kind = "end" => phase \notin {"open", "recording"} /\ log[i].n = overflowBytes

CountInv == QueueInv /\ DropInv

Given(s) == Total([c \in 1 .. NumChannels |-> s[c - 1]], NumChannels)

LEMMA GivenGrows ==
    ASSUME NEW s \in [Channels -> Nat], NEW ch \in Channels, NEW len \in Nat
    PROVE  Given([s EXCEPT ![ch] = @ + len]) = Given(s) + len /\ Given(s) \in Int
<1> DEFINE f == [c \in 1 .. NumChannels |-> s[c - 1]]
           g == [c \in 1 .. NumChannels |-> [s EXCEPT ![ch] = @ + len][c - 1]]
<1>1. NumChannels \in Nat /\ ch + 1 \in 1 .. NumChannels /\ len \in Int /\ ch \in Int
  BY RecorderAssumption DEF Channels
<1>2. f \in [1 .. NumChannels -> Int]
  BY <1>1 DEF Channels
<1>3. g = [f EXCEPT ![ch + 1] = @ + len]
  <2>1. \A c \in 1 .. NumChannels : g[c] = IF c = ch + 1 THEN f[c] + len ELSE f[c]
    BY <1>1 DEF Channels
  <2>. QED
    BY <1>1, <2>1
<1> HIDE DEF f, g
<1>4. Total(g, NumChannels) = Total(f, NumChannels) + len /\ Total(f, NumChannels) \in Int
  BY <1>1, <1>2, <1>3, TotalGrows, TotalInt
<1>. QED
  BY <1>4 DEF f, g, Given

LEMMA CallCounted ==
    ASSUME TypeInv, QueueInv, overflowBytes = Given(stream) - DataOf(log, Len(log)), CallEffect,
           UNCHANGED <<held, taken>>
    PROVE  /\ QueueInv'
           /\ (overflowBytes = Given(stream) - DataOf(log, Len(log)))'
<1>1. PICK len \in Nat, ch \in Channels :
         /\ stream' = [stream EXCEPT ![ch] = @ + len]
         /\ PushesNone(len) \/ PushesOne(len) \/ PushesTwo(len)
  BY DEF CallEffect
<1>2. /\ log \in Seq(Item) /\ queued \in Int /\ held \in Int /\ overflowBytes \in Int
      /\ Len(log) \in Nat /\ Len(log) \in 0 .. Len(log) /\ taken \in 0 .. Len(log)
      /\ stream \in [Channels -> Nat]
  BY DEF TypeInv, TypeOK, CallerType, SharedType, WriterType
<1>3. /\ SizeOf(log, Len(log)) \in Int /\ DataOf(log, Len(log)) \in Int
      /\ SizeOf(log, taken) \in Int
  BY <1>2, OfLog
<1>4. Given(stream') = Given(stream) + len /\ Given(stream) \in Int
  BY <1>1, <1>2, GivenGrows
<1>5. CASE PushesNone(len)
  BY <1>2, <1>3, <1>4, <1>5 DEF PushesNone, QueueInv
<1>6. CASE PushesOne(len)
  <2>1. PICK it \in Item : /\ DataLen(it) = len
                           /\ log' = Append(log, it)
                           /\ queued' = queued + Size(it)
    BY <1>6 DEF PushesOne
  <2>2. /\ Len(log') = Len(log) + 1
        /\ SizeOf(log', taken) = SizeOf(log, taken)
        /\ SizeOf(log', Len(log')) = SizeOf(log, Len(log)) + Size(it)
        /\ DataOf(log', Len(log')) = DataOf(log, Len(log)) + len
    BY <1>2, <2>1, OfAppend
  <2>3. overflowBytes' = overflowBytes /\ Size(it) \in Nat
    BY <1>6, ItemSizes DEF PushesOne
  <2>4. queued = held + SizeOf(log, Len(log)) - SizeOf(log, taken) /\ held' = held /\ taken' = taken
    BY DEF QueueInv
  <2>5. queued' = held + SizeOf(log', Len(log')) - SizeOf(log', taken)
    <3>1. queued' = queued + Size(it) /\ Size(it) \in Int /\ held \in Int
      BY <1>2, <2>1, <2>3
    <3>2. SizeOf(log', Len(log')) = SizeOf(log, Len(log)) + Size(it)
          /\ SizeOf(log', taken) = SizeOf(log, taken)
      BY <2>2
    <3>3. queued = held + SizeOf(log, Len(log)) - SizeOf(log, taken)
      BY <2>4
    <3>. QED
      BY <1>3, <3>1, <3>2, <3>3
  <2>6. overflowBytes' = Given(stream') - DataOf(log', Len(log'))
    BY <1>2, <1>3, <1>4, <2>2, <2>3
  <2>. QED
    BY <2>4, <2>5, <2>6 DEF QueueInv
<1>7. CASE PushesTwo(len)
  <2>1. PICK ev, it \in Item : /\ DataLen(ev) = 0 /\ DataLen(it) = len
                               /\ log' = Append(Append(log, ev), it)
                               /\ queued' = queued + Size(ev) + Size(it)
    BY <1>7 DEF PushesTwo
  <2> DEFINE l == Append(log, ev)
  <2>2. /\ l \in Seq(Item) /\ Len(l) = Len(log) + 1
        /\ SizeOf(l, taken) = SizeOf(log, taken)
        /\ SizeOf(l, Len(l)) = SizeOf(log, Len(log)) + Size(ev)
        /\ DataOf(l, Len(l)) = DataOf(log, Len(log))
    BY <1>2, <1>3, <2>1, OfAppend
  <2> HIDE DEF l
  <2>3. log' = Append(l, it)
    BY <2>1 DEF l
  <2>4. taken \in 0 .. Len(l)
    BY <1>2, <2>2
  <2>5. /\ Len(log') = Len(l) + 1
        /\ SizeOf(log', taken) = SizeOf(l, taken)
        /\ SizeOf(log', Len(log')) = SizeOf(l, Len(l)) + Size(it)
        /\ DataOf(log', Len(log')) = DataOf(l, Len(l)) + len
    BY <2>1, <2>2, <2>3, <2>4, OfAppend
  <2>6. overflowBytes' = overflowBytes /\ Size(it) \in Nat /\ Size(ev) \in Nat
    BY <1>7, ItemSizes DEF PushesTwo
  <2>7. queued = held + SizeOf(log, Len(log)) - SizeOf(log, taken) /\ held' = held /\ taken' = taken
    BY DEF QueueInv
  <2>8. queued' = held + SizeOf(log', Len(log')) - SizeOf(log', taken)
    <3>1. /\ SizeOf(log', Len(log')) = SizeOf(log, Len(log)) + Size(ev) + Size(it)
          /\ SizeOf(log', taken) = SizeOf(log, taken)
      BY <2>2, <2>5
    <3>2. queued' = queued + Size(ev) + Size(it)
      BY <2>1
    <3>4. Size(ev) \in Int /\ Size(it) \in Int
      BY <2>6
    <3>5. queued' = (held + SizeOf(log, Len(log)) - SizeOf(log, taken)) + Size(ev) + Size(it)
      BY <2>7, <3>2
    <3>6. queued' = held + (SizeOf(log, Len(log)) + Size(ev) + Size(it)) - SizeOf(log, taken)
      BY <1>2, <1>3, <3>4, <3>5
    <3>. QED
      BY <3>1, <3>6
  <2>9. overflowBytes' = Given(stream') - DataOf(log', Len(log'))
    BY <1>2, <1>3, <1>4, <2>2, <2>5, <2>6
  <2>. QED
    BY <2>7, <2>8, <2>9 DEF QueueInv
<1>. QED
  BY <1>1, <1>5, <1>6, <1>7

\* What was END stays it, and no other item is pushed as one.
LEMMA EndCounted ==
    ASSUME TypeInv, DropInv, CallerNext, CallEffect, NEW i \in 1 .. Len(log'), log'[i].kind = "end"
    PROVE  phase' \notin {"open", "recording"} /\ log'[i].n = overflowBytes'
<1>1. /\ log \in Seq(Item)
      /\ phase' = "open" => phase = "open"
      /\ phase' = "recording" => phase \in {"open", "recording"}
      /\ phase' # "open"
      /\ phase \notin {"open", "recording"} => stream' = stream /\ UNCHANGED <<log, overflowBytes>>
  BY DEF TypeInv, TypeOK, SharedType, CallerNext, Begin, RecorderData, RecorderControl,
     RecorderEvent, RecorderHeartbeat, CloseEnd, CloseSignal, CloseJoin, CloseUnbegun, Recording,
     shared
<1>2. CASE phase \notin {"open", "recording"}
  BY <1>1, <1>2 DEF DropInv, CallerNext, Begin, RecorderData, RecorderControl,
     RecorderEvent, RecorderHeartbeat, CloseEnd, CloseSignal, CloseJoin, CloseUnbegun, Recording
<1>3. CASE phase \in {"open", "recording"}
  <2>1. \A j \in 1 .. Len(log) : log[j].kind # "end"
    BY <1>3 DEF DropInv
  <2>2. \/ log' = log
        \/ /\ overflowBytes' = overflowBytes
           /\ \E it \in Item : MayPush(it) /\ log' = Append(log, it)
        \/ /\ overflowBytes' = overflowBytes
           /\ \E ev, it \in Item : MayPush(ev) /\ MayPush(it) /\ log' = Append(Append(log, ev), it)
    BY DEF CallEffect, PushesNone, PushesOne, PushesTwo
  <2>3. overflowBytes' = overflowBytes /\ MayPush(log'[i])
    BY <1>1, <2>1, <2>2
  <2>. QED
    BY <1>1, <2>3 DEF MayPush
<1>. QED
  BY <1>2, <1>3

LEMMA CountStep == TypeInv /\ CountInv /\ [Next]_vars => CountInv'
<1> SUFFICES ASSUME TypeInv, CountInv, [Next]_vars PROVE CountInv'
  OBVIOUS
<1>0. Handed = Given(stream) /\ (Handed = Given(stream))'
  BY DEF Handed, Given
<1>1. CASE CallerNext
  <2>1. CallEffect
    BY <1>1, CallsCount
  <2>2. UNCHANGED <<held, taken>>
    BY <1>1 DEF CallerNext, Begin, RecorderData, RecorderControl, RecorderEvent,
                RecorderHeartbeat, CloseEnd, CloseSignal, CloseJoin, CloseUnbegun, writer
  <2>3. QueueInv' /\ (overflowBytes = Given(stream) - DataOf(log, Len(log)))'
    BY <1>0, <2>1, <2>2, CallCounted DEF CountInv, DropInv
  <2>4. \A i \in 1 .. Len(log') : log'[i].kind = "end" =>
           phase' \notin {"open", "recording"} /\ log'[i].n = overflowBytes'
    BY <1>1, <2>1, EndCounted DEF CountInv
  <2>. QED
    BY <1>0, <2>3, <2>4 DEF CountInv, DropInv
<1>2. CASE WriterNext \/ PowerLoss \/ Over \/ UNCHANGED vars
  <2>1. /\ UNCHANGED <<log, stream, overflowBytes>>
        /\ phase' = phase \/ phase' = "lost"
    BY <1>2 DEF WriterNext, Take, Serialize, StartFlush, SkipFlush, Write, WriteIndex, Sync,
                SyncIndex, Publish, PowerLoss, Over, vars, caller, shared
  <2>2. DropInv'
    BY <2>1 DEF CountInv, DropInv, Handed, DataOf
  <2>3. QueueInv'
    <3>1. CASE Serialize
      <4>1. /\ taken \in Nat /\ taken < Len(log) /\ log \in Seq(Item) /\ held \in Nat
            /\ queued \in Int /\ Len(log) \in 0 .. Len(log) /\ taken \in 0 .. Len(log)
        BY <3>1 DEF Serialize, TypeInv, TypeOK, SharedType, WriterType
      <4>2. /\ taken' = taken + 1 /\ held' = held + Size(log[taken + 1])
            /\ queued' = queued
        BY <3>1 DEF Serialize, shared
      <4>3. /\ SizeOf(log, taken + 1) = SizeOf(log, taken) + Size(log[taken + 1])
            /\ SizeOf(log, taken) \in Int /\ SizeOf(log, Len(log)) \in Int
        BY <4>1, OfNext, OfLog
      <4>4. Size(log[taken + 1]) \in Int
        BY <4>1, ItemSizes
      <4>. QED
        BY <2>1, <4>1, <4>2, <4>3, <4>4 DEF CountInv, QueueInv
    <3>2. CASE Publish
      <4>1. /\ held \in Nat /\ queued \in Int /\ log \in Seq(Item)
            /\ Len(log) \in 0 .. Len(log) /\ taken \in 0 .. Len(log)
        BY DEF TypeInv, TypeOK, SharedType, WriterType
      <4>2. SizeOf(log, taken) \in Int /\ SizeOf(log, Len(log)) \in Int
        BY <4>1, OfLog
      <4>3. queued' = queued - held /\ held' = 0 /\ taken' = taken
        BY <3>2 DEF Publish
      <4>. QED
        BY <2>1, <4>1, <4>2, <4>3 DEF CountInv, QueueInv
    <3>3. CASE ~Serialize /\ ~Publish
      <4>1. UNCHANGED <<queued, held, taken>>
        BY <1>2, <3>3 DEF WriterNext, Take, StartFlush, SkipFlush, Write, WriteIndex, Sync,
                SyncIndex, PowerLoss, Over, vars, shared, writer
      <4>. QED
        BY <2>1, <4>1 DEF CountInv, QueueInv
    <3>. QED
      BY <3>1, <3>2, <3>3
  <2>. QED
    BY <2>2, <2>3 DEF CountInv
<1>. QED
  BY <1>1, <1>2 DEF Next

LEMMA CountInit == Init => CountInv
<1> SUFFICES ASSUME Init PROVE CountInv
  OBVIOUS
<1>1. Len(log) = 0 /\ log = <<>> /\ log \in Seq(Item)
  BY DEF Init
<1>2. SizeOf(log, 0) = 0 /\ DataOf(log, 0) = 0
  <2> DEFINE f == [i \in 1 .. 0 |-> Size(log[i])]
             g == [i \in 1 .. 0 |-> DataLen(log[i])]
  <2>1. f \in [1 .. 0 -> Int] /\ g \in [1 .. 0 -> Int]
    OBVIOUS
  <2> HIDE DEF f, g
  <2>2. Total(f, 0) = 0 /\ Total(g, 0) = 0
    BY <2>1, TotalZero
  <2>. QED
    BY <2>2 DEF f, g, SizeOf, DataOf
<1>3. Handed = 0
  <2> DEFINE f == [c \in 1 .. NumChannels |-> stream[c - 1]]
  <2>1. NumChannels \in Nat
    BY RecorderAssumption
  <2>2. f \in [1 .. NumChannels -> Int] /\ \A c \in 1 .. NumChannels : f[c] = 0
    BY <2>1 DEF Init, Channels
  <2> HIDE DEF f
  <2>3. PICK t : Sums(t, f, NumChannels) /\ Total(f, NumChannels) = t[NumChannels]
    BY <2>1, <2>2, TotalSums
  <2> DEFINE S == {k \in Nat : k <= NumChannels => t[k] = 0}
  <2>4. 0 \in S
    BY <2>3 DEF Sums
  <2>5. ASSUME NEW k \in S PROVE k + 1 \in S
    <3>1. CASE k + 1 <= NumChannels
      <4>1. k + 1 \in 1 .. NumChannels /\ (k + 1) - 1 = k /\ t[k] = 0
        BY <3>1, <2>1
      <4>2. t[k + 1] = t[(k + 1) - 1] + f[k + 1]
        BY <4>1, <2>3 DEF Sums
      <4>. QED
        BY <4>1, <4>2, <2>2
    <3>. QED
      BY <3>1, <2>1
  <2> HIDE DEF S
  <2>6. NumChannels \in S
    BY <2>1, <2>4, <2>5, InductiveSet DEF S
  <2>. QED
    BY <2>1, <2>3, <2>6 DEF S, f, Handed
<1>. QED
  BY <1>1, <1>2, <1>3 DEF Init, CountInv, QueueInv, DropInv

LEMMA CountsKept == Spec => [](TypeInv /\ CountInv)
<1>1. Init => TypeInv /\ CountInv
  BY TypeInit, CountInit
<1>2. TypeInv /\ CountInv /\ [Next]_vars => (TypeInv /\ CountInv)'
  BY TypeStep, CountStep
<1>. QED
  BY <1>1, <1>2, PTL DEF Spec

\* The size push() limits the queue by is that of the items in it and in the writer's hands, for
\* any number of data channels and any interleaving of caller and writer.
THEOREM QueueSizeStaysExact == Spec => []QueueSizeExact
<1>1. TypeInv /\ CountInv => QueueSizeExact
  BY DEF QueueSizeExact, SizeUpTo, SizeOf, CountInv, QueueInv
<1>. QED
  BY <1>1, CountsKept, PTL

\* END, which recorder_close() makes, counts the bytes handed to the recorder that are in no DATA
\* chunk: those it dropped itself, not those the backend dropped.
THEOREM EndCountsOwn == Spec => []EndCountsOwnDrops
<1>1. TypeInv /\ CountInv => EndCountsOwnDrops
  BY DEF EndCountsOwnDrops, RecordedUpTo, DataOf, CountInv, DropInv
<1>. QED
  BY <1>1, CountsKept, PTL

-----------------------------------------------------------------------------
(* What a recording that closed leaves. *)

\* What the writer's last pass has done of a flush by the time it stands at wpc, unless it failed.
Flushed ==
    sawClosing /\ ~failed =>
        /\ wpc \in {"sync", "syncIndex", "publish"} => indexOut = <<>> /\ fileLen = taken
        /\ wpc \in {"syncIndex", "publish"} => fileSynced = fileLen
        /\ wpc = "publish" => indexSynced = Len(index)

Durable ==
    /\ fileLen = Len(log) /\ ~torn
    /\ fileSynced = fileLen
    /\ indexOut = <<>>
    /\ indexSynced = Len(index)

\* Once the writer is told to close nothing is accepted, so the list taken then is the last.
CloseInv ==
    /\ phase \in {"open", "recording"} => ~endQueued
    /\ phase = "open" => log = <<>>
    /\ phase \in {"open", "recording", "ending"} => ~closing
    /\ endQueued => log # <<>> /\ log[Len(log)].kind = "end"
    /\ sawClosing => closing /\ listEnd = Len(log)
    /\ phase = "closed" => wpc = "done" \/ log = <<>>
    /\ wpc = "done" => sawClosing /\ taken = Len(log) /\ held = 0 /\ (~error => Durable)
    /\ Flushed

LEMMA CloseInit == Init => CloseInv
BY DEF Init, CloseInv, Flushed

LEMMA CloseCallerStep ==
    ASSUME TypeInv, CloseInv, CallerNext
    PROVE  CloseInv'
<1>1. /\ UNCHANGED <<listEnd, taken, held, sawClosing, failed, indexOut, error>>
      /\ UNCHANGED storage
      /\ wpc' = wpc \/ (wpc = "off" /\ wpc' = "idle")
  <2>1. CASE Begin
    <3>1. phase = "open" => wpc = "off"
      BY DEF TypeInv, PipelineInv
    <3>. QED
      BY <2>1, <3>1 DEF Begin, Push
  <2> DEFINE Quiet == /\ UNCHANGED writer
                      /\ UNCHANGED storage
                      /\ error' = error
  <2>2. ASSUME NEW ch, NEW len, RecorderData(ch, len) PROVE Quiet
    BY <2>2 DEF RecorderData, shared, Push, DataQueued, DataDropped
  <2>3. ASSUME RecorderControl PROVE Quiet
    BY <2>3 DEF RecorderControl, shared, Push
  <2>4. ASSUME NEW ch, NEW bytes, RecorderEvent(ch, bytes) PROVE Quiet
    BY <2>4 DEF RecorderEvent, shared, Push
  <2>5. ASSUME NEW ch, NEW grid, NEW p, RecorderHeartbeat(ch, grid, p) PROVE Quiet
    BY <2>5 DEF RecorderHeartbeat, shared, Push
  <2>6. ASSUME CloseEnd PROVE Quiet
    BY <2>6 DEF CloseEnd, shared, Push
  <2>7. ASSUME CloseSignal \/ CloseJoin \/ CloseUnbegun PROVE Quiet
    BY <2>7 DEF CloseSignal, CloseJoin, CloseUnbegun, shared
  <2> HIDE DEF Quiet
  <2>8. ~Begin => Quiet
    BY <2>2, <2>3, <2>4, <2>5, <2>6, <2>7 DEF CallerNext
  <2>. QED
    BY <2>1, <2>8 DEF Quiet, writer
<1>2. Flushed'
  BY <1>1 DEF CloseInv, Flushed, storage
<1>3. CASE phase \in {"open", "recording"} /\ ~CloseUnbegun
  <2>1. ~closing /\ ~sawClosing /\ ~endQueued /\ wpc # "done"
    BY <1>3 DEF CloseInv
  <2>2. CASE CloseEnd
    <3> DEFINE it == NewItem("end", 0, 0, 0, overflowBytes)
    <3>1. /\ phase' = "ending" /\ closing' = closing
          /\ endQueued' => log' = log \o <<it>>
      BY <2>2 DEF CloseEnd, Push, shared
    <3>2. it.kind = "end" /\ log \in Seq(Item) /\ it \in Item
      BY ChannelsNat, NewItemType DEF TypeInv, TypeOK, SharedType, CallerType, NewItem, Kinds
    <3> HIDE DEF it
    <3>3. endQueued' => log' # <<>> /\ log'[Len(log')].kind = "end"
      BY <3>1, <3>2
    <3>. QED
      BY <1>1, <1>2, <2>1, <3>1, <3>3 DEF CloseInv
  <2>3. CASE ~CloseEnd
    <3>1. phase' = "recording" /\ closing' = closing /\ endQueued' = endQueued
      <4> DEFINE Goes == phase' = "recording" /\ closing' = closing /\ endQueued' = endQueued
      <4>1. CASE Begin
        BY <4>1 DEF Begin, Push
      <4>2. ASSUME NEW ch, NEW len, RecorderData(ch, len) PROVE Goes
        BY <4>2 DEF RecorderData, shared, Push, DataQueued, DataDropped, Recording
      <4>3. CASE RecorderControl
        BY <4>3 DEF RecorderControl, shared, Push, Recording
      <4>4. ASSUME NEW ch, NEW bytes, RecorderEvent(ch, bytes) PROVE Goes
        BY <4>4 DEF RecorderEvent, shared, Push, Recording
      <4>5. ASSUME NEW ch, NEW grid, NEW p, RecorderHeartbeat(ch, grid, p) PROVE Goes
        BY <4>5 DEF RecorderHeartbeat, shared, Push, Recording
      <4>6. ~CloseSignal /\ ~CloseJoin
        BY <1>3 DEF CloseSignal, CloseJoin
      <4>. QED
        BY <1>3, <2>3, <4>1, <4>2, <4>3, <4>4, <4>5, <4>6 DEF CallerNext
    <3>. QED
      BY <1>1, <1>2, <2>1, <3>1 DEF CloseInv
  <2>. QED
    BY <2>2, <2>3
<1>4. CASE CloseUnbegun
  <2>1. phase = "open" /\ phase' = "closed" /\ UNCHANGED <<log, closing, endQueued>>
    BY <1>4 DEF CloseUnbegun, shared
  <2>. QED
    BY <1>1, <1>2, <2>1 DEF CloseInv, Durable, storage
<1>5. CASE CloseSignal
  <2>1. phase' = "joining" /\ closing' /\ UNCHANGED <<log, endQueued, wpc>>
    BY <1>5 DEF CloseSignal, writer
  <2>. QED
    BY <1>1, <1>2, <2>1 DEF CloseInv, Durable, storage
<1>6. CASE CloseJoin
  <2>1. phase' = "closed" /\ wpc = "done" /\ UNCHANGED <<log, endQueued, wpc, closing>>
    BY <1>6 DEF CloseJoin, shared, writer
  <2>. QED
    BY <1>1, <1>2, <2>1 DEF CloseInv, Durable, storage
<1>. QED
  BY <1>3, <1>4, <1>5, <1>6 DEF CallerNext, Begin, RecorderData, RecorderControl, RecorderEvent,
         RecorderHeartbeat, CloseEnd, Recording

LEMMA CloseWriterStep ==
    ASSUME TypeInv, CloseInv, WriterNext
    PROVE  CloseInv'
<1>1. UNCHANGED <<phase, endQueued, log, closing>> /\ wpc # "done"
  BY DEF WriterNext, Take, Serialize, StartFlush, SkipFlush, Write, WriteIndex, Sync, SyncIndex,
         Publish, Listed, caller, shared
<1>2. CASE Take
  BY <1>1, <1>2 DEF Take, CloseInv, Flushed
<1>3. CASE Serialize
  <2>1. UNCHANGED <<sawClosing, listEnd, wpc>> /\ wpc = "serialize"
    BY <1>3 DEF Serialize
  <2>. QED
    BY <1>1, <2>1 DEF CloseInv, Flushed
<1>4. CASE StartFlush \/ SkipFlush
  <2>1. /\ UNCHANGED <<sawClosing, listEnd, failed>>
        /\ wpc' = "write" \/ (wpc' \in {"publish", "sync"} /\ (failed \/ ~sawClosing))
    BY <1>4 DEF StartFlush, SkipFlush, MustFlush, shared, caller
  <2>. QED
    BY <1>1, <2>1 DEF CloseInv, Flushed
<1>5. CASE Write
  BY <1>1, <1>5 DEF Write, CloseInv, Flushed
<1>6. CASE WriteIndex
  <2>1. fileLen = taken
    BY <1>6 DEF WriteIndex, TypeInv, PipelineInv, TypeOK, WriterType, StorageType
  <2>. QED
    BY <1>1, <1>6, <2>1 DEF WriteIndex, CloseInv, Flushed
<1>7. CASE Sync
  BY <1>1, <1>7 DEF Sync, CloseInv, Flushed
<1>8. CASE SyncIndex
  BY <1>1, <1>8 DEF SyncIndex, CloseInv, Flushed
<1>9. CASE Publish
  <2>1. /\ UNCHANGED <<sawClosing, listEnd, failed, taken, indexOut, storage>> /\ held' = 0
        /\ error' = FirstError /\ wpc = "publish"
        /\ wpc' = IF PassIsLast THEN "done" ELSE "idle"
    BY <1>9 DEF Publish
  <2>2. CASE ~PassIsLast
    BY <1>1, <2>1, <2>2 DEF CloseInv, Flushed
  <2>3. CASE PassIsLast
    <3>1. ~error' => ~failed /\ ~error
      <4>1. error' = (error \/ failed)
        BY <2>1, Zenon DEF FirstError
      <4>. QED
        BY <4>1, Zenon
    <3>2. ~error' => ~torn
      <4>1. phase # "lost" /\ (torn => error \/ failed)
        BY <2>1 DEF TypeInv, PipelineInv
      <4>. QED
        BY <3>1, <4>1, Zenon
    <3>3. ~error' => Durable'
      BY <1>1, <2>1, <2>3, <3>1, <3>2 DEF CloseInv, Flushed, Durable, PassIsLast, storage
    <3>. QED
      BY <1>1, <2>1, <2>3, <3>3 DEF CloseInv, Flushed, PassIsLast
  <2>. QED
    BY <2>2, <2>3
<1>. QED
  BY <1>2, <1>3, <1>4, <1>5, <1>6, <1>7, <1>8, <1>9 DEF WriterNext

LEMMA CloseStep == TypeInv /\ CloseInv /\ [Next]_vars => CloseInv'
<1> SUFFICES ASSUME TypeInv, CloseInv, [Next]_vars PROVE CloseInv'
  OBVIOUS
<1>1. CASE PowerLoss
  BY <1>1 DEF PowerLoss, CloseInv, Flushed, shared
<1>2. CASE UNCHANGED vars
  BY <1>2 DEF vars, caller, shared, writer, storage, CloseInv, Flushed, Durable
<1>. QED
  BY <1>1, <1>2, CloseCallerStep, CloseWriterStep DEF Next, Over

\* When recorder_close() of a recording returns no error, all that was accepted, END last, is in
\* the file and durable with every index entry, and the queue's size is zero, for any number of
\* calls and any interleaving and failure before.
THEOREM ClosedStaysDurable == Spec => []ClosedIsDurable
<1>1. TypeInv /\ CountInv /\ CloseInv => ClosedIsDurable
  <2> SUFFICES ASSUME TypeInv, CountInv, CloseInv, phase = "closed", Begun, ~CloseError
               PROVE  /\ log[Len(log)].kind = "end"
                      /\ Durable
                      /\ queued = 0
    BY DEF ClosedIsDurable, Durable
  <2>1. log # <<>> /\ ~error /\ endQueued
    BY DEF Begun, CloseError
  <2>2. wpc = "done" /\ taken = Len(log) /\ held = 0 /\ Durable /\ log[Len(log)].kind = "end"
    BY <2>1 DEF CloseInv
  <2>3. SizeOf(log, Len(log)) \in Int
    BY OfLog DEF TypeInv, TypeOK, SharedType
  <2>4. queued = 0
    BY <2>2, <2>3 DEF CountInv, QueueInv
  <2>. QED
    BY <2>2, <2>4
<1>2. Init => TypeInv /\ CountInv /\ CloseInv
  BY TypeInit, CountInit, CloseInit
<1>3. TypeInv /\ CountInv /\ CloseInv /\ [Next]_vars => (TypeInv /\ CountInv /\ CloseInv)'
  BY TypeStep, CountStep, CloseStep
<1>. QED
  BY <1>1, <1>2, <1>3, PTL DEF Spec

-----------------------------------------------------------------------------
(* The recorder is a queue that announces what it drops. *)

PieceOf(it) ==
    [kind |-> IF it.kind = "data" THEN "data" ELSE "gap", from |-> it.from, to |-> it.to]

IsPiece(it, ch) == TellsOf(it, ch) /\ it.from < it.to

PiecesOf(l, ch) == {PieceOf(l[i]) : i \in {i \in 1 .. Len(l) : IsPiece(l[i], ch)}}

LEMMA PiecesOfLog == \A ch : Pieces(ch) = PiecesOf(log, ch)
BY DEF Pieces, PiecesOf, PieceOf, IsPiece, Tells, TellsOf

LEMMA PiecesAppended ==
    ASSUME NEW l \in Seq(Item), NEW it \in Item, NEW ch
    PROVE  PiecesOf(Append(l, it), ch) =
              PiecesOf(l, ch) \cup (IF IsPiece(it, ch) THEN {PieceOf(it)} ELSE {})
<1> DEFINE m == Append(l, it)
<1>1. /\ Len(m) = Len(l) + 1 /\ Len(l) \in Nat
      /\ m[Len(m)] = it
      /\ \A i \in 1 .. Len(l) : m[i] = l[i]
  OBVIOUS
<1>2. 1 .. Len(m) = (1 .. Len(l)) \cup {Len(m)}
  BY <1>1
<1> HIDE DEF m
<1>. QED
  BY <1>1, <1>2 DEF PiecesOf, m

\* What was told up to a point of the stream ends there.
LEMMA ToldEnd ==
    ASSUME NEW l \in Seq(Item), NEW ch \in Channels, NEW upto \in Nat, ToldUpTo(l, ch, upto)
    PROVE  Announced!End(PiecesOf(l, ch)) = upto
<1>1. \A p \in PiecesOf(l, ch) : p.to \in Nat /\ 0 < p.to /\ p.to <= upto
  BY DEF PiecesOf, PieceOf, IsPiece, ToldUpTo, Item
<1>2. CASE upto = 0
  <2>1. PiecesOf(l, ch) = {}
    BY <1>1, <1>2
  <2>. QED
    BY <1>2, <2>1 DEF Announced!End
<1>3. CASE upto # 0
  <2>1. PICK i \in 1 .. Len(l) : /\ TellsOf(l[i], ch)
                                 /\ l[i].from <= upto - 1 /\ upto - 1 < l[i].to
    <3>1. \A p \in 0 .. upto - 1 :
             \E i \in 1 .. Len(l) : TellsOf(l[i], ch) /\ l[i].from <= p /\ p < l[i].to
      BY Zenon DEF ToldUpTo
    <3>2. upto - 1 \in 0 .. upto - 1
      BY <1>3
    <3>. QED
      BY <3>1, <3>2, Zenon
  <2>2. l[i] \in Item /\ l[i].from < l[i].to
    BY <2>1 DEF Item
  <2>3. PieceOf(l[i]) \in PiecesOf(l, ch) /\ PieceOf(l[i]).to = l[i].to
    BY <2>1, <2>2 DEF PiecesOf, IsPiece, PieceOf
  <2>4. l[i].to = upto
    BY <1>1, <2>1, <2>2, <2>3 DEF Item
  <2> DEFINE P == PiecesOf(l, ch)
             ends == {p.to : p \in P}
  <2>5. P # {} /\ upto \in ends /\ \A p \in P : p.to <= upto
    BY <1>1, <2>3, <2>4
  <2>6. \A e \in ends : e \in Nat /\ e <= upto
    BY <1>1
  <2> DEFINE last == CHOOSE e \in ends : \A p \in P : p.to <= e
  <2>7. last \in ends /\ \A p \in P : p.to <= last
    BY <2>5
  <2>8. upto <= last
    BY <2>3, <2>4, <2>7
  <2>9. last = upto
    <3>. HIDE DEF last, ends, P
    <3>. QED
      BY <2>6, <2>7, <2>8
  <2>10. Announced!End(P) = last
    <3>. HIDE DEF P
    <3>. QED
      BY <2>5, Zenon DEF Announced!End
  <2>. QED
    BY <2>9, <2>10
<1>. QED
  BY <1>2, <1>3

\* The gap to announce now is what the overflow event due now says.
LEMMA GapIsEvent ==
    ASSUME TypeInv, StreamTold, NEW ch \in Channels
    PROVE  LET o == OverflowItem(ch)
           IN  /\ Announced!Gap(ch) = IF IsPiece(o, ch) THEN {PieceOf(o)} ELSE {}
               /\ Announced!Gap(ch) = {} <=> dropped[ch] = 0
<1> DEFINE o == OverflowItem(ch)
           told == [c \in Channels |-> Pieces(c)]
<1>1. /\ log \in Seq(Item) /\ stream[ch] - dropped[ch] \in Nat
      /\ stream[ch] \in Nat /\ dropped[ch] \in Nat
      /\ ToldUpTo(log, ch, stream[ch] - dropped[ch])
  BY ToldPoint DEF TypeInv, TypeOK, SharedType
<1>2. Announced!End(told[ch]) = stream[ch] - dropped[ch]
  BY <1>1, ToldEnd, PiecesOfLog
<1>3. /\ o.kind = "overflow" /\ o.ch = ch
      /\ o.from = stream[ch] - dropped[ch] /\ o.to = stream[ch]
  BY DEF OverflowItem, NewItem
<1>4. PieceOf(o) = Announced!Piece("gap", stream[ch] - dropped[ch], stream[ch])
  BY <1>3 DEF PieceOf, Announced!Piece
<1>5. IsPiece(o, ch) <=> stream[ch] - dropped[ch] < stream[ch]
  BY <1>3 DEF IsPiece, TellsOf
<1>6. Announced!Gap(ch) = IF Announced!End(told[ch]) < stream[ch]
                          THEN {Announced!Piece("gap", Announced!End(told[ch]), stream[ch])}
                          ELSE {}
  BY DEF Announced!Gap
<1>7. (stream[ch] - dropped[ch] < stream[ch]) <=> dropped[ch] # 0
  BY <1>1
<1> HIDE DEF o, told
<1>8. Announced!Gap(ch) = IF IsPiece(o, ch) THEN {PieceOf(o)} ELSE {}
  BY <1>2, <1>4, <1>5, <1>6
<1>9. IsPiece(o, ch) <=> dropped[ch] # 0
  BY <1>5, <1>7, Zenon
<1>10. Announced!Gap(ch) = {} <=> dropped[ch] = 0
  BY <1>8, <1>9
<1>. QED
  BY <1>8, <1>10 DEF o

\* An overflow event for data channel ch, with no piece of its own or with the one to announce.
LEMMA EventPieces ==
    ASSUME TypeInv, StreamTold, NEW ch \in Channels, NEW c \in Channels
    PROVE  PiecesOf(Append(log, OverflowItem(ch)), c) =
              IF c = ch THEN PiecesOf(log, ch) \cup Announced!Gap(ch) ELSE PiecesOf(log, c)
<1> DEFINE o == OverflowItem(ch)
<1>1. o \in Item /\ log \in Seq(Item) /\ o.ch = ch
  BY OverflowTold DEF TypeInv, TypeOK, SharedType, OverflowItem, NewItem
<1>2. Announced!Gap(ch) = IF IsPiece(o, ch) THEN {PieceOf(o)} ELSE {}
  BY GapIsEvent
<1>3. c # ch => ~IsPiece(o, c)
  BY <1>1 DEF IsPiece, TellsOf
<1> HIDE DEF o
<1>4. PiecesOf(Append(log, o), c) =
         PiecesOf(log, c) \cup (IF IsPiece(o, c) THEN {PieceOf(o)} ELSE {})
  BY <1>1, PiecesAppended
<1>. QED
  BY <1>2, <1>3, <1>4 DEF o

LEMMA DataImplements ==
    ASSUME AllocMayFail = FALSE, TypeInv, StreamTold,
           NEW ch \in Channels, NEW len \in PieceLens, RecorderData(ch, len)
    PROVE  Announced!Drop(ch) \/ Announced!Deliver(ch)
<1> DEFINE due == dropped[ch] > 0 \/ droppedCtrl > 0
           d == NewItem("data", ch, stream[ch], stream[ch] + len, 0)
           o == OverflowItem(ch)
           told == [c \in Channels |-> Pieces(c)]
           piece == Announced!Piece("data", stream[ch], stream[ch] + len)
<1>1. /\ stream' = [stream EXCEPT ![ch] = @ + len]
      /\ stream[ch] \in Nat /\ dropped[ch] \in Nat /\ len \in Nat \ {0}
      /\ stream'[ch] - stream[ch] = len
      /\ log \in Seq(Item)
  BY RecorderAssumption DEF RecorderData, TypeInv, TypeOK, CallerType, SharedType
<1>2. PICK ev \in EventFirst(due, ch) : DataQueued(ch, len, ev) \/ DataDropped(ch, len)
  BY DEF RecorderData
<1>3. len \in 1 .. stream'[ch] - stream[ch]
  BY <1>1
<1>4. CASE DataDropped(ch, len)
  <2>1. log' = log
    BY <1>4 DEF DataDropped, shared
  <2>2. UNCHANGED told
    BY <2>1, PiecesOfLog DEF Pieces, Tells
  <2>. QED
    BY <1>1, <1>3, <2>2 DEF Announced!Drop
<1>5. CASE DataQueued(ch, len, ev)
  <2>1. d \in Item /\ d.kind = "data" /\ d.ch = ch /\ d.from < d.to /\ PieceOf(d) = piece
    BY <1>1, NewItemType DEF Kinds, NewItem, PieceOf, Announced!Piece
  <2>2. o \in Item /\ o.ch = ch
    BY OverflowItemType DEF TypeInv, OverflowItem, NewItem
  <2>3. log' = log \o Append(ev, d)
    BY <1>5 DEF DataQueued, Push
  <2>4. \A c \in Channels : IsPiece(d, c) <=> c = ch
    BY <2>1 DEF IsPiece, TellsOf
  <2>5. ASSUME NEW c \in Channels
        PROVE  PiecesOf(log', c) =
                  IF c = ch THEN PiecesOf(log, ch) \cup Announced!Gap(ch) \cup {piece}
                            ELSE PiecesOf(log, c)
    <3>1. CASE due
      <4>1. log' = Append(Append(log, o), d) /\ Append(log, o) \in Seq(Item)
        <5>1. ev = <<o>>
          BY <1>2, <3>1 DEF EventFirst
        <5>. HIDE DEF o, d
        <5>. QED
          BY <1>1, <2>1, <2>2, <2>3, <5>1
      <4>2. PiecesOf(Append(log, o), c) =
               IF c = ch THEN PiecesOf(log, ch) \cup Announced!Gap(ch) ELSE PiecesOf(log, c)
        BY EventPieces
      <4>. HIDE DEF o, d, piece
      <4>3. PiecesOf(log', c) = PiecesOf(Append(log, o), c) \cup
                                (IF IsPiece(d, c) THEN {PieceOf(d)} ELSE {})
        BY <2>1, <4>1, PiecesAppended
      <4>. QED
        BY <2>1, <2>4, <4>2, <4>3
    <3>2. CASE ~due
      <4>1. log' = Append(log, d)
        <5>1. ev = <<>>
          BY <1>2, <3>2 DEF EventFirst
        <5>. HIDE DEF d
        <5>. QED
          BY <1>1, <2>1, <2>3, <5>1
      <4>2. Announced!Gap(ch) = {}
        BY <1>1, <3>2, GapIsEvent
      <4>. HIDE DEF d, piece
      <4>3. PiecesOf(log', c) = PiecesOf(log, c) \cup
                                (IF IsPiece(d, c) THEN {PieceOf(d)} ELSE {})
        BY <1>1, <2>1, <4>1, PiecesAppended
      <4>. QED
        BY <2>1, <2>4, <4>2, <4>3
    <3>. QED
      BY <3>1, <3>2
  <2>6. told' = [c \in Channels |-> PiecesOf(log', c)] /\ told = [c \in Channels |-> PiecesOf(log, c)]
    BY PiecesOfLog DEF Pieces, PiecesOf, PieceOf, IsPiece, Tells, TellsOf
  <2>. HIDE DEF piece
  <2>7. told' = [told EXCEPT ![ch] = @ \cup Announced!Gap(ch) \cup {piece}]
    BY <2>5, <2>6
  <2>. QED
    BY <1>1, <1>3, <2>7 DEF Announced!Deliver, piece
<1>. QED
  BY <1>2, <1>4, <1>5

LEMMA ControlImplements ==
    ASSUME AllocMayFail = FALSE, TypeInv, StreamTold, RecorderControl
    PROVE  Announced!Announce(0) \/ UNCHANGED Announced!avars
<1> DEFINE it == NewItem("control", 0, 0, 0, 0)
           o == OverflowItem(0)
           told == [c \in Channels |-> Pieces(c)]
<1>1. stream' = stream /\ log \in Seq(Item) /\ 0 \in Channels
  BY ChannelsNat DEF RecorderControl, TypeInv, TypeOK, SharedType
<1>2. PICK ev \in EventFirst(droppedCtrl > 0, 0) : log' = log \o Append(ev, it) \/ log' = log
  BY DEF RecorderControl, Push, shared
<1>3. it \in Item /\ \A c \in Channels : ~IsPiece(it, c)
  BY <1>1, NewItemType DEF Kinds, NewItem, IsPiece, TellsOf
<1>4. o \in Item
  BY <1>1, OverflowItemType DEF TypeInv
<1>5. told' = [c \in Channels |-> PiecesOf(log', c)] /\ told = [c \in Channels |-> PiecesOf(log, c)]
  BY PiecesOfLog DEF Pieces, PiecesOf, PieceOf, IsPiece, Tells, TellsOf
<1>6. CASE log' = log
  BY <1>1, <1>5, <1>6 DEF Announced!avars
<1>7. CASE log' = log \o Append(ev, it) /\ ev = <<>>
  <2>. HIDE DEF it
  <2>1. log' = Append(log, it)
    BY <1>1, <1>3, <1>7
  <2>2. \A c \in Channels : PiecesOf(log', c) = PiecesOf(log, c)
    BY <1>1, <1>3, <2>1, PiecesAppended
  <2>. QED
    BY <1>1, <1>5, <2>2 DEF Announced!avars
<1>8. CASE log' = log \o Append(ev, it) /\ ev = <<o>>
  <2>1. \A c \in Channels : PiecesOf(Append(log, o), c) =
               IF c = 0 THEN PiecesOf(log, 0) \cup Announced!Gap(0) ELSE PiecesOf(log, c)
    BY <1>1, EventPieces
  <2>. HIDE DEF it, o
  <2>2. log' = Append(Append(log, o), it) /\ Append(log, o) \in Seq(Item)
    BY <1>1, <1>3, <1>4, <1>8
  <2>3. \A c \in Channels : PiecesOf(log', c) = PiecesOf(Append(log, o), c)
    BY <1>3, <2>2, PiecesAppended
  <2>4. told' = [told EXCEPT ![0] = @ \cup Announced!Gap(0)]
    BY <1>1, <1>5, <2>1, <2>3
  <2>. QED
    BY <1>1, <2>4 DEF Announced!Announce
<1>. QED
  BY <1>2, <1>6, <1>7, <1>8 DEF EventFirst

LEMMA StepImplements ==
    ASSUME AllocMayFail = FALSE
    PROVE  TypeInv /\ StreamTold /\ [Next]_vars => [Announced!ANext]_Announced!avars
<1> SUFFICES ASSUME TypeInv, StreamTold, [Next]_vars
             PROVE  Announced!ANext \/ UNCHANGED Announced!avars
  OBVIOUS
<1>1. log \in Seq(Item)
  BY DEF TypeInv, TypeOK, SharedType
<1>2. /\ [c \in Channels |-> Pieces(c)]' = [c \in Channels |-> PiecesOf(log', c)]
      /\ [c \in Channels |-> Pieces(c)] = [c \in Channels |-> PiecesOf(log, c)]
  BY PiecesOfLog DEF Pieces, PiecesOf, PieceOf, IsPiece, Tells, TellsOf
<1>3. ASSUME stream' = stream, log' = log
      PROVE  UNCHANGED Announced!avars
  BY <1>2, <1>3 DEF Announced!avars
<1>4. CASE \E ch \in Channels, len \in PieceLens : RecorderData(ch, len)
  BY <1>4, DataImplements DEF Announced!ANext
<1>5. CASE RecorderControl
  BY <1>5, ControlImplements, ChannelsNat DEF Announced!ANext
<1>6. CASE \/ Begin
           \/ \E ch \in Channels, bytes \in BackendLosses : RecorderEvent(ch, bytes)
           \/ \E ch \in Channels, grid \in 0 .. MaxGrid : \E pos \in HeartbeatStarts(ch) :
                 RecorderHeartbeat(ch, grid, pos)
           \/ CloseEnd \/ CloseSignal \/ CloseJoin \/ CloseUnbegun
  <2>1. /\ stream' = stream
        /\ \/ log' = log
           \/ \E it \in Item : it.kind \notin {"data", "overflow"} /\ log' = log \o <<it>>
    BY <1>6, OtherCalls
  <2>2. ASSUME NEW it \in Item, it.kind \notin {"data", "overflow"}, log' = log \o <<it>>
        PROVE  \A c \in Channels : PiecesOf(log', c) = PiecesOf(log, c)
    <3>1. log' = Append(log, it)
      BY <1>1, <2>2
    <3>2. \A c \in Channels : ~IsPiece(it, c)
      BY <2>2 DEF IsPiece, TellsOf
    <3>. QED
      BY <1>1, <3>1, <3>2, PiecesAppended
  <2>3. CASE log' # log
    BY <1>2, <2>1, <2>2, <2>3 DEF Announced!avars
  <2>. QED
    BY <1>3, <2>1, <2>3
<1>7. CASE WriterNext \/ PowerLoss \/ Over \/ UNCHANGED vars
  <2>1. UNCHANGED <<log, stream>>
    BY <1>7 DEF WriterNext, Take, Serialize, StartFlush, SkipFlush, Write, WriteIndex, Sync,
                SyncIndex, Publish, PowerLoss, Over, vars, caller, shared
  <2>. QED
    BY <1>3, <2>1
<1>. QED
  BY <1>4, <1>5, <1>6, <1>7 DEF Next, CallerNext

LEMMA InitImplements == Init => Announced!AInit
<1> SUFFICES ASSUME Init PROVE Announced!AInit
  OBVIOUS
<1>1. Len(log) = 0 /\ stream = [ch \in Channels |-> 0]
  BY DEF Init
<1>2. \A ch \in Channels : Pieces(ch) = {}
  BY <1>1 DEF Pieces
<1>. QED
  BY <1>1, <1>2 DEF Announced!AInit

\* The recorder implements the queue that announces what it drops: every step of caller, writer
\* and storage is one of its steps or changes nothing it shows, for any number of channels and
\* calls and any interleaving. Where malloc() fails for an overflow event the code queues the
\* bytes without it, so the theorem assumes that it does not.
THEOREM RecorderImplements ==
    ASSUME AllocMayFail = FALSE
    PROVE  Spec => ImplementsAnnouncedStream
<1>1. Init => TypeInv /\ StreamTold /\ Announced!AInit
  BY TypeInit, ToldInit, InitImplements
<1>2. TypeInv /\ StreamTold /\ [Next]_vars => (TypeInv /\ StreamTold)'
  BY TypeStep, ToldStep
<1>3. TypeInv /\ StreamTold /\ [Next]_vars => [Announced!ANext]_Announced!avars
  BY StepImplements
<1>. QED
  BY <1>1, <1>2, <1>3, PTL DEF Spec, ImplementsAnnouncedStream, Announced!ASpec
=============================================================================
