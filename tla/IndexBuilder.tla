---------------------------- MODULE IndexBuilder ----------------------------
(***************************************************************************)
(* The index builder of host/capture/index.c: it is fed the DATA chunks of *)
(* a capture file in file order and the good heartbeats in stream order,   *)
(* and pairs every K-th heartbeat with the chunk that holds its first      *)
(* byte.  One lane per data channel keeps the spans of stream bytes that   *)
(* may still hold a heartbeat to index, and the next grid count due.       *)
(*                                                                         *)
(* A lane is a value; the operators below are what index_builder_chunk()   *)
(* and index_builder_heartbeat() make of it.  A span's growth and its      *)
(* compaction in memory are left out: the spans are a set, ordered by      *)
(* their start.                                                            *)
(***************************************************************************)
EXTENDS Naturals, Sequences

CONSTANT K   \* grid points between entries (index_interval)

ASSUME KAssumption == K \in Nat \ {0}

Span  == [start : Nat, len : Nat, chunk : Nat]
Lane  == [spans : SUBSET Span, next : Nat]
Entry == [grid : Nat, chunk : Nat, payload : Nat, ch : Nat]

EmptyLane == [spans |-> {}, next |-> 0]

\* The first grid count after grid that is a multiple of K.
NextGrid(grid) == (grid \div K + 1) * K

\* A DATA chunk at file position chunk carries the stream bytes start .. start+len-1.
LaneChunk(lane, start, len, chunk) ==
    [lane EXCEPT !.spans = @ \cup {[start |-> start, len |-> len, chunk |-> chunk]}]

LiveSpansOneMore(lane, pos) == {s \in lane.spans : s.start + s.len >= pos}

\* Heartbeats come in stream order: a span that ends at or before pos is done with.
LiveSpans(lane, pos) == {s \in lane.spans : s.start + s.len > pos}

FirstSpan(spans) == CHOOSE s \in spans : \A t \in spans : s.start <= t.start

Due(lane, grid) == grid >= lane.next

\* The heartbeat's first byte reached the file: the oldest span left holds it.
ByteIsKnown(lane, pos) ==
    /\ LiveSpans(lane, pos) # {}
    /\ FirstSpan(LiveSpans(lane, pos)).start <= pos

EntryFor(lane, ch, grid, pos) ==
    LET s == FirstSpan(LiveSpans(lane, pos))
    IN  [grid |-> grid, chunk |-> s.chunk, payload |-> pos - s.start, ch |-> ch]

\* The lane and the entries after a heartbeat that checked good.
LaneHeartbeat(lane, grid, pos) ==
    IF ~Due(lane, grid)
    THEN lane
    ELSE [spans |-> LiveSpans(lane, pos),
          next  |-> IF ByteIsKnown(lane, pos) THEN NextGrid(grid) ELSE lane.next]

EntriesFor(lane, ch, grid, pos) ==
    IF Due(lane, grid) /\ ByteIsKnown(lane, pos)
    THEN <<EntryFor(lane, ch, grid, pos)>>
    ELSE <<>>
=============================================================================
