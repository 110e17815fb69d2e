# Verification of the bus_replay capture path

TLA+ models, TLC runs and TLAPS proofs for `src/firmware/ports/bus_replay`, a logic analyser: a
microcontroller samples up to 16 lines and sends what changes as a stream of bytes over a UART
and messages over SPI; programs on a host configure it, record what it sends, serve it to
viewers over TCP, decode it and show it. Paths below are relative to
`src/firmware/ports/bus_replay/` unless they start with `src/`.

The thread through the whole system is one promise: **nothing on the path may block, so every
stage drops what it cannot take, and every stage marks what it dropped where it dropped it.**
The device drops edges it has no time to encode and sends a loss report; the backend's reader
drops bytes its caller is too slow for; the link drops what a slow client does not take; the
recorder drops what storage does not take. A decoder that is not told of a gap turns it into
edges that never were. The properties here are mostly about that promise.

## 1. Inventory

| Component | Code | State it keeps | Operations | Hard behaviour |
|---|---|---|---|---|
| Capture file recorder | `host/capture/recorder.c` | queue under a lock, drop counters, the writer's list and batch, two files | `begin`, `data`, `control`, `event`, `heartbeat`, `close`; the writer's pass: take, serialise, flush, sync, publish | two threads, a queue at its limit, failing `malloc`/`write`/`fsync`, power loss between two files that refer to each other, the end of the writer |
| Index builder | `host/capture/index.c` | per data channel ("lane") the spans of recent DATA chunks and the next grid count due | `index_builder_chunk`, `index_builder_heartbeat`, reading an index | heartbeats that span chunks, gaps between chunks |
| Capture session | `host/capture/capture.c` | configuration, one parser per data channel, recorder, trailer, reports of losses | open, configure, start, read, stop, seek, rebuild the index | calls in any legal order, files cut short, an index that does not fit its capture |
| Device backend | `host/capture/local.c` with `spi.c`, `control.c`, `gpio.c` | queue of blocks under a lock, epoch, drop counter, pending messages | `hello`, `config`, `read`, `stop`, `close`; the reader thread's loop | reader against caller, a flush against bytes under way, a queue at its limit, late replies |
| Loss reports | device `device/src/capture.c`, `capture_loop.S`; host `host/capture/loss.c`, `spi.c` | device: bit-sliced drop counters, a slot handed from cleanup to housekeeping, one being sent; host: the next report's number, the last one's end | drop, flush, snap, load, acknowledge; `tracker_take` | a report clocked out counts as received though its CRC may have failed; counters that overflow; two interleaved code paths |
| Link server | `host/modes/link.c`, `host/capture/linkproto.c` | the client, its queue and drop counters, configuration log, tails of the streams, whether a capture runs | accept, hello, configure, attach, stop, pull, forward, enqueue | slow clients, joining in the middle of a stream, a reconnect before the old connection's end is seen |
| Link client | `host/capture/remote.c` | connection, reply slot, queued items | hello, config, read, stop | a reply that arrives after its timeout |
| Device control channel | `device/src/control.c`, `host/capture/spi.c`, `control.c` | device: registers, queue of replies, the SPI slave's semaphore; host: the operation and its retries | a pass over a transaction, a transaction, hello, config, stop | refused, garbled and late messages, a queue that is full, who is to know that a start was taken |
| Device capture loop | `device/src/capture.c`, `capture_loop.S` | sample ring, drop counters, heartbeat | record, drop, flush, heartbeat | hard real time, counted in cycles |
| Wire parser | `host/capture/wire.c` | levels, ticks, grid, CRC, resynchronisation state, losses and mismatches | feed, break, add a loss span, watermark | what may be trusted after a gap, what explains a contradiction |
| Capture file reader | `host/capture/thcfile.c`, `info.c` | position | chunk headers and bodies | files cut short |
| Merge of data channels | `host/codec/merge.c` | one queue and watermark per data channel | record, heartbeat, level, advance, flush | order over data channels |
| Codecs and outputs | `host/codec/*`, `host/modes/decoding.c` | per decoder its open item; items held until nothing earlier can come | record, heartbeat, loss, finish, next | decoders over one another, losses told late, items that overlap them |
| Viewer session, store | `host/ui/session/session.c`, `host/ui/store/*` | commands and status under a lock, views with reference counts, decoder groups; records in bounded blocks | open, hello, start, stop, add and remove decoders, acquire and release; write, read, columns, losses | one writer, many readers, a store that drops what is being read, a view replaced while it is read |
| Viewer, command line | `host/ui/cel`, `host/main.c`, `host/modes` | | | drawing, arguments |
| MO coprocessor, KB50 | `src/firmware/MO`, `src/firmware/keyboards/KB50` | an IR transmitter, a keyboard | | apart from the analyser |

**How they interact.** The device sends bytes (UART) and messages (SPI, announced by an IRQ
line). The backend's reader thread queues the bytes; the thread that owns the capture session
(`capture.c`) pulls items from a *source* (`capture/source.h`): the backend directly, a link
client, or a file. It hands each item to the recorder first, then to the parser, which calls back
with heartbeats; a good heartbeat is handed to the recorder to be indexed. The recorder's writer
thread owns the files. The link server is a source's owner like the session and forwards its
items into one queue per client.

**What makes each correct.**

* *Recorder*: up to any point of the file every byte handed over is in a chunk or in an announced
  gap, in order, once; entries of the index point at the heartbeat they name and never past the
  file; nothing follows a chunk that was cut; a close that returns 0 has left everything
  durable; the queue's accounting does not drift; the caller never waits for storage but in
  `close`, which returns.
* *Backend*: after a reset no byte of before it is delivered; what is delivered and announced is
  all that was read, in order; the caller is never left asleep with something to read.
* *Loss reports*: the host marks every tick range in which an edge was dropped, and the counts it
  sums are the device's, though reports are lost.
* *Link*: the client's stream starts at a heartbeat and is complete from there but for announced
  gaps; it has the whole setup of the capture; a reply answers its own request; every request
  returns; a stop stops.
* *Device control*: what the host takes for a running capture is one, with the registers it asked
  for, and the reply it takes for a write is that write's.
* *Wire parser*: what is handed over is what was on the lines; faults are found only where
  something was lost; records are trusted again after a gap, and from a heartbeat of the stream.
* *Merge, codecs*: items come in order of their start, say the same however the data channels
  interleave, and are marked when a loss overlaps them.
* *Viewer*: a level read is the line's or unknown; the store stays within its limit; a decoder is
  fed every record once, in order, with every loss at its place; nothing is freed while held.

The full list of what is hard to test, each at its line, is in `PROJECT.json` under `hazards`,
with the properties that watch it.

## 2. Modules

| Module | Models | Uses |
|---|---|---|
| `AnnouncedStream` | the promise of every queue that drops: per stream, what is told is a set of pieces, each data or an announced gap, that begin where those before them end and never reach beyond what was given | |
| `Totals` | a running total, with no recursive operator | |
| `TotalsProofs` | induction over numbers, and the facts about totals | `Totals` |
| `FoldProofs` | `FoldLeft` with any operator: what it is of `<<>>`, of `Append`, of `\o`, and what it stays in | `TotalsProofs`, locally |
| `IndexBuilder` | the pure operators of one lane of the index builder | |
| `Recorder` | the recorder: caller's operations, writer's pass, storage | `IndexBuilder` |
| `MCRecorder` | `Recorder` for TLC: properties that sum over the log, the refinement of `AnnouncedStream`, liveness | `Recorder`, `AnnouncedStream`, `Totals` |
| `RecorderProofs` | type correctness, the pipeline's invariant, gaps marked, torn stays last, index entries point right and within the file, the counts, what a clean close leaves, the refinement of `AnnouncedStream` | `MCRecorder`, `TotalsProofs` |
| `LocalBackend` | the device backend: reader thread, caller, the device's two lines | |
| `MCLocalBackend` | `LocalBackend` for TLC: fairness, liveness, properties of the pipeline as a whole | `LocalBackend`, `Totals` |
| `LocalBackendProofs` | type correctness, no lost wake-up, nothing stale, given out once and in order | `MCLocalBackend`, `TotalsProofs` |
| `LossReport` | loss reports end to end: the device's cleanup and housekeeping, the SPI slave, the host's tracker | |
| `MCLossReport` | `LossReport` for TLC: fairness, liveness | `LossReport` |
| `LossReportProofs` | drops counted exactly, no report sent twice, what is marked is what was lost | `LossReport` |
| `LinkProto` | messages between the link and its client, sockets that break | |
| `Link` | the link server: one client, one device | `LinkProto` |
| `Remote` | the client: requests with timeouts, items received between, the session on it | `LinkProto` |
| `LinkSystem`, `MCLinkSystem` | both together, fairness, what the client gets of the device's streams | `Link`, `Remote` |
| `LinkSystemProofs` | types, replies answer, STOP stops, the session's configuration is the device's, streams miss nothing unannounced, where a joined client's streams begin | `LinkSystem`, `FoldProofs` |
| `DeviceControl` | the device's control channel and a host that starts captures | |
| `DeviceControlProofs` | types, replies are their write's, both sides agree on what runs | `DeviceControl` |
| `Wire` | the parser and the writer of one data channel's format, as operators | |
| `WireChannel`, `MCWireChannel` | device, a way that loses bytes, parser; late loss reports | `Wire` |
| `Merge` | the merge of data channels, as operators | |
| `CodecItem`, `ActivityDecoder`, `I2cDecoder`, `UartDecoder`, `ChipDecoder` | the decoders, as operators | |
| `Codec` | the codec session: decoders on a merge and on each other, items held | `Merge`, the decoders |
| `CaptureLines` | captures: how lines change, and which changes were dropped | |
| `CodecSession`, `MCCodecSession` | decoding a capture as it arrives | `Codec`, `CaptureLines` |
| `Store` | the viewer's store of a capture, as operators | |
| `StoreCapture`, `MCStoreCapture` | a capture written to the store, losses told early and late | `Store` |
| `DecoderGroup`, `MCDecoderGroup` | the session's thread: pulls to the store, groups that decode from it | `Store`, `CaptureLines` |
| `ViewSession`, `MCViewSession` | the viewer's commands, views and thread | |
| `ViewSessionProofs` | types, views' counts, nothing works on an old view | `ViewSession` |

### 2.1 Recorder

State and code. `log` is a history: every item the queue ever accepted, in order. The code's
queue, the list the writer took from it, the batch buffer and the file are four consecutive
intervals of it, marked by `listEnd`, `taken`, `offset` and `fileLen`, so that each of
`recorder.c`'s list operations is a step of one of these counters. A file offset is a position in
`log`. `queued`, `closing`, `error` are the fields of the same names; `dropped`, `droppedCtrl`,
`overflowBytes`, `nextGrid` are the caller's; `held`, `sawClosing`, `failed`, `flushed` are
`writer_main()`'s locals; `lanes` and `indexOut` are the index builder's. `stream`,
`heartbeats` and `fresh` stand for the session that calls (`handle()` and `on_heartbeat()` in
`capture.c`): the bytes handed over, the heartbeats found in them, and the piece just handed
over, in which the parser may find one complete. A heartbeat may start in an earlier piece.

Actions. One per call of the caller: `Begin`, `RecorderData`, `RecorderControl`, `RecorderEvent`,
`RecorderHeartbeat`, and `recorder_close()` in three, because it takes the lock twice and then
joins: `CloseEnd`, `CloseSignal`, `CloseJoin` (`CloseUnbegun` for a recording that never began).
One per lock section or system call of the writer: `Take`, `Serialize` (one item), `StartFlush` /
`SkipFlush`, `Write`, `WriteIndex`, `Sync`, `SyncIndex`, `Publish`. `PowerLoss` cuts both files
anywhere after what was synced. Any allocation may fail (`AllocMayFail`), any write and sync too
(`WriteMayFail`), leaving a prefix of whole chunks and a cut one.

Abstractions. Bytes are counted, never valued; a chunk's header counts as nothing and an item's
bookkeeping as `ItemSize`. The size of a batch is counted in chunks. Timers (flush and sync
intervals) are nondeterministic choices. Times and sequence numbers in chunks are left out.
Short writes that are resumed by `write_all()` are one step. A cut of the index file is at an entry.

### 2.2 LocalBackend

State and code. The device is `devOn` (whether it captures), the bytes it has `sent`, what of
them is in the UART's input (`uart`) and its messages (`outbox`: the IRQ line is high when it is
not empty). `queue`, `queued`, `dropped`, `epoch`, `readError` are the fields under the lock,
`wake` and `quit` the two eventfds. `block` is `reader_main()`'s block (empty or one), `rpc` where
the reader is. `cpc` is where the caller is; `gotDropped`, `got`, `gotError` are `next_item()`'s
locals, `pending`, `capturing`, `silent`, `errorTold` the caller's fields. A byte is its number in
the order the device sent them. Three histories: `resetAt`, how many bytes had been sent when
`flush_data()` last emptied the UART; `given`, the items given out since the last flush;
`readIn`, the bytes read since into blocks of the epoch.

Actions. The reader: a block is made with the epoch of that moment (`ReaderOpen`), then the
bytes are read (`ReaderRead`): two steps, because a flush may come in between. `ReaderPublish`
is `publish()`'s lock section (`QueueBlock`: stale, dropped or queued), `ReaderWake` its write to
the eventfd after it. The end of the thread is `ReaderLast`, `ReaderLastWake`; it comes by `quit`,
a failed UART (`ReaderFails`) or a failed `poll()` or `malloc()` (`ReaderGivesUp`, which leaves no
error). The caller: `hello()` and `stop()` differ in what they return, so both are `ResetBegin` or
`ResetFails`, `ReceiveHello`, and `flush_data()` in two steps, `FlushUart` and `FlushQueue`.
`config()` is `ConfigWrite` (one transaction that carries the write out and a message in) or
`ConfigFails`, then `ReceiveReply`, `ReceiveOther`, `ReceiveFails`. `local_read()` is `ReadBegin`,
`next_item()`'s lock section `Look`, and one `Tell...` action per case in the order of the code;
nothing to tell leads to `Sleep` (the `poll()`) and `Woken`, or `ReadTimesOut`. `local_close()` is
`CloseBegin` and `CloseJoin`.

Abstractions. Clocks are choices: a block may be due at any time after its first byte, the data
channel may be found silent at any time. A transaction of `spi.c` is one step; its retries and
checks are in "may fail". Only writes the device accepts are modelled, and `config()` is called
after a reset. The kernel's own input buffer loses nothing.

### 2.3 LossReport

State and code. `step` is the cleanup's state word (`ST_...`), `hk` housekeeping's, with states
that no other part can tell apart joined. `pos` is r9, kept without the wrap so that properties
can speak of the true tick; every tick the code stores is `pos % Word`. `slices`, `sliceAdds`,
`lost`, `lossOpen`, `lossStart`, `lossEnd`, `next...`, `snapBusy`, `copyBusy`, `reportSeq`,
`reportStart` and `buf` are the fields of `struct capture` and the report's buffer; `loaded` is
whether `loaded_len` is not 0. `owner`, `acquired`, `asked`, `clocked` are the SPI slave:
semaphore, event, a waiting ACQUIRE task, and how much the last transaction took. `last`,
`havePrev`, `nextSeq`, `prevEnd` are `struct loss_tracker`. Histories: the ticks of each
channel's `drops`, the `marks` the host made, `repeated`.

Actions. Cleanup: one per outcome of a state (`ScanQuiet`, `ScanChange`, `Encode`, `RecordDrop`,
`ScanDrop...`, `Heartbeat`, `Flush`), and `Snap` once per group of counters, because housekeeping
runs in between. Housekeeping: one per state that reads or writes what another part can change in
between (`Ask`, `Acquired`, `Semaphore`, `Amount`, `Decide`, `Copy`, `Release`); the CRC and the
loading of the slave's registers happen while the CPU owns the semaphore and are part of `Copy`
and `Release`. The host: `ReadReport`, and what may happen instead: `ReadFails` (bits go wrong,
after part or all of the report was clocked out), `ReadNothing`, `ReadRefused` (the CPU holds the
semaphore: the refused transaction fires the END_ACQUIRE short as well).

Abstractions. Cleanup's lag and the room in the output ring are choices: a sample is dropped or
not, a heartbeat fits or not. What is written is left out. One group of counters is `PerStep`
(three in the code). A flush is one step, because nothing else reads or writes the slices or
`lost[]`. The state
`ST_RECORD_SLOW` is left out: it needs a heartbeat pending in `ST_RECORD`, and while one is
pending cleanup stays in `ST_SCAN_DROP`. The host's heartbeats lag behind by at most `MaxLag`
grid points. The wrap of the 32-bit counters and of the sequence is left out, that of ticks is not.

### 2.4 Link, Remote, LinkSystem

State and code. `Link`: `running`, `hello`, `log`, `lastGrid`, `tail`, `lossBase` are
`struct link`'s fields, `cl` the client's (`fd`, `streaming`, `attaching`, `started`, `dropped`),
`out` its output queue; `dev` is what is behind `source_ops`. `Remote`: `fd`, the reply slot, the
items set aside, and the state of the capture session on it. `LinkProto`: per connection the
messages under way each way, and which ends are open. The data channels are the numbers below
`DcCount`, so that a loop over them is a fold in the code's order. A stream is counted in units,
each of which may be the start of a heartbeat; `dev.stream[d].pos` is where the device's is,
`expect` a history of how far the client is in each.

Actions. One per handler of `link_main()`'s loop (`AcceptClient`, `OnHello`, `OnConfig`,
`OnAttach`, `OnStop`, `Pull`, `ClientWrite`, `ClientGone`, `Quit`), each with the whole of what it
calls; the client's requests in three (`Send`, `ReceiveStep` per message, `Return` or `Timeout`).
A source operation may fail before or after it reached the device, a connection may end at any time.

Abstractions. The link's own recording, the requests RECORD and STATUS, and allocations that
fail are left out. A message is read whole or not at all.

### 2.5 DeviceControl

State and code. `dev` is the firmware before the capture loop (`state`, registers, `queue` of
replies, `pass`: whether it is between its two looks at the SPI slave), `spis` the slave
(semaphore, event, what was received and what is prepared), `irq` the line; `host` is where the
host's operation is, with the retries of `spi.c`; `pending`, `capturing`, `plan` are its session's.

Actions. `Boot`; the device's pass in two, `ServiceBegin` and `ServiceEnd`, because a transaction
may come in between; the host's `Start` and `Stop` (reset, hello, one write per register),
`Wait` for IRQ, `Transaction` with its outcomes for either side, `Refuse` and `NotReady` for one
that meets a busy device, `Timeout`. Registers are those a capture needs, two values each, one of
which the device refuses.

### 2.6 Wire, WireChannel

State and code. `Wire` is a record with the fields of `struct wire` and one operator per function;
a byte carries what it was written as, which no operator of the parser looks at. `WireChannel` has
the device's writer, the way to the host and the parser. The device writes a change
(`WriteChange`) or drops it and reports it later (`DropChange`, `ReportLoss`), and beats
(`Beat`). Any run of bytes may be lost on the way, told by an overflow event or in silence.

Abstractions. A CRC matches when exactly the bytes it covers were read before it. Two lines, a
record in one byte, a heartbeat in four.

### 2.7 Merge, Codec, CodecSession

State and code. A merge, a decoder, a codec session are records; every function of
`merge.c`, `codec.c` and the decoders' `struct codec_def` is an operator. The capture is chosen
in `Init` (`CaptureLines`): all ways two lines can change in four ticks with any one change
dropped, and the lines of an I2C master and of a UART. Actions: `Deliver` the next record or
heartbeat of a data channel, `ReportLoss` at any time after it, `Drain`, `Finish`.

Abstractions. Texts and fields of items are left out but for what the chip decoders read. Bytes
have one bit; addresses one value. Chips: one with registers (`ina219.c`'s pointer, calibration
and scaled registers) and one with commands and checksummed words (`sht`-like definitions).

### 2.8 Store, StoreCapture

State and code. A store is a record: per channel its blocks of records, anchors, the spans it is
unknown in and the losses; per data channel the watermark and the heartbeats kept for late losses.
Arrays sorted by tick are sets, an array's capacity is its length. `StoreCapture` delivers
batches (records, a heartbeat, loss reports) in each data channel's order, any record of which may
be lost and told early or late. `store_level`, `store_columns`, `store_read_merged` and
`store_losses` are operators its properties ask after every step.

### 2.9 DecoderGroup, ViewSession

State and code. `DecoderGroup` is `session_main()`'s round while a capture runs: a pull to the
store (`Pull`, with any number of the capture's losses told, in order), then each group's step
(`GroupStep`, with all of `group_step()`: losses known, levels before, a range of records, the
end). A group starts with the capture, is added later (`AddGroup`), or is started again for a
decoder stacked on it (`StackOn`) or because the store has dropped what it was to read next
(in `GroupStep`). A group's `log` is the calls made of its codec since it was last started.
`ViewSession` is the rest of `session.c`: `queue`, `running`, `st`, `decs` under the lock; views
as numbers with their reference counts `refs`; the thread's `cap`, `backend`, `reading`, `batch`,
`info`, `groups`. A step of the thread is what it does between two lock sections; each operation
that may fail has its failure as an action or a disjunct (`OpenFails`, `BeginFails`,
`BatchFails`).

Abstractions. The events ring, the cache of items and failing allocations in a round are left out.
In `ViewSession` a store is its watermark and a group decodes up to it or not yet.

### 2.10 The runs

| Run | Question | Result |
|---|---|---|
| `recorder_stream` | two data channels and control messages against a queue of three items: is every dropped byte marked at its place, in every prefix of the file? Does the queue's size drift? Is the recorder an `AnnouncedStream`? | holds |
| `recorder_storage` | heartbeats that span chunks, `malloc`, `write` and `fsync` that fail, power loss, fair scheduling: do entries point right and within the file; is a clean close durable; is nothing written after a cut; is what was accepted written, and does `close` return? | holds |
| `backend_threads` | the reader against the caller, a queue smaller than a block, a reset, everything may fail: given out once, in order, or announced; no lost wake-up; what was read is told, a failed UART is told, `close` returns | holds |
| `loss_told` | two channels, snap and copy one counter at a time, failing transactions: counters exact, everything counted is marked and nothing else, no report twice, a loss is told | holds |
| `link_client` | a client that comes, goes and times out, a device that fails: its stream complete or announced, from a heartbeat on, the whole setup, its own replies, every request returns, a stop stops | holds |
| `late_reply` | does what `request()` returns answer the request? | violated: a reply that comes after its timeout answers the next |
| `device_start` | noise, refusals and missed deadlines while three captures are started: do both sides agree on what runs, is a reply its write's, does a start that meets no failure succeed? | holds |
| `wire_trust` | changes, drops and lost bytes, told or not: is what the parser hands over what happened, are faults excused exactly by losses, is it trusted again in time, does the watermark hold? | holds |
| `codec_interleaved` | every interleaving of two data channels, a loss told at any time: items in order, the same as at once, the same as sent, marked by losses | holds |
| `store_limit` | a store of a few records, losses early and late: levels true or unknown, memory within the limit, nothing lost but from the old end | holds |
| `decoder_rounds` | a group there from the start and one added later, decoders stacked, over a store that drops: fed in order, once, with losses in place as far as `FedMax` reaches; nothing held is left unfed | holds |
| `view_commands` | any three commands, views acquired and released, everything may fail, `session_free()` at any time: references exact, nothing works on an old view, commands are done and shown, `session_free()` returns | holds |

Three more configurations are kept beside the runs. Each states what a document says and the code
does not do (2.11), and shows why the property of the run is narrower; TLC finds all three violated:

| Configuration | Property | Counterexample |
|---|---|---|
| `Recorder_end_count.cfg` (`MCRecorder`) | `EndCountsAllDropped` | END counts nothing of what the backend dropped |
| `DecoderGroup_losses.cfg` (`MCDecoderGroup`) | `EveryLossInPlace` | with `FedMax` = 1, the second of two losses told in time is not given |
| `DecoderGroup_restart.cfg` (`MCDecoderGroup`) | `DecodedIsFed` | a decoder is stacked on a group that has decoded; it keeps its tick and has been given nothing |

**Bounds, and why they are enough.** Every bound is a guard of the model and named in its
`CONSTANTS` (`Max...`).

* `recorder_stream`: the queue holds the header and two more items or one of two bytes, so it
  overflows from the second call on, on either channel, with the writer anywhere; four accepted
  items are enough for drop, announce, drop, announce on both channels.
* `recorder_storage`: pieces and heartbeats are both two bytes long, so a heartbeat lies within a
  piece or spans two; the queue makes gaps between them; a batch of two chunks can be cut at
  either, and the index's entry written or not.
* `backend_threads`: the queue is smaller than a block, so dropping is forced; one reset and two
  bytes are what TLC can take, so that a block of an old epoch, or a block put back, seldom meets a
  publish here: that `NothingStale` and `OnceInOrder` hold with any number of either is theorems
  (3.2). A report comes before, between or after two writes' replies.
* `loss_told`: four ticks have up to three samples with changes on either channel and heartbeats
  at ticks 0 and 2: one loss can be in the slave, one handed over and one open, and with one
  counter copied per step either side may be between its channels when the other runs.
  `FlushAt` = 2 flushes within a loss; three drops without it would run over `SliceWord` = 3.
  Ticks do not wrap (`Word` = 16).
* `link_client`: two data channels of two units each, the second a heartbeat; a queue of three
  units drops from the second item on; two connections let a client come back while the old one is
  still known; one timeout, one fault.
* `device_start`: a queue of one reply, two tries, three starts: a reply given up in the first is
  under way in the second, and the third follows a stop or a failure of either.
* `wire_trust`: five heartbeats let the parser lose trust, resynchronise and lose it again; two
  changes at the same or different ticks; one run of lost bytes, of any length, at any byte.
* `codec_interleaved`: with four ticks and heartbeats every two, one data channel can be ahead by
  all that its queue may hold.
* `store_limit`: two data channels of one line; the limit is below what the capture holds, with
  two records to a block; two loss reports, each early or late.
* `decoder_rounds`: a block is one record and a round reads two, so a group is overtaken by the
  store's oldest tick in the middle of its reading. Captures have one loss, or one for each of up
  to four changes of a line, against `FedMax` = 2, so the store has more losses in reach than it
  gives. `FedRight` speaks of groups that have taken a step since they were last started. A loss is
  at its place if it was told within the hold, if fewer than `FedMax` losses come before it, and if
  the store has not dropped what it covers. `DecoderGroup_restart.cfg` shows why the
  groups are limited so, and `DecoderGroup_losses.cfg` (with a store that drops nothing) why the
  losses are.
* `view_commands`: three commands are enough for a capture to be started, replaced and stopped,
  or for a decoder to be added before and stacked after; one hold of the UI per view.

What the bounds leave out is, for the safety properties of the recorder, the backend, the loss
reports, the link with its client, the control channel and the viewer's commands, covered by the
theorems of section 3, which hold for all values of the constants.

**Fairness.** Stated only where a liveness property is checked.

* Recorder (`FairSpec`). The writer thread is scheduled: `WF(WriterNext)`. A flush that is put off
  by size is forced by the flush interval, which runs out while passes that skip it come and go:
  `SF(StartFlush)`. The caller of `recorder_close()` is in one function and goes on:
  `WF(CloseSignal)`, `WF(CloseJoin)`. Nothing makes the caller begin, call or close.
* Backend. The reader thread is scheduled, `WF(ReaderRuns)`: its `poll()` is woken by data, by
  `quit` and by the end of COALESCE_MS. A block that could wait for more bytes again and again
  becomes due when that time is over: `SF(ReaderPublish)`. An operation the caller is in goes on:
  each of its waits has a timeout. The caller keeps reading, as the loops of the session and of
  the link do: `SF(ReadBegin)`.
* Loss reports. Cleanup and housekeeping share the loop by the tick: `WF(Snap)`,
  `WF(KeepingNext)`. Hardware grants a waiting task: `WF(Grant)`. The host reads while IRQ is low
  and not every transaction fails: `SF(ReadReport)`. `LossIsTold` has two exceptions: a capture
  that stops, and a report clocked out whole that the host then refused: the device takes it for
  sent, and only a later loss makes up for it. If none comes, the host never learns of it.
* Link. `link_main()`'s `poll()` comes back for each of its sockets: weak fairness of reading,
  accepting and writing. The client in a request goes on with what it receives. Nothing makes a
  timeout come, so `RequestReturns` does not lean on one.
* Device control. The device's loop goes round: `WF(Boot)`, `WF(ServiceEnd)`, and
  `SF(ServiceBegin)`, because transactions set and clear its event. The host's operation goes on,
  and a transaction that finds the slave free again and again takes place: `SF(Transaction)`.
* Viewer. The thread is scheduled, `WF(Thread)`, and `session_free()` joins it, `WF(Free)`.

### 2.11 Seen while modelling

TLC finds four disagreements violated, the first in a run, the others with the three configurations
above:

* `remote.c:371` (`late_reply`): a reply that comes after its request's timeout is taken for the
  answer to the next request of its type.
* `recorder.c:331` (`EndCountsAllDropped`): END's overflow count is the recorder's own;
  `host/docs/capture-file.md:194` says "DATA bytes dropped by the host, all data channels", and
  `capture_trailer()` had put in a count that has the backend's too. What END does count, the
  recorder's drops, is exact (`EndCountsOwn`, 3.1).
* `session.c:1037` (`EveryLossInPlace`): `store_losses()` gives the oldest `FED_MAX` losses of the late
  window, given before or not; with more in the window, the others are given after records that
  follow them, or never. `session.h:24-26` has each loss just before the first record after its start.
* `session.c:985` (`DecodedIsFed`): `group_start()` keeps `decoded`, so a group that starts again
  is published with the tick it had, though its decoders have been given nothing and its items are
  gone. `session.h:95` and `127` say how far it has decoded. `capture_begin()` starts its groups
  in the same way, so a new capture begins with the old one's tick.

These were met with TLC or while reading and are left as the code has them in the models:

* `recorder.c:231`: an overflow event for dropped control messages only takes the channel of the
  next data; `host/docs/capture-file.md:166` puts it on channel 0. Without memory for the event and
  with memory for the data nothing marks the gap.
* `index.c:133`: entries of two data channels may be out of file offset order
  (`host/docs/capture-file.md:276`), when a heartbeat spans chunks.
* `local.c:459`: the backend's overflow event overtakes the blocks queued before the gap.
* `device/src/capture.c:762`: a report's grid counts start over when the 32-bit tick wraps, while
  the host's do not.
* `link.c:866-910`: a loss report that comes between the reply to ATTACH and the start of the last
  data channel is in neither the loss base nor the client's stream (`host/docs/link-protocol.md`, ATTACH).
* `wire.c:443`: a resynchronisation takes grid steps below `RESYNC_STEP_MAX` only;
  `protocol/spec.tex:402-405` has the epoch's length exact unless 256 or more intervals pass.
* `codec.c:227`: a loss told before the records it overlaps does not mark items made of them later
  (`host/docs/decode-output.md:131`).
* `uart.c:298`: whether two bytes are one burst may depend on the ticks advanced to between them.
  Frames still waiting for their end are not marked by a loss (`uart.c:321`).
* `chip.c:174`: a chip's read that was decoded before the loss report came, but after the loss
  itself, is not flagged as of an unknown register (`host/docs/decode-output.md:213`); the INA219's
  calibration is kept over a loss.
* `store.c:401`: a column that starts at `oldest` is not marked as partly held, but the last record
  of the block dropped was at that very tick, and is not among the column's changes.
* `link.c:749`: when `capture_begin()` fails the device captures and the link does not say so;
  `session.c` does the same when its own `capture_begin()` fails after `capture_start()`.
* An overflow event of the backend that the link's queue drops is counted as a control message, and
  its gap is not marked for the client (`BackendDrops` is FALSE in the runs for that reason).

## 3. Proofs

Everything below is checked by TLAPS to the last leaf, for every value of the constants. `Totals`
defines the one sum the models need without recursion, `TotalsProofs` has the facts about it
(`TotalZero`, `TotalNext`, `TotalFirst`, `TotalGrows`). Induction comes from `InductiveSet`: a set
of numbers that has 0 and with each number the next is all of them, because what it lacks would
have a least element (`LeastNatural`).

### 3.1 Recorder

From `RecorderAssumption` and `KAssumption` (the constants' types), for any number of data
channels, queue limit, batch size and length of run:

| Theorem | Module | States |
|---|---|---|
| `TypeCorrect` | `RecorderProofs` | `Spec => []TypeOK`: types, and file, batch, list and queue are consecutive intervals of `log` |
| `TornStaysLast` | `RecorderProofs` | `Spec => TornIsLast`: after a failed write neither file grows while power is on |
| `GapsMarked` | `RecorderProofs` | `Spec => []FileMarksGaps`, if `AllocMayFail = FALSE` |
| `IndexPointsRight` | `RecorderProofs` | `Spec => []IndexPoints` |
| `IndexStaysWithinFile` | `RecorderProofs` | `Spec => []IndexWithinFile` |
| `QueueSizeStaysExact` | `RecorderProofs` | `Spec => []QueueSizeExact`: `queued` is the size of what is queued or still held |
| `EndCountsOwn` | `RecorderProofs` | `Spec => []EndCountsOwnDrops`: END's overflow count is what the recorder itself dropped |
| `ClosedStaysDurable` | `RecorderProofs` | `Spec => []ClosedIsDurable` |
| `RecorderImplements` | `RecorderProofs` | `Spec => ImplementsAnnouncedStream`, if `AllocMayFail = FALSE` |

`GapsMarked` and `RecorderImplements` need their assumption: with memory for the data and none for
the overflow event, the code queues bytes after an unmarked gap (2.11). The argument:

1. `TypeOK` is not inductive: it needs that `dropped` never exceeds what was handed over
   (`DroppedBound`, or an overflow event would start before the stream) and where the writer
   stands between its own steps (`PipelineInv`: between a write and the next take, `fileLen`
   equals `offset` unless the pass failed, a torn file implies that the error is or will be
   published, and so on). `TypeInv` is their conjunction.
2. `FileMarksGaps` speaks of the file only. What is kept by every step is the same of the whole
   log, with the part not announced yet: for every data channel the pieces told so far cover
   exactly the bytes below `stream - dropped`, in order (`ToldUpTo`, `StreamTold`). An overflow
   event covers the bytes up to `stream`, the data after it goes on from there. The file is a
   prefix of the log, so the claim follows for it, wherever it is cut.
3. `IndexPoints` needs what a span of a lane means (`SpansRight`: it is a DATA chunk's interval
   of the log, at that chunk's position), that entries made and entries filed are right
   (`MadeRight`, `FiledRight`), and that entries are only filed after their chunks are
   (`PipelineInv` again), which gives `IndexWithinFile`.
4. `QueueSizeExact` and `EndCountsOwnDrops` are sums over the log (`CountsKept`). `QueueInv`: `queued` is the size of the whole log less
   that of what was taken, plus what is `held`; `DropInv`: `overflowBytes` is what was handed over
   less the data in the log, and END has that count because nothing is accepted or dropped after
   it. Every call of the caller pushes none, one or two items (`CallEffect`), so one lemma per
   number of items does for all of them.
5. `ClosedIsDurable` needs `CloseInv`: after END nothing is accepted, so the list taken in the pass
   that saw `closing` is the last, and what that pass wrote and synced without an error (`Flushed`)
   is everything there is.
6. The refinement maps the pieces told so far to the items of the log that tell of a channel
   (`Pieces`). They are a set, each piece begins where those before it end; `StreamTold` gives that
   a new item begins there too, so every accepted call is `Deliver` or `Announce`, every refused one
   `Drop`, and each step of the writer, of storage and of power changes nothing of it.

Only model-checked: `WriterFinishes` (liveness).

### 3.2 LocalBackend

From `BackendAssumption` (the constants' types), for any queue limit, block size and number of
bytes, messages and resets:

| Theorem | States |
|---|---|
| `TypeCorrect` | `Spec => []TypeOK` |
| `NoLostWake` | `Spec => []NotAsleep`: no sleep over data without a wake-up on its way |
| `NothingStaleGivenOut` | `Spec => []NothingStale`: nothing of before a reset after it |
| `GivenOnceInOrder` | `Spec => []OnceInOrder`: given out once and in order, or announced; `queued` exact and bounded |

1. `TypeOK` needs that the reader has a block when it reads (`ReadHasBlock`).
2. `NotAsleep` speaks of the `poll()` only; what the steps keep (`AsleepInv`) speaks of the whole
   way from `next_item()`'s look at the queue to it: from the look on, whatever the reader queued
   or dropped it has written to the eventfd or is about to, and the eventfd is read before the
   next look, never after it.
3. `NothingStale` speaks of what was given out. `StaleInv` is the same of everything that can
   still be given out: the UART's input, the block in the caller's hands, the queue, and the
   reader's block if it is of the current epoch. Between the two steps of `flush_data()` only the
   UART is fresh; the step of the epoch makes every block of before one of another epoch
   (`StaleFlushed`), because no block's epoch is ahead.
4. `OnceInOrder` has three parts and `FlowInv` carries them together. The bytes given out, of the
   block taken, of the queue, of the reader's block and of the UART are sets of numbers in this
   order (`Line`); each step moves a piece of one set to its neighbour, and one lemma per kind of
   move says that the line stays one (`LineSent`, `LineRead`, `LineQueue`, `LineTake`, `LinePut`,
   `LineGive`, `LineLess`). The same moves keep the sum (`Accounted`). The queue may pass its limit
   only by the block put back, because while one is taken its place is kept:
   `queued + BlockLen(got) <= QueueMax + BlockSize`. That `next_item()` holds something only while
   `local_read()` tells of it (`OnlyTelling`) makes a flush, which looks at neither, leave nothing
   behind; `EpochPast` makes the reader's block stale in the same step.

Only model-checked: `ReadIsTold`, `EndIsTold` (liveness).

### 3.3 LossReport

From `LossAssumption`, for any channels, words, steps and failures:

| Theorem | States |
|---|---|
| `DropsCounted` | `Spec => []CountersExact`: each drop is in a slice or a counter, once |
| `ReportedOnce` | `Spec => []NoReportTwice` |
| `LossIsMarked` | `Spec => []MarksExact`, if `TicksFit`: what the host counts and marks is what was dropped |

1. `CountersExact` is kept by a drop only if the slice does not run over. `SlicesHold` says why:
   a slice never exceeds the samples added since the flush, and these are below `FlushAt` in
   every state but the one before the flush.
2. `NoReportTwice` rests on where the two counts may be (`HostAhead`): the host's next number is
   at most the device's, or one ahead, and then the CPU owns the semaphore, the report was clocked
   out whole and housekeeping is still before `Amount`. For this, `SlaveHolds`: while the slave
   has the semaphore no transaction has ended since it got it; and `WaitingIsNext`: the report in
   the buffer has the device's number.
3. `MarksExact` follows a loss on its way: in cleanup, handed over, in the buffer, with the host.
   At each of these places the counters are a cut of every channel's drops, those up to the end
   they come with and no others (`Upto` in `Counted`), which gives the exact counts. That marked
   ranges reach back far enough is `StartsCover`: whatever a place's counters leave out lies at or
   after the start of what comes after it (`InLoss`, `InRest`), also when a refused report is
   skipped, because then the start the device keeps is the older one. Counters are copied a few at
   a time on both sides; `Handing` says that the flags `snapBusy` and `copyBusy` keep the copies
   apart, and what of a copy is already right. `EndsArePast` orders ticks: a drop to come is after
   every end there is.

`TicksFit` (`C >= 2`, every tick below the device's word) is what the statement needs: the word has
32 bits, and after its wrap the device's positions start over while the host's do not (2.11).

Only model-checked: `LossIsTold` (liveness).

### 3.4 DeviceControl

From `DeviceControlAssumption`, for any queue size and number of retries, and any number of starts
and faults, with the registers in the code's order:

| Theorem | States |
|---|---|
| `TypeCorrect` | `Spec => []TypeOK` |
| `RepliesAreOwn` | `Spec => ReplyIsOwn`: a reply taken for the answer to a write is that write's |
| `CaptureStaysAgreed` | `Spec => []CaptureAgreed`: both sides agree on what runs |

1. Replies name a register and no number, so a late one could answer a later write. `NumberedInv`
   says why it does not: every message anywhere, in the device's queue, in the slave's registers,
   on its way in, is of this start, the `n`th write of its register's place (`OwnMsg`); a
   register is written once per start, the reset before a start leaves nothing behind
   (`StartsOver`), and the host ends the start at the first write that fails (`HostStops`).
2. `CaptureAgreed` needs that an accepting reply tells the truth for as long as it is under way
   (`EffectInv`), so that the host's progress through the registers is the device's. Its other
   half, `StartInv`, has it that a device that captures while the host is idle owes it to a fault.

The proof goes by kinds of step (`Boots`, `Passes`, `Transacts`, `StartsOver`, `GivesUp`, `Quiet`);
each action is shown to be one of them once, and each invariant is proved over the kinds.

Only model-checked: `StartSucceeds` (liveness).

### 3.5 ViewSession

From `SessionAssumption`, for any commands, number of views and holds of the UI:

| Theorem | States |
|---|---|
| `TypeCorrect` | `Spec => [](TypeOK /\ groups \in Seq(Group))` |
| `ViewsAreHeld` | `Spec => []HoldsExact`: a view's count is its holds |
| `WorksOnCurrentView` | `Spec => []OnCurrentView`: nothing works on a view that may be freed |

`ViewInv` adds to both where the thread stands (`Opening`): before it opens or starts a capture it
has closed the one before, so that `swapped()` finds no batch and no group on the old view, and
from `capture_begin()` to the swap's end the info is already the new view's.

Only model-checked: `CommandsShown` (liveness, and what the status shows).

### 3.6 LinkSystem

From `SizesAssumption`, `LinkAssumption` and `RemoteAssumption` (the constants' types), for any
number of data channels, connections, timeouts and faults, any queue and socket size, clients that
crash, and (but for `StreamsAnnounced`) backends that drop:

| Theorem | States |
|---|---|
| `Types` | `Spec => []TypeInv`: types of every message under way and of all either side keeps |
| `RepliesAnswer` | `Spec => []ReplyAnswers`: what a request returns answers it, unless one before it on the connection was given up |
| `StopEnds` | `Spec => []StopStops`: when STOP is said to be done the device is quiet, if no source operation failed |
| `SetupsComplete` | `Spec => []SetupComplete`: what a session takes for its configuration is the device's |
| `StreamsAnnounced` | `BackendDrops = FALSE` proves `Spec => []StreamAnnounced`: a client's data streams miss nothing that no event at its place announces |
| `JoinsBegin` | `Spec => []JoinsAtHeartbeat`: a client that joins starts each data channel at a heartbeat of the grid count it was told, or a later one |

The link's handlers fold over channels and over messages (`enqueue()`, `forward()`, the tails it
replays). `FoldProofs` gives a fold as a chain of values, one per element, by induction over
the numbers of the chain; the type of each fold's result follows from its step (`FoldWithin`).

1. No handler's whole body is needed for what it means to the other side. Each is shown once to
   have an effect (`ItemsStep`, `ServeStep`, `QuitStep`, `WriteStep`, `DropStep`, `BusyStep` of
   the link, `RemoteDoes` of the client), and every invariant is proved over the effects: a
   served request is taken off its connection and brings one reply after the items before
   it; all else brings items.
2. `ConnInv` has where a connection's ends are: what the client has open the link has queued,
   serves, or has dropped; nothing is under way but between the client's socket and the link's
   client; and which request a session may wait for in which of its states.
3. `ReplyAnswers` needs `OneAnswer`: without a timeout on the connection, the request under way,
   its answer under way and the answer received are one thing, at most one of them exists, and it
   bears the number of the request waited for. A client greeted while the link still serves
   another has no answer on its way at all.
4. `StopStops` needs that an answer to STOP is truthful for as long as it is under way (`StopInv`):
   between the answer and its arrival nothing can switch the device on, because a STOP is the
   last request on its connection (`StopLast`).
5. `SetupComplete` follows the configuration from the client to the device and back (`SetupInv`):
   the link's log accepted is the device's (`Clean`), when it runs and while more is to
   come (`LogTrue`); what a session has is the device's before and after each CONFIG, also while
   its answer is under way (`AskTrue`), and what the answer to ATTACH tells it too (`JoinTrue`).
   A source operation that fails after the device did it breaks `Clean` until the next HELLO, and
   so does a timeout: the client then goes on with a HELLO or CONFIG while the link still has the
   one before. Hence the two exceptions in `SetupComplete`, of which TLC has found the second.

6. `StreamAnnounced` looks at the streams along what is on its way: `At` is where each of them is
   after the items taken and the items that come. `Settled` says that what a stream lacks there up
   to the device's place is what the link owes of it (`Owes`): the units dropped and not yet told.
   Each step of the link's folds keeps that account (`EnqueueOwes`, `ForwardedAccounts`): an item
   queued brings its units, one dropped adds them to what is owed, the event queued before the next
   item pays it, and a channel that starts, starts with nothing owed, from units that follow one
   another (`Tails`). The account is open from the link's answer to ATTACH or CONFIG on, while the
   client still waits for it (`Begun`); before, no item is on its way (`Idle`). The client's steps
   move items between the parts of one sequence and change neither (`TakenTells`, `ReceiveParts`).
   The two exceptions are needed: an event of the backend itself, dropped by the link's queue, is
   told to nobody (2.11); and after a request was given up, a HELLO answered late, at which
   the client empties its items, is followed by the items of a capture that a request after it has
   started.

7. `JoinsAtHeartbeat` speaks of the first item of each data channel that is still on its way.
   `OpenTrue` says it of a reading of all of them in order: from where the client is (`From`), each
   channel that begins on the way begins with an event, or with DATA whose first unit is a
   heartbeat of the told grid count at least, and a channel that has not begun at the end of what
   the link has queued is owed an event if anything of it was dropped. That holds of what
   the link replays or starts because a heartbeat found in a tail is marked in the unit it starts
   in, also when the device is in the middle of it (`Halves`). A session that has no capture has
   joined none (`JoinedTrue`). `JoinInv` is the three.

Only model-checked: `RequestReturns` (liveness).

### 3.7 What stays with TLC

* Every property with fairness: TLAPS here has neither `ENABLED` nor fairness rules.
* `WireChannel`, `CodecSession`, `StoreCapture`, `DecoderGroup`: the parser, the merge, the
  decoders and the store are recursive operators over bytes and records, and what a recursive
  definition computes for every input needs an induction over data for which no prover here takes
  the induction's formula as a parameter. `ReadRight`, `Resynced`, `WatermarkHolds`,
  `ReleasedInOrder`, `SaysRight`, `LateLossMarked`, `ReadsTrue`, `WithinLimit`, `GivenStays`,
  `FedRight` are model-checked.

## 4. Plan

Done: the recorder, the backend, the loss reports, the link with its client, the device's control
channel, the parser over a lossy way, the decoders over the merge, the viewer's store, its groups
and its commands, each with runs; proofs as in section 3.

Left, in this order:

1. `LocalBackend` as an `AnnouncedStream` but for the place of the event (`local.c:459`).
2. `ViewSession`: that what the status shows when it says "done" is what was done (`DoneIsShown`),
   as a theorem.
3. `LossReport`: `loss_tracker_base()`.
4. Seeking in files (`capture.c:579-611`): index and file after a power loss; uses `Recorder`'s
   storage states.

## 5. Not modelled

`PROJECT.json` lists every component with its status.

* Seeking in capture files (`capture.c:579-611`), `thcfile.c` and `info.c`: sequential reading of
  what a file system gives back, which unit tests reach.
* `output.c`: formatting of items. Chip definitions other than a register chip and a command chip
  differ in tables only.
* The simulated device (`dummy.c`), a test double; command line modes; drawing and bindings of the
  user interface.
* The cycle timing of the capture loop; the session's events ring and its cache of items
  (`items_trim()`); allocations that fail, other than in the recorder, the backend and the viewer's
  commands; `recorder_status()` and messages for the user.
* The infrared and keyboard firmwares, apart from the analyser; hardware (`parts/`, the boards).
