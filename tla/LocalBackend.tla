---------------------------- MODULE LocalBackend ----------------------------
(***************************************************************************)
(* The device backend, host/capture/local.c: the device on this board as a *)
(* source (capture/source.h).                                              *)
(*                                                                         *)
(* A reader thread takes the data UART's bytes and queues them in blocks.  *)
(* The caller's thread runs the operations: hello and stop reset the       *)
(* device and drop what was read before, config starts a capture, read     *)
(* gives out the next item, close ends the reader.  The two share the      *)
(* queue, the count of dropped bytes, the epoch and the read error under a *)
(* lock, and an eventfd that wakes the caller.                             *)
(*                                                                         *)
(* A byte is its number in the order the device sent them.                 *)
(***************************************************************************)
EXTENDS Integers, Sequences

CONSTANTS
    QueueMax,       \* QUEUE_MAX
    BlockSize,      \* BLOCK_SIZE
    MayFail,        \* whether the UART, malloc() and SPI transactions may fail
    MaxSent,        \* bound: bytes the device sends
    MaxReports,     \* bound: messages the device sends on its own
    MaxWrites,      \* bound: config calls
    MaxResets       \* bound: hello and stop calls

ASSUME BackendAssumption ==
    /\ QueueMax \in Nat
    /\ BlockSize \in Nat \ {0}
    /\ MayFail \in BOOLEAN
    /\ MaxSent \in Nat
    /\ MaxReports \in Nat
    /\ MaxWrites \in Nat
    /\ MaxResets \in Nat

VARIABLES
    \* the device and the lines to it
    devOn,          \* whether it captures
    sent,           \* bytes it has sent
    uart,           \* bytes in the UART's input
    outbox,         \* messages it holds for SPI, oldest first
    reports,        \* messages it has sent on its own
    \* shared under the lock
    queue,          \* blocks
    queued,         \* their size
    dropped,        \* bytes dropped and not announced
    epoch,
    readError,
    \* between the threads
    wake,           \* the eventfd is not 0
    quit,
    \* the reader
    rpc,
    block,          \* the block bytes gather in, <<>> or <<b>>
    \* the caller
    cpc,
    reg,            \* the register config() waits for, Other outside of it
    gotDropped,     \* what next_item() took from the shared state
    got,            \* <<>> or <<b>>
    gotError,
    pending,        \* messages kept for read
    capturing,
    silent,
    errorTold,
    resets,         \* calls of hello and stop
    writes,         \* calls of config
    \* history
    resetAt,        \* bytes sent before the last flush_data()
    readIn,         \* bytes read since into blocks of its epoch
    given           \* items given out since, but for events that carry no bytes

device == <<devOn, sent, uart, outbox, reports>>
shared == <<queue, queued, dropped, epoch, readError>>
reader == <<rpc, block, readIn>>
taken  == <<gotDropped, got, gotError>>
told   == <<pending, capturing, silent, errorTold>>
marks  == <<resets, writes, resetAt, given>>
caller == <<cpc, reg, taken, told, marks>>
vars   == <<device, shared, wake, quit, reader, caller>>

-----------------------------------------------------------------------------
(* Messages and items. *)

Other == 0
Capture == 1    \* REG_CAPTURE
Registers == {Other, Capture}

\* A reply has the register as its id, a message the device sends on its own its number.
Message(kind, id) == [kind |-> kind, id |-> id]
Messages == [kind : {"hello", "reply", "report"}, id : Nat]

Block(e, bytes) == [epoch |-> e, bytes |-> bytes]
Blocks == {b \in [epoch : Nat, bytes : Seq(Nat)] : Len(b.bytes) <= BlockSize}

Data(bytes)    == [kind |-> "data", bytes |-> bytes, n |-> 0]
Overflow(n)    == [kind |-> "overflow", bytes |-> <<>>, n |-> n]
Control(m)     == [kind |-> "control", bytes |-> <<>>,
                   n |-> IF m.kind = "report" THEN m.id ELSE 0]
ItemKinds      == {"data", "overflow", "control"}
Items          == [kind : ItemKinds, bytes : Seq(Nat), n : Nat]

BlockLen(bs) == IF bs = <<>> THEN 0 ELSE Len(bs[1].bytes)

-----------------------------------------------------------------------------
(* The device. *)

DeviceData ==
    /\ devOn
    /\ sent < MaxSent
    /\ uart' = Append(uart, sent)
    /\ sent' = sent + 1
    /\ UNCHANGED <<devOn, outbox, reports, shared, wake, quit, reader, caller>>

DeviceReport ==
    /\ devOn
    /\ reports < MaxReports
    /\ outbox' = Append(outbox, Message("report", reports + 1))
    /\ reports' = reports + 1
    /\ UNCHANGED <<devOn, sent, uart, shared, wake, quit, reader, caller>>

-----------------------------------------------------------------------------
(* The reader thread. *)

\* Whether a block's bytes may be from before the last flush.
Stale(b) == b.epoch # epoch

\* publish(), lock section.
QueueBlock(b) ==
    \/ /\ Stale(b)
       /\ UNCHANGED <<queue, queued, dropped>>
    \/ /\ ~Stale(b)
       /\ queued + Len(b.bytes) > QueueMax
       /\ dropped' = dropped + Len(b.bytes)
       /\ UNCHANGED <<queue, queued>>
    \/ /\ ~Stale(b)
       /\ queued + Len(b.bytes) <= QueueMax
       /\ queue' = Append(queue, b)
       /\ queued' = queued + Len(b.bytes)
       /\ UNCHANGED dropped

\* poll() says there are bytes and there is no block: one is made, with the epoch as it is now.
ReaderOpen ==
    /\ rpc = "poll"
    /\ ~quit
    /\ uart # <<>>
    /\ block = <<>>
    /\ block' = <<Block(epoch, <<>>)>>
    /\ rpc' = "read"
    /\ UNCHANGED <<device, shared, wake, quit, readIn, caller>>

\* poll() says there are bytes for the block.
ReaderMore ==
    /\ rpc = "poll"
    /\ ~quit
    /\ uart # <<>>
    /\ block # <<>>
    /\ rpc' = "read"
    /\ UNCHANGED <<device, shared, wake, quit, block, readIn, caller>>

Room(bs) == BlockSize - BlockLen(bs)

\* read(): what is there, up to the block's room; a flush may have come before it.
ReaderRead ==
    /\ rpc = "read"
    /\ \E n \in 0 .. Len(uart) :
          /\ n <= Room(block)
          /\ n = 0 => uart = <<>>
          /\ uart' = SubSeq(uart, n + 1, Len(uart))
          /\ block' = IF n = 0 /\ BlockLen(block) = 0
                      THEN <<>>
                      ELSE <<[block[1] EXCEPT !.bytes = @ \o SubSeq(uart, 1, n)]>>
          /\ readIn' = readIn + IF Stale(block[1]) THEN 0 ELSE n
    /\ rpc' = "check"
    /\ UNCHANGED <<devOn, sent, outbox, reports, shared, wake, quit, caller>>

BlockDueWhenFull == BlockLen(block) = BlockSize

\* A block is published when it is full, or COALESCE_MS after its first byte: at any time.
BlockDue == block # <<>>

ReaderPublish ==
    /\ rpc = "check"
    /\ BlockDue
    /\ QueueBlock(block[1])
    /\ block' = <<>>
    /\ rpc' = "wake"
    /\ UNCHANGED <<device, epoch, readError, wake, quit, readIn, caller>>

\* The block is not due yet.
ReaderGather ==
    /\ rpc = "check"
    /\ BlockLen(block) < BlockSize
    /\ rpc' = "poll"
    /\ UNCHANGED <<device, shared, wake, quit, block, readIn, caller>>

\* poll() timed out: the block is due.
ReaderTimeout ==
    /\ rpc = "poll"
    /\ ~quit
    /\ block # <<>>
    /\ rpc' = "check"
    /\ UNCHANGED <<device, shared, wake, quit, block, readIn, caller>>

ReaderWake ==
    /\ rpc = "wake"
    /\ wake' = TRUE
    /\ rpc' = "poll"
    /\ UNCHANGED <<device, shared, quit, block, readIn, caller>>

\* The UART fails, at the poll() or the read().
ReaderFails ==
    /\ MayFail
    /\ rpc = "read" \/ (rpc = "poll" /\ ~quit)
    /\ readError' = TRUE
    /\ rpc' = "last"
    /\ UNCHANGED <<device, queue, queued, dropped, epoch, wake, quit, block, readIn, caller>>

\* poll() itself fails, or the malloc() of a block: the reader ends, and leaves no error.
ReaderGivesUp ==
    /\ MayFail
    /\ rpc = "poll"
    /\ rpc' = "last"
    /\ UNCHANGED <<device, shared, wake, quit, block, readIn, caller>>

\* poll() says quit.
ReaderQuit ==
    /\ rpc = "poll"
    /\ quit
    /\ rpc' = "last"
    /\ UNCHANGED <<device, shared, wake, quit, block, readIn, caller>>

ReaderLastFreed ==
    /\ rpc = "last"
    /\ block' = <<>>
    /\ rpc' = "lastWake"
    /\ UNCHANGED <<device, shared, wake, quit, readIn, caller>>

\* The last block, if it has any bytes, ...
ReaderLast ==
    /\ rpc = "last"
    /\ \/ BlockLen(block) > 0 /\ QueueBlock(block[1])
       \/ BlockLen(block) = 0 /\ UNCHANGED <<queue, queued, dropped>>
    /\ block' = <<>>
    /\ rpc' = "lastWake"
    /\ UNCHANGED <<device, epoch, readError, wake, quit, readIn, caller>>

\* ... then the caller is woken, with the block or without.
ReaderLastWake ==
    /\ rpc = "lastWake"
    /\ wake' = TRUE
    /\ rpc' = "done"
    /\ UNCHANGED <<device, shared, quit, block, readIn, caller>>

-----------------------------------------------------------------------------
(* The caller: a reset. *)

Idle == cpc = "out"

\* hello() and stop(): kept messages are dropped, the device reset. It stops sending, and sends
\* a hello when it is up.
ResetBegin ==
    /\ Idle
    /\ resets < MaxResets
    /\ resets' = resets + 1
    /\ capturing' = FALSE
    /\ pending' = <<>>
    /\ devOn' = FALSE
    /\ outbox' = <<Message("hello", 0)>>
    /\ cpc' = "receiveHello"
    /\ UNCHANGED <<sent, uart, reports, shared, wake, quit, reader, reg, taken, silent, errorTold,
                   resetAt, writes, given>>

\* The reset itself failed: hello() and stop() go straight on to flush_data().
ResetFails ==
    /\ Idle
    /\ MayFail
    /\ resets < MaxResets
    /\ resets' = resets + 1
    /\ capturing' = FALSE
    /\ pending' = <<>>
    /\ cpc' = "flush"
    /\ UNCHANGED <<device, shared, wake, quit, reader, reg, taken, silent, errorTold, resetAt,
                   writes, given>>

\* receive() of the hello, which is what the device has for SPI; it may time out or fail.
ReceiveHello ==
    /\ cpc = "receiveHello"
    /\ \/ outbox' = <<>>
       \/ MayFail /\ UNCHANGED outbox
    /\ cpc' = "flush"
    /\ UNCHANGED <<devOn, sent, uart, reports, shared, wake, quit, reader, reg, taken, told,
                   marks>>

\* flush_data(): first the UART's input, ...
FlushUart ==
    /\ cpc = "flush"
    /\ uart' = <<>>
    /\ resetAt' = sent
    /\ cpc' = "flushQueue"
    /\ UNCHANGED <<devOn, sent, outbox, reports, shared, wake, quit, reader, reg, taken, told,
                   resets, writes, given>>

\* ... then the queue, and the epoch moves on.
FlushQueue ==
    /\ cpc = "flushQueue"
    /\ epoch' = epoch + 1
    /\ queue' = <<>>
    /\ queued' = 0
    /\ dropped' = 0
    /\ given' = <<>>
    /\ readIn' = 0
    /\ cpc' = "out"
    /\ UNCHANGED <<device, readError, wake, quit, rpc, block, reg, taken, told, resets, writes,
                   resetAt>>

-----------------------------------------------------------------------------
(* The caller: the capture register. *)

\* keep_pending().
KeepPending(m) == Append(pending, m)

RestOf(q) == IF q = <<>> THEN <<>> ELSE Tail(q)

IsReply(m, r) == m.kind = "reply" /\ m.id = r

\* An accepted write of the capture register starts the capture.
Answered(r) ==
    /\ capturing' = (capturing \/ r = Capture)
    /\ silent' = (silent /\ r # Capture)

\* config(), a write the device accepts: one transaction carries it to the device and the oldest
\* message the device had back. A reply about the same register is taken for this one's.
ConfigWrite(r) ==
    /\ Idle
    /\ resets > 0
    /\ r = Capture => ~devOn
    /\ writes < MaxWrites
    /\ writes' = writes + 1
    /\ devOn' = (devOn \/ r = Capture)
    /\ outbox' = Append(RestOf(outbox), Message("reply", r))
    /\ \/ /\ outbox = <<>>
          /\ reg' = r
          /\ cpc' = "receiveReply"
          /\ UNCHANGED <<pending, capturing, silent>>
       \/ /\ outbox # <<>>
          /\ ~IsReply(Head(outbox), r)
          /\ pending' = KeepPending(Head(outbox))
          /\ reg' = r
          /\ cpc' = "receiveReply"
          /\ UNCHANGED <<capturing, silent>>
       \/ /\ outbox # <<>>
          /\ IsReply(Head(outbox), r)
          /\ Answered(r)
          /\ cpc' = "out"
          /\ UNCHANGED <<reg, pending>>
    /\ UNCHANGED <<sent, uart, reports, shared, wake, quit, reader, taken, errorTold, resets,
                   resetAt, given>>

\* The transaction fails: whether the device took the write or gave a message is not known.
ConfigFails(r) ==
    /\ Idle
    /\ MayFail
    /\ resets > 0
    /\ r = Capture => ~devOn
    /\ writes < MaxWrites
    /\ writes' = writes + 1
    /\ \E rest \in {outbox, RestOf(outbox)} :
          \/ outbox' = rest /\ UNCHANGED devOn
          \/ outbox' = Append(rest, Message("reply", r)) /\ devOn' = (devOn \/ r = Capture)
    /\ UNCHANGED <<sent, uart, reports, shared, wake, quit, reader, cpc, reg, taken, told,
                   resets, resetAt, given>>

\* receive() of the reply.
ReceiveReply ==
    /\ cpc = "receiveReply"
    /\ outbox # <<>>
    /\ IsReply(Head(outbox), reg)
    /\ outbox' = Tail(outbox)
    /\ Answered(reg)
    /\ reg' = Other
    /\ cpc' = "out"
    /\ UNCHANGED <<devOn, sent, uart, reports, shared, wake, quit, reader, taken, pending,
                   errorTold, marks>>

\* Another message is kept for read, ...
ReceiveOther ==
    /\ cpc = "receiveReply"
    /\ outbox # <<>>
    /\ ~IsReply(Head(outbox), reg)
    /\ outbox' = Tail(outbox)
    /\ pending' = KeepPending(Head(outbox))
    /\ UNCHANGED <<devOn, sent, uart, reports, shared, wake, quit, reader, cpc, reg, taken,
                   capturing, silent, errorTold, marks>>

\* ... and the wait may time out, or a transaction fail: its message is gone.
ReceiveFails ==
    /\ cpc = "receiveReply"
    /\ MayFail
    /\ outbox' \in {outbox, RestOf(outbox)}
    /\ reg' = Other
    /\ cpc' = "out"
    /\ UNCHANGED <<devOn, sent, uart, reports, shared, wake, quit, reader, taken, told, marks>>

-----------------------------------------------------------------------------
(* The caller: local_read(). *)

Give(item) == given' = Append(given, item)

ReadBegin ==
    /\ Idle
    /\ cpc' = "look"
    /\ UNCHANGED <<device, shared, wake, quit, reader, reg, taken, told, marks>>

\* next_item(), lock section: the drop count, the read error and the oldest block.
Look ==
    /\ cpc = "look"
    /\ gotError' = readError
    /\ gotDropped' = dropped
    /\ dropped' = 0
    /\ IF queue = <<>>
       THEN got' = <<>> /\ UNCHANGED <<queue, queued>>
       ELSE /\ got' = <<Head(queue)>>
            /\ queue' = Tail(queue)
            /\ queued' = queued - Len(Head(queue).bytes)
    /\ cpc' = "tell"
    /\ UNCHANGED <<device, epoch, readError, wake, quit, reader, reg, told, marks>>

\* The block taken together with a drop count goes back to the queue's front.
PutBack ==
    /\ queue' = got \o queue
    /\ queued' = queued + BlockLen(got)

\* Dropped bytes come first; the block, if any, on the next read.
TellOverflow ==
    /\ cpc = "tell"
    /\ gotDropped > 0
    /\ Give(Overflow(gotDropped))
    /\ PutBack
    /\ gotDropped' = 0
    /\ got' = <<>>
    /\ cpc' = "out"
    /\ UNCHANGED <<device, dropped, epoch, readError, wake, quit, reader, reg, gotError, told,
                   resets, writes, resetAt>>

TellData ==
    /\ cpc = "tell"
    /\ gotDropped = 0
    /\ got # <<>>
    /\ Give(Data(got[1].bytes))
    /\ got' = <<>>
    /\ silent' = FALSE
    /\ cpc' = "out"
    /\ UNCHANGED <<device, shared, wake, quit, reader, reg, gotDropped, gotError, pending,
                   capturing, errorTold, resets, writes, resetAt>>

NothingTaken == cpc = "tell" /\ gotDropped = 0 /\ got = <<>>

TellErrorWhenCapturing ==
    /\ NothingTaken
    /\ gotError
    /\ capturing
    /\ errorTold' = TRUE
    /\ cpc' = "out"
    /\ UNCHANGED <<device, shared, wake, quit, reader, reg, taken, pending, capturing, silent,
                   marks>>

\* The read error: as an event, then as the error local_read() returns.
TellError ==
    /\ NothingTaken
    /\ gotError
    /\ errorTold' = TRUE
    /\ cpc' = "out"
    /\ UNCHANGED <<device, shared, wake, quit, reader, reg, taken, pending, capturing, silent,
                   marks>>

\* The oldest message kept; without memory for it local_read() fails.
TellPending ==
    /\ NothingTaken
    /\ ~gotError
    /\ pending # <<>>
    /\ \/ Give(Control(Head(pending))) /\ pending' = Tail(pending)
       \/ MayFail /\ UNCHANGED <<given, pending>>
    /\ cpc' = "out"
    /\ UNCHANGED <<device, shared, wake, quit, reader, reg, taken, capturing, silent, errorTold,
                   resets, writes, resetAt>>

\* A message IRQ announces is kept, and next_item() starts over. A transaction that fails its
\* check is told and its message gone; so is one there is no memory for, and local_read() fails.
TakeMessage ==
    /\ NothingTaken
    /\ ~gotError
    /\ pending = <<>>
    /\ outbox # <<>>
    /\ outbox' = Tail(outbox)
    /\ \/ /\ pending' = KeepPending(Head(outbox))
          /\ cpc' = "look"
       \/ /\ MayFail
          /\ cpc' = "out"
          /\ UNCHANGED pending
    /\ UNCHANGED <<devOn, sent, uart, reports, shared, wake, quit, reader, reg, taken, capturing,
                   silent, errorTold, marks>>

NothingToTell == NothingTaken /\ ~gotError /\ pending = <<>> /\ outbox = <<>>

\* DATA_SILENT_MS have gone by without data.
TellSilent ==
    /\ NothingToTell
    /\ capturing
    /\ ~silent
    /\ silent' = TRUE
    /\ cpc' = "out"
    /\ UNCHANGED <<device, shared, wake, quit, reader, reg, taken, pending, capturing, errorTold,
                   marks>>

SleepDrained ==
    /\ NothingToTell
    /\ wake' = FALSE
    /\ cpc' = "poll"
    /\ UNCHANGED <<device, shared, quit, reader, reg, taken, told, marks>>

\* Nothing is due: poll().
Sleep ==
    /\ NothingToTell
    /\ cpc' = "poll"
    /\ UNCHANGED <<device, shared, wake, quit, reader, reg, taken, told, marks>>

\* poll() returns: the reader woke the caller, a message came, or the wait is over. Or it fails.
Woken ==
    /\ cpc = "poll"
    /\ \/ wake' = FALSE /\ cpc' = "look"
       \/ MayFail /\ cpc' = "out" /\ UNCHANGED wake
    /\ UNCHANGED <<device, shared, quit, reader, reg, taken, told, marks>>

\* The time is over: local_read() gives no item.
ReadTimesOut ==
    /\ NothingToTell
    /\ cpc' = "out"
    /\ UNCHANGED <<device, shared, wake, quit, reader, reg, taken, told, marks>>

-----------------------------------------------------------------------------
(* The caller: local_close(). *)

CloseBegin ==
    /\ Idle
    /\ quit' = TRUE
    /\ cpc' = "joining"
    /\ UNCHANGED <<device, shared, wake, reader, reg, taken, told, marks>>

CloseJoin ==
    /\ cpc = "joining"
    /\ rpc = "done"
    /\ uart' = <<>>
    /\ epoch' = epoch + 1
    /\ queue' = <<>>
    /\ queued' = 0
    /\ dropped' = 0
    /\ pending' = <<>>
    /\ given' = <<>>
    /\ readIn' = 0
    /\ cpc' = "closed"
    /\ UNCHANGED <<devOn, sent, outbox, reports, readError, wake, quit, rpc, block, reg, taken,
                   capturing, silent, errorTold, resets, writes, resetAt>>

Closed ==
    /\ cpc = "closed"
    /\ UNCHANGED vars

-----------------------------------------------------------------------------
Init ==
    /\ devOn = FALSE
    /\ sent = 0
    /\ uart = <<>>
    /\ outbox = <<>>
    /\ reports = 0
    /\ queue = <<>>
    /\ queued = 0
    /\ dropped = 0
    /\ epoch = 0
    /\ readError = FALSE
    /\ wake = FALSE
    /\ quit = FALSE
    /\ rpc = "poll"
    /\ block = <<>>
    /\ cpc = "out"
    /\ reg = Other
    /\ gotDropped = 0
    /\ got = <<>>
    /\ gotError = FALSE
    /\ pending = <<>>
    /\ capturing = FALSE
    /\ silent = FALSE
    /\ errorTold = FALSE
    /\ resets = 0
    /\ writes = 0
    /\ resetAt = 0
    /\ readIn = 0
    /\ given = <<>>

DeviceNext == DeviceData \/ DeviceReport

ReaderRuns ==
    \/ ReaderOpen
    \/ ReaderMore
    \/ ReaderRead
    \/ ReaderPublish
    \/ ReaderGather
    \/ ReaderTimeout
    \/ ReaderWake
    \/ ReaderQuit
    \/ ReaderLast
    \/ ReaderLastWake

ReaderNext == ReaderRuns \/ ReaderFails \/ ReaderGivesUp

ResetNext ==
    \/ ResetBegin
    \/ ResetFails
    \/ ReceiveHello
    \/ FlushUart
    \/ FlushQueue

ConfigNext ==
    \/ \E r \in Registers : ConfigWrite(r) \/ ConfigFails(r)
    \/ ReceiveReply
    \/ ReceiveOther
    \/ ReceiveFails

ReadNext ==
    \/ ReadBegin
    \/ Look
    \/ TellOverflow
    \/ TellData
    \/ TellError
    \/ TellPending
    \/ TakeMessage
    \/ TellSilent
    \/ Sleep
    \/ Woken
    \/ ReadTimesOut

CloseNext == CloseBegin \/ CloseJoin \/ Closed

Next == DeviceNext \/ ReaderNext \/ ResetNext \/ ConfigNext \/ ReadNext \/ CloseNext

Spec == Init /\ [][Next]_vars

-----------------------------------------------------------------------------
(* Properties. *)

ReaderPcs == {"poll", "read", "check", "wake", "last", "lastWake", "done"}
CallerPcs == {"out", "receiveHello", "flush", "flushQueue", "receiveReply", "look", "tell", "poll",
              "joining", "closed"}

FlagsType ==
    /\ devOn \in BOOLEAN
    /\ readError \in BOOLEAN
    /\ wake \in BOOLEAN
    /\ quit \in BOOLEAN
    /\ gotError \in BOOLEAN
    /\ capturing \in BOOLEAN
    /\ silent \in BOOLEAN
    /\ errorTold \in BOOLEAN

CountsType ==
    /\ sent \in Nat
    /\ reports \in Nat
    /\ queued \in Int
    /\ dropped \in Nat
    /\ epoch \in Nat
    /\ gotDropped \in Nat
    /\ resets \in Nat
    /\ writes \in Nat
    /\ resetAt \in 0 .. sent
    /\ readIn \in Nat

SeqsType ==
    /\ uart \in Seq(Nat)
    /\ outbox \in Seq(Messages)
    /\ queue \in Seq(Blocks)
    /\ block \in Seq(Blocks) /\ Len(block) <= 1
    /\ got \in Seq(Blocks) /\ Len(got) <= 1
    /\ pending \in Seq(Messages)
    /\ given \in Seq(Items)

\* Every variable has its type, and a block has no more bytes than it has room for.
TypeOK ==
    /\ FlagsType
    /\ CountsType
    /\ SeqsType
    /\ rpc \in ReaderPcs
    /\ cpc \in CallerPcs
    /\ reg \in Registers

Fresh(bytes) == \A j \in 1 .. Len(bytes) : resetAt <= bytes[j]

\* "Drops the data read so far, after a reset" (flush_data()): once hello() or stop() has
\* returned, no byte that was in the UART or anywhere behind it before is given out.
NothingStale ==
    cpc # "flushQueue" => \A i \in 1 .. Len(given) : Fresh(given[i].bytes)

\* The caller never sleeps with data to give out, unless the reader is about to wake it: between
\* its look at the queue and the poll() no wake-up is lost.
NotAsleep ==
    cpc = "poll" /\ ~wake /\ rpc \notin {"wake", "lastWake"} => queue = <<>> /\ dropped = 0
=============================================================================
