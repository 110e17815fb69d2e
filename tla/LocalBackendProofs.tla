------------------------- MODULE LocalBackendProofs -------------------------
(***************************************************************************)
(* Proofs about LocalBackend: type correctness, that nothing from before a *)
(* reset is given out after it (NothingStale), that the caller does not    *)
(* sleep over data (NotAsleep), and that what the reader takes from the    *)
(* UART is given out once and in order, or announced (OnceInOrder).        *)
(***************************************************************************)
EXTENDS MCLocalBackend, TotalsProofs

-----------------------------------------------------------------------------
(* Type correctness. *)

\* The reader has a block when it reads.
ReadHasBlock == rpc = "read" => block # <<>>

TypeInv == TypeOK /\ ReadHasBlock

LEMMA FlagsStep == FlagsType /\ Next => FlagsType'
<1> SUFFICES ASSUME FlagsType, Next PROVE FlagsType'
  OBVIOUS
<1>. USE DEF FlagsType, device, shared, reader, taken, told, marks, caller, vars
<1>1. CASE DeviceNext
  BY <1>1, Zenon DEF DeviceNext, DeviceData, DeviceReport
<1>2. CASE ReaderNext
  <2>1. CASE ReaderOpen \/ ReaderMore \/ ReaderRead
    BY <2>1, Zenon DEF ReaderOpen, ReaderMore, ReaderRead
  <2>2. CASE ReaderPublish \/ ReaderGather \/ ReaderTimeout
    BY <2>2, Zenon DEF ReaderPublish, ReaderGather, ReaderTimeout
  <2>3. CASE ReaderWake \/ ReaderQuit \/ ReaderLast \/ ReaderLastWake
    BY <2>3, Zenon DEF ReaderWake, ReaderQuit, ReaderLast, ReaderLastWake
  <2>4. CASE ReaderFails \/ ReaderGivesUp
    BY <2>4, Zenon DEF ReaderFails, ReaderGivesUp
  <2>. QED
    BY <1>2, <2>1, <2>2, <2>3, <2>4, Zenon DEF ReaderNext, ReaderRuns
<1>3. CASE ResetNext
  BY <1>3, Zenon DEF ResetNext, ResetBegin, ResetFails, ReceiveHello, FlushUart, FlushQueue
<1>4. CASE ConfigNext
  <2>1. ASSUME NEW r \in Registers, ConfigWrite(r) PROVE FlagsType'
    <3>1. devOn' \in BOOLEAN
      BY <2>1, Zenon DEF ConfigWrite
    <3>2. capturing' \in BOOLEAN /\ silent' \in BOOLEAN
      BY <2>1, Zenon DEF ConfigWrite, Answered
    <3>3. UNCHANGED <<readError, wake, quit, gotError, errorTold>>
      BY <2>1, Zenon DEF ConfigWrite
    <3>. QED
      BY <3>1, <3>2, <3>3, Zenon
  <2>2. ASSUME NEW r \in Registers, ConfigFails(r) PROVE FlagsType'
    <3>1. devOn' \in BOOLEAN
      BY <2>2, Zenon DEF ConfigFails
    <3>2. UNCHANGED <<capturing, silent, readError, wake, quit, gotError, errorTold>>
      BY <2>2, Zenon DEF ConfigFails
    <3>. QED
      BY <3>1, <3>2, Zenon
  <2>3. CASE ReceiveReply \/ ReceiveOther \/ ReceiveFails
    BY <2>3, Zenon DEF ReceiveReply, Answered, ReceiveOther, ReceiveFails
  <2>. QED
    BY <1>4, <2>1, <2>2, <2>3, Zenon DEF ConfigNext
<1>5. CASE ReadNext
  <2>1. CASE ReadBegin \/ Look \/ TellOverflow \/ TellData
    BY <2>1, Zenon DEF ReadBegin, Look, TellOverflow, TellData
  <2>2. CASE TellError \/ TellPending \/ TakeMessage \/ TellSilent
    BY <2>2, Zenon DEF TellError, TellPending, TakeMessage, TellSilent
  <2>3. CASE Sleep \/ Woken \/ ReadTimesOut
    BY <2>3, Zenon DEF Sleep, Woken, ReadTimesOut
  <2>. QED
    BY <1>5, <2>1, <2>2, <2>3, Zenon DEF ReadNext
<1>6. CASE CloseNext
  BY <1>6, Zenon DEF CloseNext, CloseBegin, CloseJoin, Closed
<1>. QED
  BY <1>1, <1>2, <1>3, <1>4, <1>5, <1>6 DEF Next

LEMMA PcsStep ==
    ASSUME rpc \in ReaderPcs, cpc \in CallerPcs, reg \in Registers, Next
    PROVE  rpc' \in ReaderPcs /\ cpc' \in CallerPcs /\ reg' \in Registers
<1>. USE DEF ReaderPcs, CallerPcs, Registers, device, shared, reader, taken, told, marks, caller,
             vars
<1>1. CASE DeviceNext
  BY <1>1 DEF DeviceNext, DeviceData, DeviceReport
<1>2. CASE ReaderNext
  BY <1>2 DEF ReaderNext, ReaderRuns, ReaderOpen, ReaderMore, ReaderRead, ReaderPublish,
     ReaderGather, ReaderTimeout, ReaderWake, ReaderQuit, ReaderLast, ReaderLastWake, ReaderFails,
     ReaderGivesUp
<1>3. CASE ResetNext
  BY <1>3 DEF ResetNext, ResetBegin, ResetFails, ReceiveHello, FlushUart, FlushQueue
<1>4. CASE ConfigNext
  BY <1>4 DEF ConfigNext, ConfigWrite, Answered, ConfigFails, ReceiveReply,
     ReceiveOther, ReceiveFails
<1>5. CASE ReadNext
  BY <1>5 DEF ReadNext, ReadBegin, Look, TellOverflow, TellData, TellError, TellPending,
     TakeMessage, TellSilent, Sleep, Woken, ReadTimesOut
<1>6. CASE CloseNext
  BY <1>6 DEF CloseNext, CloseBegin, CloseJoin, Closed
<1>. QED
  BY <1>1, <1>2, <1>3, <1>4, <1>5, <1>6 DEF Next

LEMMA ReadHasBlockStep == ReadHasBlock /\ Next => ReadHasBlock'
<1> SUFFICES ASSUME ReadHasBlock, Next PROVE ReadHasBlock'
  OBVIOUS
<1>. USE DEF ReadHasBlock, device, shared, reader, taken, told, marks, caller, vars
<1>1. CASE DeviceNext
  BY <1>1 DEF DeviceNext, DeviceData, DeviceReport
<1>2. CASE ReaderNext
  BY <1>2 DEF ReaderNext, ReaderRuns, ReaderOpen, ReaderMore, ReaderRead, ReaderPublish,
     ReaderGather, ReaderTimeout, ReaderWake, ReaderQuit, ReaderLast, ReaderLastWake, ReaderFails,
     ReaderGivesUp
<1>3. CASE ResetNext
  BY <1>3 DEF ResetNext, ResetBegin, ResetFails, ReceiveHello, FlushUart, FlushQueue
<1>4. CASE ConfigNext
  BY <1>4 DEF ConfigNext, ConfigWrite, Answered, ConfigFails, ReceiveReply,
     ReceiveOther, ReceiveFails
<1>5. CASE ReadNext
  BY <1>5 DEF ReadNext, ReadBegin, Look, TellOverflow, TellData, TellError, TellPending,
     TakeMessage, TellSilent, Sleep, Woken, ReadTimesOut
<1>6. CASE CloseNext
  BY <1>6 DEF CloseNext, CloseBegin, CloseJoin, Closed
<1>. QED
  BY <1>1, <1>2, <1>3, <1>4, <1>5, <1>6 DEF Next

\* A block taken out of a sequence of at most one is a block, and so is its length a number.
LEMMA OneBlock ==
    ASSUME NEW bs \in Seq(Blocks), Len(bs) <= 1
    PROVE  /\ BlockLen(bs) \in 0 .. BlockSize
           /\ bs # <<>> => /\ bs[1] \in Blocks
                           /\ Len(bs) = 1
                           /\ BlockLen(bs) = Len(bs[1].bytes)
                           /\ bs[1].bytes \in Seq(Nat)
<1>1. CASE bs = <<>>
  BY <1>1, BackendAssumption DEF BlockLen
<1>2. CASE bs # <<>>
  <2>1. Len(bs) = 1 /\ bs[1] \in Blocks
    BY <1>2
  <2>. QED
    BY <1>2, <2>1 DEF BlockLen, Blocks
<1>. QED
  BY <1>1, <1>2

\* publish() leaves a queue of blocks and counts of bytes.
LEMMA QueueBlockType ==
    ASSUME NEW b \in Blocks, queue \in Seq(Blocks), queued \in Int, dropped \in Nat, QueueBlock(b)
    PROVE  queue' \in Seq(Blocks) /\ queued' \in Int /\ dropped' \in Nat
<1>1. Len(b.bytes) \in Nat
  BY DEF Blocks
<1>. QED
  BY <1>1 DEF QueueBlock

LEMMA SharedStep ==
    ASSUME CountsType, SeqsType, Next
    PROVE  queue' \in Seq(Blocks) /\ queued' \in Int /\ dropped' \in Nat
<1>0. <<>> \in Seq(Blocks)
  OBVIOUS
<1>. USE DEF CountsType, SeqsType, device, shared, reader, taken, told, marks, caller, vars
<1>1. CASE DeviceNext
  BY <1>1 DEF DeviceNext, DeviceData, DeviceReport
<1>2. CASE ReaderNext
  <2>1. CASE ReaderPublish
    BY <2>1, OneBlock, QueueBlockType DEF ReaderPublish, BlockDue
  <2>2. CASE ReaderLast
    <3>1. BlockLen(block) > 0 => block # <<>>
      BY DEF BlockLen
    <3>. QED
      BY <2>2, <3>1, OneBlock, QueueBlockType DEF ReaderLast
  <2>3. ASSUME ~ReaderPublish, ~ReaderLast
        PROVE  UNCHANGED <<queue, queued, dropped>>
    BY <1>2, <2>3 DEF ReaderNext, ReaderRuns, ReaderOpen, ReaderMore, ReaderRead, ReaderGather,
       ReaderTimeout, ReaderWake, ReaderQuit, ReaderLastWake, ReaderFails, ReaderGivesUp
  <2>. QED
    BY <2>1, <2>2, <2>3
<1>3. CASE ResetNext
  <2>1. CASE FlushQueue
    BY <1>0, <2>1 DEF FlushQueue
  <2>2. ASSUME ~FlushQueue
        PROVE  UNCHANGED <<queue, queued, dropped>>
    BY <1>3, <2>2 DEF ResetNext, ResetBegin, ResetFails, ReceiveHello, FlushUart
  <2>. QED
    BY <2>1, <2>2
<1>4. CASE ConfigNext
  BY <1>4 DEF ConfigNext, ConfigWrite, Answered, ConfigFails, ReceiveReply,
     ReceiveOther, ReceiveFails
<1>5. CASE ReadNext
  <2>1. CASE Look
    <3>1. CASE queue = <<>>
      BY <2>1, <3>1 DEF Look
    <3>2. CASE queue # <<>>
      <4>1. Head(queue) \in Blocks /\ Tail(queue) \in Seq(Blocks)
        BY <3>2
      <4>2. Len(Head(queue).bytes) \in Nat
        BY <4>1 DEF Blocks
      <4>3. queue' = Tail(queue) /\ queued' = queued - Len(Head(queue).bytes) /\ dropped' = 0
        BY <2>1, <3>2 DEF Look
      <4>. QED
        BY <4>1, <4>2, <4>3
    <3>. QED
      BY <3>1, <3>2
  <2>2. CASE TellOverflow
    BY <2>2, OneBlock DEF TellOverflow, PutBack
  <2>3. ASSUME ~Look, ~TellOverflow
        PROVE  UNCHANGED <<queue, queued, dropped>>
    BY <1>5, <2>3 DEF ReadNext, ReadBegin, TellData, TellError, TellPending, TakeMessage,
       TellSilent, Sleep, Woken, ReadTimesOut
  <2>. QED
    BY <2>1, <2>2, <2>3
<1>6. CASE CloseNext
  <2>1. CASE CloseJoin
    BY <1>0, <2>1 DEF CloseJoin
  <2>2. ASSUME ~CloseJoin
        PROVE  UNCHANGED <<queue, queued, dropped>>
    BY <1>6, <2>2 DEF CloseNext, CloseBegin, Closed
  <2>. QED
    BY <2>1, <2>2
<1>. QED
  BY <1>1, <1>2, <1>3, <1>4, <1>5, <1>6 DEF Next

LEMMA CountsStep ==
    ASSUME CountsType, SeqsType, Next
    PROVE  CountsType'
<1>1. queued' \in Int /\ dropped' \in Nat
  BY SharedStep
<1>. USE DEF CountsType, device, shared, reader, taken, told, marks, caller, vars
<1>2. CASE DeviceNext
  <2>1. CASE DeviceData
    <3>1. /\ sent' = sent + 1
          /\ UNCHANGED <<reports, epoch, gotDropped, resets, writes, resetAt, readIn>>
      BY <2>1 DEF DeviceData
    <3>. QED
      BY <1>1, <3>1
  <2>2. CASE DeviceReport
    <3>1. /\ reports' = reports + 1
          /\ UNCHANGED <<sent, epoch, gotDropped, resets, writes, resetAt, readIn>>
      BY <2>2 DEF DeviceReport
    <3>. QED
      BY <1>1, <3>1
  <2>. QED
    BY <1>2, <2>1, <2>2 DEF DeviceNext
<1>3. CASE ReaderNext
  <2>1. UNCHANGED <<sent, reports, epoch, gotDropped, resets, writes, resetAt>>
    BY <1>3 DEF ReaderNext, ReaderRuns, ReaderOpen, ReaderMore, ReaderRead, ReaderPublish,
       ReaderGather, ReaderTimeout, ReaderWake, ReaderQuit, ReaderLast, ReaderLastWake,
       ReaderFails, ReaderGivesUp
  <2>2. CASE ReaderRead
    <3>1. PICK n \in 0 .. Len(uart) : readIn' = readIn + IF Stale(block[1]) THEN 0 ELSE n
      BY <2>2 DEF ReaderRead
    <3>2. Len(uart) \in Nat
      BY DEF SeqsType
    <3>3. readIn' \in Nat
      BY <3>1, <3>2
    <3>. QED
      BY <1>1, <2>1, <3>3
  <2>3. ASSUME ~ReaderRead
        PROVE  UNCHANGED readIn
    BY <1>3, <2>3 DEF ReaderNext, ReaderRuns, ReaderOpen, ReaderMore, ReaderPublish,
       ReaderGather, ReaderTimeout, ReaderWake, ReaderQuit, ReaderLast, ReaderLastWake,
       ReaderFails, ReaderGivesUp
  <2>. QED
    BY <1>1, <2>1, <2>2, <2>3
<1>4. CASE ResetNext
  BY <1>1, <1>4 DEF ResetNext, ResetBegin, ResetFails, ReceiveHello, FlushUart, FlushQueue
<1>5. CASE ConfigNext
  <2>1. UNCHANGED <<sent, reports, epoch, gotDropped, resets, resetAt, readIn>>
    BY <1>5 DEF ConfigNext, ConfigWrite, Answered, ConfigFails, ReceiveReply,
       ReceiveOther, ReceiveFails
  <2>2. writes' \in {writes, writes + 1}
    BY <1>5 DEF ConfigNext, ConfigWrite, Answered, ConfigFails, ReceiveReply,
       ReceiveOther, ReceiveFails
  <2>. QED
    BY <1>1, <2>1, <2>2
<1>6. CASE ReadNext
  BY <1>1, <1>6 DEF ReadNext, ReadBegin, Look, TellOverflow, TellData, TellError, TellPending,
     TakeMessage, TellSilent, Sleep, Woken, ReadTimesOut
<1>7. CASE CloseNext
  BY <1>1, <1>7 DEF CloseNext, CloseBegin, CloseJoin, Closed
<1>. QED
  BY <1>2, <1>3, <1>4, <1>5, <1>6, <1>7 DEF Next

\* What is left of a sequence, and what was taken from its front.
LEMMA SplitSeq ==
    ASSUME NEW S, NEW q \in Seq(S), NEW n \in 0 .. Len(q)
    PROVE  /\ SubSeq(q, 1, n) \in Seq(S)
           /\ Len(SubSeq(q, 1, n)) = n
           /\ SubSeq(q, n + 1, Len(q)) \in Seq(S)
           /\ \A k \in 1 .. n : SubSeq(q, 1, n)[k] = q[k]
           /\ Len(SubSeq(q, n + 1, Len(q))) = Len(q) - n
           /\ \A j \in 1 .. Len(q) - n : SubSeq(q, n + 1, Len(q))[j] = q[j + n]
OBVIOUS

\* Two sequences joined.
LEMMA JoinSeq ==
    ASSUME NEW S, NEW q \in Seq(S), NEW r \in Seq(S)
    PROVE  /\ q \o r \in Seq(S)
           /\ Len(q \o r) = Len(q) + Len(r)
OBVIOUS

LEMMA JoinItems ==
    ASSUME NEW S, NEW q \in Seq(S), NEW r \in Seq(S)
    PROVE  /\ \A j \in 1 .. Len(q) : (q \o r)[j] = q[j]
           /\ \A j \in 1 .. Len(r) : (q \o r)[j + Len(q)] = r[j]
OBVIOUS

\* An index of two sequences joined is one of the first or, moved, one of the second.
LEMMA JoinIndex ==
    ASSUME NEW a \in Nat, NEW b \in Nat, NEW j \in 1 .. a + b
    PROVE  j \in 1 .. a \/ \E k \in 1 .. b : j = k + a
<1>1. CASE j <= a
  BY <1>1
<1>2. CASE j > a
  <2>1. j - a \in 1 .. b /\ j = (j - a) + a
    BY <1>2
  <2>. QED
    BY <2>1
<1>. QED
  BY <1>1, <1>2

\* Fresh bytes joined are fresh.
LEMMA FreshJoin ==
    ASSUME NEW q \in Seq(Nat), NEW r \in Seq(Nat), Fresh(q), Fresh(r)
    PROVE  Fresh(q \o r)
<1> DEFINE s == q \o r
<1>1. /\ s \in Seq(Nat)
      /\ Len(s) = Len(q) + Len(r)
      /\ \A j \in 1 .. Len(q) : s[j] = q[j]
      /\ \A j \in 1 .. Len(r) : s[j + Len(q)] = r[j]
  BY JoinSeq, JoinItems
<1>2. Len(q) \in Nat /\ Len(r) \in Nat
  OBVIOUS
<1>. HIDE DEF s
<1>3. SUFFICES ASSUME NEW j \in 1 .. Len(s) PROVE resetAt <= s[j]
  BY DEF Fresh, s
<1>4. j \in 1 .. Len(q) \/ \E k \in 1 .. Len(r) : j = k + Len(q)
  <2>1. j \in 1 .. Len(q) + Len(r)
    BY <1>1
  <2>. QED
    BY <1>2, <2>1, JoinIndex, Zenon
<1>. QED
  BY <1>1, <1>4 DEF Fresh

\* So are blocks of them.
LEMMA FreshBlocksJoin ==
    ASSUME NEW q \in Seq(Blocks), NEW r \in Seq(Blocks),
           \A i \in 1 .. Len(q) : Fresh(q[i].bytes),
           \A i \in 1 .. Len(r) : Fresh(r[i].bytes)
    PROVE  \A i \in 1 .. Len(q \o r) : Fresh((q \o r)[i].bytes)
<1> DEFINE s == q \o r
<1>1. /\ Len(s) = Len(q) + Len(r)
      /\ \A j \in 1 .. Len(q) : s[j] = q[j]
      /\ \A j \in 1 .. Len(r) : s[j + Len(q)] = r[j]
  BY JoinSeq, JoinItems
<1>2. Len(q) \in Nat /\ Len(r) \in Nat
  OBVIOUS
<1>. HIDE DEF s
<1>3. SUFFICES ASSUME NEW i \in 1 .. Len(s) PROVE Fresh(s[i].bytes)
  BY DEF s
<1>4. i \in 1 .. Len(q) \/ \E k \in 1 .. Len(r) : i = k + Len(q)
  <2>1. i \in 1 .. Len(q) + Len(r)
    BY <1>1
  <2>. QED
    BY <1>2, <2>1, JoinIndex, Zenon
<1>. QED
  BY <1>1, <1>4

\* So are the two parts fresh bytes are split in.
LEMMA FreshSplit ==
    ASSUME NEW q \in Seq(Nat), NEW n \in 0 .. Len(q), Fresh(q)
    PROVE  Fresh(SubSeq(q, 1, n)) /\ Fresh(SubSeq(q, n + 1, Len(q)))
<1> DEFINE f == SubSeq(q, 1, n)
           t == SubSeq(q, n + 1, Len(q))
<1>1. /\ Len(f) = n
      /\ \A k \in 1 .. n : f[k] = q[k]
      /\ Len(t) = Len(q) - n
      /\ \A j \in 1 .. Len(q) - n : t[j] = q[j + n]
  BY SplitSeq
<1>2. Len(q) \in Nat /\ n \in Nat /\ n <= Len(q)
  OBVIOUS
<1>. HIDE DEF f, t
<1>3. \A k \in 1 .. n : k \in 1 .. Len(q)
  BY <1>2
<1>4. \A j \in 1 .. Len(q) - n : j + n \in 1 .. Len(q)
  BY <1>2
<1>5. Fresh(f)
  BY <1>1, <1>3 DEF Fresh
<1>6. Fresh(t)
  BY <1>1, <1>4 DEF Fresh
<1>. QED
  BY <1>5, <1>6 DEF f, t

LEMMA UartStep ==
    ASSUME CountsType, SeqsType, Next
    PROVE  uart' \in Seq(Nat)
<1>0. <<>> \in Seq(Nat)
  OBVIOUS
<1>. USE DEF CountsType, SeqsType, device, shared, reader, taken, told, marks, caller, vars
<1>1. CASE DeviceData
  BY <1>1 DEF DeviceData
<1>2. CASE ReaderRead
  <2>1. PICK n \in 0 .. Len(uart) : uart' = SubSeq(uart, n + 1, Len(uart))
    BY <1>2 DEF ReaderRead
  <2>. QED
    BY <2>1, SplitSeq
<1>3. CASE FlushUart
  BY <1>0, <1>3 DEF FlushUart
<1>4. CASE CloseJoin
  BY <1>0, <1>4 DEF CloseJoin
<1>5. ASSUME ~DeviceData, ~ReaderRead, ~FlushUart, ~CloseJoin
      PROVE  UNCHANGED uart
  <2>1. CASE DeviceNext \/ ResetNext \/ CloseNext
    BY <1>5, <2>1 DEF DeviceNext, DeviceReport, ResetNext, ResetBegin, ResetFails, ReceiveHello,
       FlushQueue, CloseNext, CloseBegin, Closed
  <2>2. CASE ReaderNext
    BY <1>5, <2>2 DEF ReaderNext, ReaderRuns, ReaderOpen, ReaderMore, ReaderPublish, ReaderGather,
       ReaderTimeout, ReaderWake, ReaderQuit, ReaderLast, ReaderLastWake, ReaderFails,
       ReaderGivesUp
  <2>3. CASE ConfigNext
    BY <2>3 DEF ConfigNext, ConfigWrite, Answered, ConfigFails, ReceiveReply,
       ReceiveOther, ReceiveFails
  <2>4. CASE ReadNext
    BY <2>4 DEF ReadNext, ReadBegin, Look, TellOverflow, TellData, TellError, TellPending,
       TakeMessage, TellSilent, Sleep, Woken, ReadTimesOut
  <2>. QED
    BY <2>1, <2>2, <2>3, <2>4 DEF Next
<1>. QED
  BY <1>1, <1>2, <1>3, <1>4, <1>5

LEMMA BlockStep ==
    ASSUME CountsType, SeqsType, ReadHasBlock, Next
    PROVE  block' \in Seq(Blocks) /\ Len(block') <= 1
<1>0. <<>> \in Seq(Blocks) /\ Len(<<>>) <= 1
  OBVIOUS
<1>. USE DEF CountsType, SeqsType, device, shared, reader, taken, told, marks, caller, vars
<1>1. CASE ReaderOpen
  <2>1. Block(epoch, <<>>) \in Blocks
    BY BackendAssumption DEF Block, Blocks
  <2>2. block' = <<Block(epoch, <<>>)>>
    BY <1>1 DEF ReaderOpen
  <2>. HIDE DEF Blocks
  <2>. QED
    BY <2>1, <2>2
<1>2. CASE ReaderRead
  <2>1. PICK n \in 0 .. Len(uart) :
           /\ n <= Room(block)
           /\ block' = IF n = 0 /\ BlockLen(block) = 0
                       THEN <<>>
                       ELSE <<[block[1] EXCEPT !.bytes = @ \o SubSeq(uart, 1, n)]>>
    BY <1>2 DEF ReaderRead
  <2> DEFINE b == [block[1] EXCEPT !.bytes = @ \o SubSeq(uart, 1, n)]
  <2>2. block[1] \in Blocks /\ BlockLen(block) = Len(block[1].bytes)
    BY <1>2, OneBlock DEF ReaderRead, ReadHasBlock
  <2>3. SubSeq(uart, 1, n) \in Seq(Nat) /\ Len(SubSeq(uart, 1, n)) = n
    BY SplitSeq
  <2>4. block[1].bytes \o SubSeq(uart, 1, n) \in Seq(Nat)
    BY <2>2, <2>3 DEF Blocks
  <2>5. Len(block[1].bytes \o SubSeq(uart, 1, n)) <= BlockSize
    <3>1. block[1].bytes \in Seq(Nat)
      BY <2>2 DEF Blocks
    <3>2. Len(block[1].bytes \o SubSeq(uart, 1, n)) = Len(block[1].bytes) + n
      BY <2>3, <3>1, JoinSeq
    <3>3. n <= BlockSize - Len(block[1].bytes)
      BY <2>1, <2>2 DEF Room
    <3>4. n \in Nat /\ Len(block[1].bytes) \in Nat /\ BlockSize \in Nat
      BY <3>1, BackendAssumption
    <3>5. Len(block[1].bytes) + n <= BlockSize
      BY <3>3, <3>4
    <3>. QED
      BY <3>2, <3>5
  <2>6. b \in Blocks
    BY <2>2, <2>4, <2>5 DEF Blocks
  <2>. HIDE DEF b
  <2>7. <<b>> \in Seq(Blocks) /\ Len(<<b>>) = 1
    BY <2>6
  <2>. QED
    BY <1>0, <2>1, <2>7 DEF b
<1>3. CASE ReaderPublish \/ ReaderLast
  BY <1>0, <1>3 DEF ReaderPublish, ReaderLast
<1>4. ASSUME ~ReaderOpen, ~ReaderRead, ~ReaderPublish, ~ReaderLast
      PROVE  UNCHANGED block
  <2>1. CASE DeviceNext \/ ResetNext \/ CloseNext
    BY <2>1 DEF DeviceNext, DeviceData, DeviceReport, ResetNext, ResetBegin, ResetFails,
       ReceiveHello, FlushUart, FlushQueue, CloseNext, CloseBegin, CloseJoin, Closed
  <2>2. CASE ReaderNext
    BY <1>4, <2>2 DEF ReaderNext, ReaderRuns, ReaderMore, ReaderGather, ReaderTimeout, ReaderWake,
       ReaderQuit, ReaderLastWake, ReaderFails, ReaderGivesUp
  <2>3. CASE ConfigNext
    BY <2>3 DEF ConfigNext, ConfigWrite, Answered, ConfigFails, ReceiveReply,
       ReceiveOther, ReceiveFails
  <2>4. CASE ReadNext
    BY <2>4 DEF ReadNext, ReadBegin, Look, TellOverflow, TellData, TellError, TellPending,
       TakeMessage, TellSilent, Sleep, Woken, ReadTimesOut
  <2>. QED
    BY <2>1, <2>2, <2>3, <2>4 DEF Next
<1>. QED
  BY <1>1, <1>2, <1>3, <1>4

LEMMA MessagesStep ==
    ASSUME CountsType, SeqsType, reg \in Registers, Next
    PROVE  outbox' \in Seq(Messages) /\ pending' \in Seq(Messages)
<1>0. <<>> \in Seq(Messages)
  OBVIOUS
<1>1. /\ Message("hello", 0) \in Messages
      /\ Message("report", reports + 1) \in Messages
      /\ \A r \in Registers : Message("reply", r) \in Messages
  BY DEF Message, Messages, CountsType, Registers, Other, Capture
<1>2. \A m \in Messages : KeepPending(m) \in Seq(Messages)
  BY DEF KeepPending, SeqsType
<1>3. outbox # <<>> => Head(outbox) \in Messages /\ Tail(outbox) \in Seq(Messages)
  BY DEF SeqsType
<1>4. pending # <<>> => Tail(pending) \in Seq(Messages)
  BY DEF SeqsType
<1>5. \A m \in Messages : Append(outbox, m) \in Seq(Messages) /\ <<m>> \in Seq(Messages)
                         /\ (outbox # <<>> => Append(Tail(outbox), m) \in Seq(Messages))
                         /\ Append(<<>>, m) \in Seq(Messages)
  BY DEF SeqsType
<1>. USE DEF SeqsType, device, shared, reader, taken, told, marks, caller, vars
<1>6. CASE DeviceNext
  BY <1>1, <1>5, <1>6 DEF DeviceNext, DeviceData, DeviceReport
<1>7. CASE ReaderNext
  BY <1>7 DEF ReaderNext, ReaderRuns, ReaderOpen, ReaderMore, ReaderRead, ReaderPublish,
     ReaderGather, ReaderTimeout, ReaderWake, ReaderQuit, ReaderLast, ReaderLastWake, ReaderFails,
     ReaderGivesUp
<1>8. CASE ResetNext
  BY <1>0, <1>1, <1>5, <1>8 DEF ResetNext, ResetBegin, ResetFails, ReceiveHello, FlushUart,
     FlushQueue
<1>9. CASE ConfigNext
  <2>1. RestOf(outbox) \in Seq(Messages)
    BY <1>0, <1>3 DEF RestOf
  <2>2. \A q \in Seq(Messages), m \in Messages : Append(q, m) \in Seq(Messages)
    OBVIOUS
  <2>3. ASSUME NEW r \in Registers, ConfigWrite(r)
        PROVE  outbox' \in Seq(Messages) /\ pending' \in Seq(Messages)
    BY <1>1, <1>2, <1>3, <2>1, <2>2, <2>3 DEF ConfigWrite
  <2>4. ASSUME NEW r \in Registers, ConfigFails(r)
        PROVE  outbox' \in Seq(Messages) /\ pending' \in Seq(Messages)
    BY <1>1, <2>1, <2>2, <2>4 DEF ConfigFails
  <2>5. CASE ReceiveReply \/ ReceiveOther \/ ReceiveFails
    BY <1>2, <1>3, <2>1, <2>5 DEF ReceiveReply, ReceiveOther, ReceiveFails
  <2>. QED
    BY <1>9, <2>3, <2>4, <2>5 DEF ConfigNext
<1>10. CASE ReadNext
  BY <1>2, <1>3, <1>4, <1>10 DEF ReadNext, ReadBegin, Look, TellOverflow, TellData, TellError,
     TellPending, TakeMessage, TellSilent, Sleep, Woken, ReadTimesOut
<1>11. CASE CloseNext
  BY <1>0, <1>11 DEF CloseNext, CloseBegin, CloseJoin, Closed
<1>. QED
  BY <1>6, <1>7, <1>8, <1>9, <1>10, <1>11 DEF Next

\* The items there are.
LEMMA ItemTypes ==
    /\ \A n \in Nat : Overflow(n) \in Items /\ Overflow(n).bytes = <<>>
    /\ \A m \in Messages : Control(m) \in Items /\ Control(m).bytes = <<>>
    /\ \A bytes \in Seq(Nat) : Data(bytes) \in Items /\ Data(bytes).bytes = bytes
<1>1. \A n \in Nat : Overflow(n) \in Items /\ Overflow(n).bytes = <<>>
  BY DEF Overflow, Items, ItemKinds
<1>2. \A m \in Messages : Control(m) \in Items /\ Control(m).bytes = <<>>
  BY DEF Control, Items, ItemKinds, Messages
<1>3. \A bytes \in Seq(Nat) : Data(bytes) \in Items /\ Data(bytes).bytes = bytes
  BY DEF Data, Items, ItemKinds
<1>. QED
  BY <1>1, <1>2, <1>3

LEMMA GivenStep ==
    ASSUME CountsType, SeqsType, Next
    PROVE  /\ got' \in Seq(Blocks) /\ Len(got') <= 1
           /\ given' \in Seq(Items)
<1>0. <<>> \in Seq(Blocks) /\ Len(<<>>) <= 1 /\ <<>> \in Seq(Items)
  OBVIOUS
<1>1. ASSUME NEW item \in Items, Give(item)
      PROVE  given' \in Seq(Items)
  BY <1>1 DEF Give, SeqsType
<1>2. \A n \in Nat : Overflow(n) \in Items
  BY ItemTypes
<1>3. \A m \in Messages : Control(m) \in Items
  BY ItemTypes
<1>5. \A bytes \in Seq(Nat) : Data(bytes) \in Items
  BY ItemTypes
<1>. USE DEF device, shared, reader, taken, told, marks, caller, vars
<1>6. CASE Look
  <2>1. UNCHANGED given
    BY <1>6 DEF Look
  <2>2. CASE queue = <<>>
    BY <1>0, <1>6, <2>1, <2>2 DEF Look, SeqsType
  <2>3. CASE queue # <<>>
    <3>1. Head(queue) \in Blocks
      BY <2>3 DEF SeqsType
    <3>2. got' = <<Head(queue)>>
      BY <1>6, <2>3 DEF Look
    <3>. QED
      BY <2>1, <3>1, <3>2 DEF SeqsType
  <2>. QED
    BY <2>2, <2>3
<1>7. CASE TellOverflow
  BY <1>0, <1>1, <1>2, <1>7 DEF TellOverflow, CountsType
<1>8. CASE TellData
  <2>1. got[1].bytes \in Seq(Nat)
    BY <1>8, OneBlock DEF TellData, SeqsType
  <2>. QED
    BY <1>0, <1>1, <1>5, <1>8, <2>1 DEF TellData
<1>9. CASE TellError \/ TellSilent \/ TakeMessage
  BY <1>9 DEF TellError, TellSilent, TakeMessage, SeqsType
<1>10. CASE TellPending
  <2>1. Head(pending) \in Messages
    BY <1>10 DEF TellPending, SeqsType
  <2>. QED
    BY <1>1, <1>3, <1>10, <2>1 DEF TellPending, SeqsType
<1>11. CASE FlushQueue \/ CloseJoin
  BY <1>0, <1>11 DEF FlushQueue, CloseJoin, SeqsType
<1>12. ASSUME ~Look, ~TellOverflow, ~TellData, ~TellError, ~TellSilent, ~TakeMessage,
              ~TellPending, ~FlushQueue, ~CloseJoin
       PROVE  UNCHANGED <<got, given>>
  <2>1. CASE DeviceNext \/ ResetNext \/ CloseNext
    BY <1>12, <2>1 DEF DeviceNext, DeviceData, DeviceReport, ResetNext, ResetBegin, ResetFails,
       ReceiveHello, FlushUart, CloseNext, CloseBegin, Closed
  <2>2. CASE ReaderNext
    BY <2>2 DEF ReaderNext, ReaderRuns, ReaderOpen, ReaderMore, ReaderRead, ReaderPublish,
       ReaderGather, ReaderTimeout, ReaderWake, ReaderQuit, ReaderLast, ReaderLastWake,
       ReaderFails, ReaderGivesUp
  <2>3. CASE ConfigNext
    BY <2>3 DEF ConfigNext, ConfigWrite, Answered, ConfigFails, ReceiveReply,
       ReceiveOther, ReceiveFails
  <2>4. CASE ReadNext
    BY <1>12, <2>4 DEF ReadNext, ReadBegin, Sleep, Woken, ReadTimesOut
  <2>. QED
    BY <2>1, <2>2, <2>3, <2>4 DEF Next
<1>. QED
  BY <1>6, <1>7, <1>8, <1>9, <1>10, <1>11, <1>12 DEF SeqsType

LEMMA TypeInit == Init => TypeInv
<1> SUFFICES ASSUME Init PROVE TypeInv
  OBVIOUS
<1>1. FlagsType
  BY Zenon DEF Init, FlagsType
<1>2. CountsType
  BY DEF Init, CountsType
<1>3. /\ <<>> \in Seq(Nat) /\ <<>> \in Seq(Messages) /\ <<>> \in Seq(Blocks)
      /\ <<>> \in Seq(Items) /\ Len(<<>>) <= 1
  OBVIOUS
<1>4. SeqsType
  BY <1>3 DEF Init, SeqsType
<1>. QED
  BY <1>1, <1>2, <1>4 DEF Init, TypeInv, TypeOK, ReaderPcs, CallerPcs, Registers, ReadHasBlock

LEMMA TypeStep == TypeInv /\ [Next]_vars => TypeInv'
<1> SUFFICES ASSUME TypeInv, [Next]_vars PROVE TypeInv'
  OBVIOUS
<1>. USE DEF TypeInv, TypeOK
<1>1. CASE Next
  <2>1. FlagsType'
    BY <1>1, FlagsStep
  <2>2. CountsType'
    BY <1>1, CountsStep
  <2>3. SeqsType'
    BY <1>1, SharedStep, UartStep, BlockStep, MessagesStep, GivenStep DEF SeqsType
  <2>4. rpc' \in ReaderPcs /\ cpc' \in CallerPcs /\ reg' \in Registers
    BY <1>1, PcsStep
  <2>5. ReadHasBlock'
    BY <1>1, ReadHasBlockStep
  <2>. QED
    BY <2>1, <2>2, <2>3, <2>4, <2>5
<1>2. CASE UNCHANGED vars
  <2>. USE <1>2 DEF vars, device, shared, reader, caller, taken, told, marks
  <2>1. FlagsType'
    BY Zenon DEF FlagsType
  <2>2. CountsType'
    BY DEF CountsType
  <2>3. SeqsType'
    BY Zenon DEF SeqsType
  <2>. QED
    BY <2>1, <2>2, <2>3 DEF ReadHasBlock
<1>. QED
  BY <1>1, <1>2

\* The backend keeps its types: a block never has more bytes than it has room for (BLOCK_SIZE).
THEOREM TypeCorrect == Spec => []TypeOK
<1>1. Spec => []TypeInv
  BY TypeInit, TypeStep, PTL DEF Spec
<1>. QED
  BY <1>1, PTL DEF TypeInv

-----------------------------------------------------------------------------
(* No wake-up is lost. *)

\* From the look at the queue that found nothing to the poll(), what was queued since comes with
\* a wake-up, given or about to be.
AsleepInv ==
    /\ cpc = "poll" \/ (cpc = "tell" /\ got = <<>>)
    /\ ~wake
    /\ rpc \notin {"wake", "lastWake"}
    => queue = <<>> /\ dropped = 0

LEMMA AsleepInit == Init => AsleepInv
BY DEF Init, AsleepInv

LEMMA AsleepStep == TypeInv /\ AsleepInv /\ [Next]_vars => AsleepInv'
<1> SUFFICES ASSUME TypeInv, AsleepInv, [Next]_vars PROVE AsleepInv'
  OBVIOUS
<1>. USE DEF AsleepInv, device, shared, reader, taken, told, marks, caller, vars
<1>1. CASE DeviceNext
  BY <1>1 DEF DeviceNext, DeviceData, DeviceReport
<1>2. CASE ReaderNext
  BY <1>2 DEF ReaderNext, ReaderRuns, ReaderOpen, ReaderMore, ReaderRead, ReaderPublish,
     ReaderGather, ReaderTimeout, ReaderWake, ReaderQuit, ReaderLast, ReaderLastWake, ReaderFails,
     ReaderGivesUp
<1>3. CASE ResetNext
  BY <1>3 DEF ResetNext, ResetBegin, ResetFails, ReceiveHello, FlushUart, FlushQueue
<1>4. CASE ConfigNext
  BY <1>4 DEF ConfigNext, ConfigWrite, Answered, ConfigFails, ReceiveReply,
     ReceiveOther, ReceiveFails
<1>5. CASE ReadNext
  <2>1. CASE Look
    <3>1. queue # <<>> => got' # <<>>
      BY <2>1 DEF Look
    <3>2. queue = <<>> => queue' = <<>>
      BY <2>1 DEF Look
    <3>3. dropped' = 0 /\ cpc' = "tell"
      BY <2>1 DEF Look
    <3>. QED
      BY <3>1, <3>2, <3>3
  <2>2. CASE Sleep
    BY <2>2 DEF Sleep, NothingToTell, NothingTaken
  <2>3. ASSUME ~Look, ~Sleep
        PROVE  cpc' \in {"out", "look"}
    BY <1>5, <2>3 DEF ReadNext, ReadBegin, TellOverflow, TellData, TellError, TellPending,
       TakeMessage, TellSilent, Woken, ReadTimesOut
  <2>. QED
    BY <2>1, <2>2, <2>3
<1>6. CASE CloseNext
  BY <1>6 DEF CloseNext, CloseBegin, CloseJoin, Closed
<1>7. CASE UNCHANGED vars
  BY <1>7
<1>. QED
  BY <1>1, <1>2, <1>3, <1>4, <1>5, <1>6, <1>7 DEF Next

\* Whatever the two threads do between the look at the queue and the poll(), the caller does not
\* sleep with data to give out.
THEOREM NoLostWake == Spec => []NotAsleep
<1>1. AsleepInv => NotAsleep
  BY DEF AsleepInv, NotAsleep
<1>. QED
  BY <1>1, TypeInit, TypeStep, AsleepInit, AsleepStep, PTL DEF Spec

-----------------------------------------------------------------------------
(* Nothing of before a reset is given out after it. *)

FreshBlock(b) == b.epoch = epoch => Fresh(b.bytes)

\* What may be given out is fresh: the UART's input always, the queue and the block of the epoch
\* but between the two steps of a flush; after them the blocks of before are of another epoch.
StaleInv ==
    /\ Fresh(uart)
    /\ cpc # "tell" => got = <<>>
    /\ block # <<>> => block[1].epoch <= epoch
    /\ cpc # "flushQueue" =>
          /\ \A i \in 1 .. Len(given) : Fresh(given[i].bytes)
          /\ \A i \in 1 .. Len(queue) : Fresh(queue[i].bytes)
          /\ got # <<>> => Fresh(got[1].bytes)
          /\ block # <<>> => FreshBlock(block[1])

LEMMA StaleInit == Init => StaleInv
BY DEF Init, StaleInv, Fresh

\* A step that moves no byte keeps StaleInv, unless it ends a flush.
LEMMA StaleUnmoved ==
    ASSUME StaleInv, UNCHANGED <<got, block, epoch, given, queue, resetAt>>, Fresh(uart)',
           cpc # "flushQueue" \/ cpc' = "flushQueue",
           cpc' # "tell" => got = <<>>
    PROVE  StaleInv'
BY DEF StaleInv, Fresh, FreshBlock

\* After a flush nothing of before is left but a block of another epoch.
LEMMA StaleFlushed ==
    ASSUME StaleInv, CountsType, SeqsType, cpc # "tell", cpc' # "tell", Fresh(uart)',
           epoch' = epoch + 1, queue' = <<>>, given' = <<>>, UNCHANGED <<got, block, resetAt>>
    PROVE  StaleInv'
<1>1. got' = <<>>
  BY DEF StaleInv
<1>2. block' # <<>> => block'[1].epoch < epoch'
  <2>1. block # <<>> => block[1].epoch \in Nat
    BY OneBlock DEF SeqsType, Blocks
  <2>. QED
    BY <2>1 DEF StaleInv, CountsType
<1>3. block' # <<>> => block'[1].epoch \in Nat
  BY OneBlock DEF SeqsType, Blocks
<1>4. \A i \in 1 .. Len(given') : FALSE
  OBVIOUS
<1>5. \A i \in 1 .. Len(queue') : FALSE
  OBVIOUS
<1>6. epoch' \in Nat
  BY DEF CountsType
<1>7. block' # <<>> => block'[1].epoch <= epoch' /\ block'[1].epoch # epoch'
  BY <1>2, <1>3, <1>6
<1>. QED
  BY <1>1, <1>4, <1>5, <1>7 DEF StaleInv, FreshBlock

\* What goes from the reader's block to the queue is fresh: a block of another epoch does not.
LEMMA StalePublished ==
    ASSUME StaleInv, SeqsType, block # <<>>, QueueBlock(block[1]), block' = <<>>,
           UNCHANGED <<uart, cpc, got, epoch, given, resetAt>>
    PROVE  StaleInv'
<1>1. block[1] \in Blocks
  BY OneBlock DEF SeqsType
<1>2. CASE UNCHANGED queue
  BY <1>2 DEF StaleInv, Fresh, FreshBlock
<1>3. CASE queue' = Append(queue, block[1]) /\ block[1].epoch = epoch
  <2>1. Len(queue') = Len(queue) + 1
    BY <1>1, <1>3 DEF SeqsType
  <2>2. \A i \in 1 .. Len(queue) : queue'[i] = queue[i]
    BY <1>1, <1>3 DEF SeqsType
  <2>3. queue'[Len(queue) + 1] = block[1]
    BY <1>1, <1>3 DEF SeqsType
  <2>4. Len(queue) \in Nat
    BY DEF SeqsType
  <2>5. cpc # "flushQueue" => Fresh(block[1].bytes)
    BY <1>3 DEF StaleInv, FreshBlock
  <2>6. \A i \in 1 .. Len(queue') : i \in 1 .. Len(queue) \/ i = Len(queue) + 1
    BY <2>1, <2>4
  <2>7. cpc # "flushQueue" => \A i \in 1 .. Len(queue') : Fresh(queue'[i].bytes)
    BY <2>2, <2>3, <2>5, <2>6 DEF StaleInv
  <2>8. \A bytes : Fresh(bytes)' <=> Fresh(bytes)
    BY DEF Fresh
  <2>. QED
    BY <2>7 DEF StaleInv, Fresh
<1>. QED
  BY <1>2, <1>3 DEF QueueBlock, Stale

\* Giving out an item without bytes, or with fresh ones.
LEMMA StaleGiven ==
    ASSUME StaleInv, SeqsType, NEW item \in Items, Give(item), Fresh(item.bytes),
           cpc # "flushQueue"
    PROVE  \A i \in 1 .. Len(given') : Fresh(given'[i].bytes)
<1>1. Len(given') = Len(given) + 1
  BY DEF Give, SeqsType
<1>2. \A i \in 1 .. Len(given) : given'[i] = given[i]
  BY DEF Give, SeqsType
<1>3. given'[Len(given) + 1] = item
  BY DEF Give, SeqsType
<1>4. Len(given) \in Nat
  BY DEF SeqsType
<1>5. \A i \in 1 .. Len(given') : i \in 1 .. Len(given) \/ i = Len(given) + 1
  BY <1>1, <1>4
<1>. QED
  BY <1>2, <1>3, <1>5 DEF StaleInv

LEMMA StaleStep == TypeInv /\ StaleInv /\ [Next]_vars => StaleInv'
<1> SUFFICES ASSUME TypeInv, StaleInv, [Next]_vars PROVE StaleInv'
  OBVIOUS
<1>0. CountsType /\ SeqsType
  BY DEF TypeInv, TypeOK
<1>. USE DEF device, shared, reader, taken, told, marks, caller, vars
<1>a. ASSUME UNCHANGED <<uart, resetAt>> PROVE Fresh(uart)'
  BY <1>a DEF StaleInv, Fresh
<1>b. uart' = <<>> => Fresh(uart)'
  BY DEF Fresh
<1>1. CASE DeviceNext
  <2>1. UNCHANGED <<got, block, epoch, given, queue, resetAt, cpc>>
    BY <1>1 DEF DeviceNext, DeviceData, DeviceReport
  <2>2. CASE DeviceData
    <3>1. uart' = Append(uart, sent) /\ uart \in Seq(Nat) /\ sent \in Nat /\ resetAt <= sent
      BY <1>0, <2>2 DEF DeviceData, CountsType, SeqsType
    <3>2. \A j \in 1 .. Len(uart') : uart'[j] = sent \/ (j \in 1 .. Len(uart) /\ uart'[j] = uart[j])
      BY <3>1
    <3>3. Fresh(uart)'
      BY <2>1, <3>1, <3>2 DEF Fresh, StaleInv
    <3>. QED
      BY <2>1, <3>3, StaleUnmoved DEF StaleInv
  <2>3. CASE DeviceReport
    BY <1>a, <2>1, <2>3, StaleUnmoved DEF DeviceReport, StaleInv
  <2>. QED
    BY <1>1, <2>2, <2>3 DEF DeviceNext
<1>2. CASE ReaderNext
  <2>1. CASE ReaderRead
    <3>1. PICK n \in 0 .. Len(uart) :
             /\ uart' = SubSeq(uart, n + 1, Len(uart))
             /\ block' = IF n = 0 /\ BlockLen(block) = 0
                         THEN <<>>
                         ELSE <<[block[1] EXCEPT !.bytes = @ \o SubSeq(uart, 1, n)]>>
      BY <2>1 DEF ReaderRead
    <3>2. UNCHANGED <<cpc, got, epoch, given, queue, resetAt>>
      BY <2>1 DEF ReaderRead
    <3>3. block # <<>> /\ block[1] \in Blocks
      BY <1>0, <2>1, OneBlock DEF ReaderRead, ReadHasBlock, TypeInv, SeqsType
    <3>4. uart \in Seq(Nat) /\ block[1].bytes \in Seq(Nat)
      BY <1>0, <3>3 DEF SeqsType, Blocks
    <3>5. Fresh(uart)'
      <4>1. Fresh(uart')
        BY <3>1, <3>4, FreshSplit DEF StaleInv
      <4>. QED
        BY <3>2, <4>1 DEF Fresh
    <3> DEFINE bs == block[1].bytes \o SubSeq(uart, 1, n)
    <3>6. Fresh(block[1].bytes) => Fresh(bs)
      <4>1. SubSeq(uart, 1, n) \in Seq(Nat)
        BY <3>4, SplitSeq
      <4>2. Fresh(SubSeq(uart, 1, n))
        BY <3>4, FreshSplit DEF StaleInv
      <4>. QED
        BY <3>4, <4>1, <4>2, FreshJoin
    <3>. HIDE DEF bs
    <3>7. block' # <<>> => block'[1].epoch = block[1].epoch /\ block'[1].bytes = bs
      BY <3>1, <3>3 DEF bs, Blocks
    <3>8. \A bytes : Fresh(bytes)' <=> Fresh(bytes)
      BY <3>2 DEF Fresh
    <3>9. block' # <<>> => block'[1].epoch <= epoch'
      BY <3>2, <3>3, <3>7 DEF StaleInv
    <3>10. cpc # "flushQueue" /\ block' # <<>> => FreshBlock(block[1])
      BY <3>3 DEF StaleInv
    <3>11. cpc # "flushQueue" /\ block' # <<>> /\ block'[1].epoch = epoch => Fresh(block'[1].bytes)
      BY <3>6, <3>7, <3>10 DEF FreshBlock
    <3>. QED
      BY <3>2, <3>5, <3>9, <3>11 DEF StaleInv, FreshBlock, Fresh
  <2>2. CASE ReaderPublish
    BY <1>0, <2>2, StalePublished DEF ReaderPublish, BlockDue
  <2>3. CASE ReaderLast
    <3>1. CASE BlockLen(block) > 0
      <4>1. block # <<>>
        BY <3>1 DEF BlockLen
      <4>2. QueueBlock(block[1])
        BY <1>0, <2>3, <3>1 DEF ReaderLast
      <4>. QED
        BY <1>0, <2>3, <4>1, <4>2, StalePublished DEF ReaderLast
    <3>2. CASE ~(BlockLen(block) > 0)
      BY <2>3, <3>2 DEF ReaderLast, StaleInv, Fresh
    <3>. QED
      BY <3>1, <3>2
  <2>4. CASE ReaderOpen
    <3>1. block' = <<Block(epoch, <<>>)>>
      BY <2>4 DEF ReaderOpen
    <3>2. block'[1].epoch = epoch /\ block'[1].bytes = <<>> /\ epoch <= epoch
      BY <1>0, <3>1 DEF Block, CountsType
    <3>3. UNCHANGED <<uart, cpc, got, epoch, given, queue, resetAt>>
      BY <2>4 DEF ReaderOpen
    <3>. QED
      BY <3>2, <3>3 DEF StaleInv, Fresh, FreshBlock
  <2>5. ASSUME ~ReaderRead, ~ReaderPublish, ~ReaderLast, ~ReaderOpen
        PROVE  UNCHANGED <<uart, cpc, got, block, epoch, given, queue, resetAt>>
    BY <1>2, <2>5 DEF ReaderNext, ReaderRuns, ReaderMore, ReaderGather, ReaderTimeout, ReaderWake,
       ReaderQuit, ReaderLastWake, ReaderFails, ReaderGivesUp
  <2>6. CASE UNCHANGED <<uart, cpc, got, block, epoch, given, queue, resetAt>>
    BY <2>6 DEF StaleInv, Fresh, FreshBlock
  <2>. QED
    BY <2>1, <2>2, <2>3, <2>4, <2>5, <2>6
<1>3. CASE ResetNext
  <2>1. CASE FlushUart
    <3>1. /\ cpc' = "flushQueue" /\ cpc = "flush" /\ uart' = <<>>
          /\ UNCHANGED <<got, block, epoch>>
      BY <2>1 DEF FlushUart
    <3>2. Fresh(uart)'
      BY <1>b, <3>1
    <3>. QED
      BY <3>1, <3>2 DEF StaleInv
  <2>2. CASE FlushQueue
    BY <1>0, <1>a, <2>2, StaleFlushed DEF FlushQueue
  <2>3. CASE ResetBegin \/ ResetFails \/ ReceiveHello
    <3>1. /\ UNCHANGED <<uart, got, block, epoch, given, queue, resetAt>>
          /\ cpc \notin {"flushQueue", "tell"} /\ cpc' # "tell"
      BY <2>3 DEF ResetBegin, ResetFails, ReceiveHello, Idle
    <3>. QED
      BY <1>a, <3>1, StaleUnmoved DEF StaleInv
  <2>. QED
    BY <1>3, <2>1, <2>2, <2>3 DEF ResetNext
<1>4. CASE ConfigNext
  <2>1. /\ UNCHANGED <<uart, got, block, epoch, given, queue, resetAt>>
        /\ cpc \notin {"flushQueue", "tell"} /\ cpc' # "tell"
    BY <1>4 DEF ConfigNext, ConfigWrite, Answered, ConfigFails, ReceiveReply,
       ReceiveOther, ReceiveFails, Idle
  <2>. QED
    BY <1>a, <2>1, StaleUnmoved DEF StaleInv
<1>5. CASE ReadNext
  <2>1. UNCHANGED <<uart, block, epoch, resetAt>>
    BY <1>5 DEF ReadNext, ReadBegin, Look, TellOverflow, TellData, TellError, TellPending,
       TakeMessage, TellSilent, Sleep, Woken, ReadTimesOut
  <2>2. cpc # "flushQueue" /\ cpc' # "flushQueue"
    BY <1>5 DEF ReadNext, ReadBegin, Look, TellOverflow, TellData, TellError, TellPending,
       TakeMessage, TellSilent, Sleep, Woken, ReadTimesOut, NothingToTell, NothingTaken, Idle
  <2>3. \A bytes : Fresh(bytes)' <=> Fresh(bytes)
    BY <2>1 DEF Fresh
  <2>4. Fresh(<<>>)
    BY DEF Fresh
  <2>5. cpc # "tell" => got = <<>>
    BY DEF StaleInv
  <2>6. Fresh(uart)'
    BY <1>a, <2>1
  <2>7. ASSUME got' = <<>>, UNCHANGED queue, UNCHANGED given
        PROVE  StaleInv'
    BY <2>1, <2>2, <2>3, <2>6, <2>7 DEF StaleInv, FreshBlock
  <2>8. ASSUME NEW item \in Items, Give(item), Fresh(item.bytes), got' = <<>>, UNCHANGED queue
        PROVE  StaleInv'
    <3>1. \A i \in 1 .. Len(given') : Fresh(given'[i].bytes)
      BY <1>0, <2>2, <2>8, StaleGiven
    <3>. QED
      BY <2>1, <2>2, <2>3, <2>6, <2>8, <3>1 DEF StaleInv, FreshBlock
  <2>9. CASE Look
    <3>1. cpc' = "tell" /\ UNCHANGED given
      BY <2>9 DEF Look
    <3>2. CASE queue = <<>>
      BY <2>1, <2>2, <2>3, <2>6, <2>9, <3>1, <3>2 DEF Look, StaleInv, FreshBlock
    <3>3. CASE queue # <<>>
      <4>1. got' = <<Head(queue)>> /\ queue' = Tail(queue)
        BY <2>9, <3>3 DEF Look
      <4>2. queue \in Seq(Blocks) /\ Len(queue) \in Nat \ {0}
        BY <1>0, <3>3 DEF SeqsType
      <4>3. got'[1] = queue[1]
        BY <3>3, <4>1, <4>2
      <4>4. \A i \in 1 .. Len(queue') : i + 1 \in 1 .. Len(queue) /\ queue'[i] = queue[i + 1]
        BY <3>3, <4>1, <4>2
      <4>5. Fresh(got'[1].bytes)
        BY <2>2, <4>2, <4>3 DEF StaleInv
      <4>6. \A i \in 1 .. Len(queue') : Fresh(queue'[i].bytes)
        BY <2>2, <4>4 DEF StaleInv
      <4>. QED
        BY <2>1, <2>2, <2>3, <2>6, <3>1, <4>5, <4>6 DEF StaleInv, FreshBlock
    <3>. QED
      BY <3>2, <3>3
  <2>10. CASE TellOverflow
    <3>1. Overflow(gotDropped) \in Items /\ Overflow(gotDropped).bytes = <<>>
      BY <1>0, ItemTypes DEF CountsType
    <3>2. Give(Overflow(gotDropped)) /\ got' = <<>> /\ queue' = got \o queue
      BY <2>10 DEF TellOverflow, PutBack
    <3>3. \A i \in 1 .. Len(given') : Fresh(given'[i].bytes)
      BY <1>0, <2>2, <2>4, <3>1, <3>2, StaleGiven
    <3>4. \A i \in 1 .. Len(queue') : Fresh(queue'[i].bytes)
      <4>1. got \in Seq(Blocks) /\ queue \in Seq(Blocks) /\ Len(got) <= 1
        BY <1>0 DEF SeqsType
      <4>2. \A i \in 1 .. Len(got) : Fresh(got[i].bytes)
        BY <2>2, <4>1 DEF StaleInv
      <4>3. \A i \in 1 .. Len(queue) : Fresh(queue[i].bytes)
        BY <2>2 DEF StaleInv
      <4>. QED
        BY <3>2, <4>1, <4>2, <4>3, FreshBlocksJoin
    <3>. QED
      BY <2>1, <2>2, <2>3, <2>6, <3>2, <3>3, <3>4 DEF StaleInv, FreshBlock
  <2>11. CASE TellData
    <3>1. Data(got[1].bytes) \in Items /\ Data(got[1].bytes).bytes = got[1].bytes
      <4>1. got[1].bytes \in Seq(Nat)
        BY <1>0, <2>11, OneBlock DEF TellData, SeqsType, Blocks
      <4>. QED
        BY <4>1, ItemTypes
    <3>2. Fresh(got[1].bytes)
      BY <2>2, <2>11 DEF TellData, StaleInv
    <3>. QED
      BY <2>8, <2>11, <3>1, <3>2 DEF TellData
  <2>12. CASE TellError \/ TellPending \/ TakeMessage \/ TellSilent
    <3>1. got' = <<>> /\ UNCHANGED queue
      BY <2>12 DEF TellError, TellPending, TakeMessage, TellSilent, NothingToTell, NothingTaken
    <3>2. UNCHANGED given \/ \E item \in Items : Give(item) /\ item.bytes = <<>>
      <4>1. CASE TellPending
        <5>1. Head(pending) \in Messages
          BY <1>0, <4>1 DEF TellPending, SeqsType
        <5>. QED
          BY <4>1, <5>1, ItemTypes DEF TellPending
      <4>2. CASE TellError \/ TakeMessage \/ TellSilent
        BY <4>2 DEF TellError, TakeMessage, TellSilent
      <4>. QED
        BY <2>12, <4>1, <4>2
    <3>. QED
      BY <2>4, <2>7, <2>8, <3>1, <3>2
  <2>13. CASE ReadBegin \/ Sleep \/ Woken \/ ReadTimesOut
    <3>1. UNCHANGED <<got, queue, given>>
      BY <2>13 DEF ReadBegin, Sleep, Woken, ReadTimesOut
    <3>2. got = <<>>
      BY <2>5, <2>13 DEF ReadBegin, Sleep, Woken, ReadTimesOut, NothingToTell, NothingTaken, Idle
    <3>. QED
      BY <2>7, <3>1, <3>2
  <2>. QED
    BY <1>5, <2>9, <2>10, <2>11, <2>12, <2>13 DEF ReadNext
<1>6. CASE CloseNext
  <2>1. CASE CloseJoin
    BY <1>0, <1>b, <2>1, StaleFlushed DEF CloseJoin
  <2>2. CASE CloseBegin \/ Closed
    <3>1. /\ UNCHANGED <<uart, got, block, epoch, given, queue, resetAt>>
          /\ cpc \notin {"flushQueue", "tell"} /\ cpc' # "tell"
      BY <2>2 DEF CloseBegin, Closed, Idle
    <3>. QED
      BY <1>a, <3>1, StaleUnmoved DEF StaleInv
  <2>. QED
    BY <1>6, <2>1, <2>2 DEF CloseNext
<1>7. CASE UNCHANGED vars
  BY <1>7 DEF StaleInv, Fresh, FreshBlock
<1>. QED
  BY <1>1, <1>2, <1>3, <1>4, <1>5, <1>6, <1>7 DEF Next

\* Once hello() or stop() has returned no byte of before is given out, wherever it was when the
\* reset came: in the UART, in the reader's block, in the queue or in the caller's hands.
THEOREM NothingStaleGivenOut == Spec => []NothingStale
<1>1. StaleInv => NothingStale
  BY DEF StaleInv, NothingStale
<1>. QED
  BY <1>1, TypeInit, TypeStep, StaleInit, StaleStep, PTL DEF Spec

-----------------------------------------------------------------------------
(* The bytes of sequences of items or blocks: which they are and in what order. *)

Carriers(X) == \A a \in X : a.bytes \in Seq(Nat)

LEMMA InNums == \A s, x : x \in NumsIn(s) <=> \E i \in 1 .. Len(s) : x \in Nums(s[i])
BY DEF NumsIn

LEMMA NumsNone == NumsIn(<<>>) = {} /\ Rising(<<>>)
BY DEF NumsIn, Rising

\* One more item at the end.
LEMMA OrderAppend ==
    ASSUME NEW X, NEW s \in Seq(X), NEW a \in X
    PROVE  /\ NumsIn(Append(s, a)) = NumsIn(s) \cup Nums(a)
           /\ Rising(s) /\ Ascending(a.bytes) /\ Below(NumsIn(s), Nums(a)) => Rising(Append(s, a))
<1> DEFINE t == Append(s, a)
<1>1. /\ Len(t) = Len(s) + 1 /\ Len(s) \in Nat
      /\ t[Len(s) + 1] = a
      /\ \A i \in 1 .. Len(s) : t[i] = s[i]
  OBVIOUS
<1> HIDE DEF t
<1>2. \A x : x \in NumsIn(t) <=> x \in NumsIn(s) \cup Nums(a)
  <2> TAKE x
  <2>1. ASSUME x \in NumsIn(t) PROVE x \in NumsIn(s) \cup Nums(a)
    <3>1. PICK i \in 1 .. Len(t) : x \in Nums(t[i])
      BY <2>1, InNums
    <3>2. CASE i = Len(s) + 1
      BY <1>1, <3>1, <3>2
    <3>3. CASE i # Len(s) + 1
      <4>1. i \in 1 .. Len(s)
        BY <1>1, <3>3
      <4> QED BY <1>1, <3>1, <4>1, InNums
    <3> QED BY <3>2, <3>3
  <2>2. ASSUME x \in NumsIn(s) PROVE x \in NumsIn(t)
    <3>1. PICK i \in 1 .. Len(s) : x \in Nums(s[i])
      BY <2>2, InNums
    <3>2. i \in 1 .. Len(t) /\ x \in Nums(t[i])
      BY <1>1, <3>1
    <3> QED BY <3>2, InNums
  <2>3. ASSUME x \in Nums(a) PROVE x \in NumsIn(t)
    <3>1. Len(s) + 1 \in 1 .. Len(t) /\ x \in Nums(t[Len(s) + 1])
      BY <1>1, <2>3
    <3> QED BY <3>1, InNums
  <2> QED BY <2>1, <2>2, <2>3
<1>3. ASSUME Rising(s), Ascending(a.bytes), Below(NumsIn(s), Nums(a)) PROVE Rising(t)
  <2>1. ASSUME NEW i \in 1 .. Len(t) PROVE Ascending(t[i].bytes)
    <3>1. i \in 1 .. Len(s) \/ i = Len(s) + 1
      BY <1>1
    <3> QED BY <1>1, <1>3, <3>1 DEF Rising
  <2>2. ASSUME NEW i \in 1 .. Len(t), NEW j \in 1 .. Len(t), i < j
        PROVE  Below(Nums(t[i]), Nums(t[j]))
    <3>1. i \in 1 .. Len(s)
      BY <1>1, <2>2
    <3>2. CASE j = Len(s) + 1
      <4>1. \A x \in Nums(t[i]) : x \in NumsIn(s)
        BY <1>1, <3>1, InNums
      <4> QED BY <1>1, <1>3, <3>2, <4>1 DEF Below
    <3>3. CASE j # Len(s) + 1
      <4>1. j \in 1 .. Len(s)
        BY <1>1, <3>3
      <4> QED BY <1>1, <1>3, <2>2, <3>1, <4>1 DEF Rising
    <3> QED BY <3>2, <3>3
  <2> QED BY <2>1, <2>2 DEF Rising
<1> QED BY <1>2, <1>3 DEF t

\* The first item, and the rest.
LEMMA OrderFirst ==
    ASSUME NEW X, NEW a \in X, NEW r \in Seq(X), NEW s \in Seq(X),
           Len(s) = Len(r) + 1, s[1] = a, \A i \in 1 .. Len(r) : s[i + 1] = r[i]
    PROVE  /\ NumsIn(s) = Nums(a) \cup NumsIn(r)
           /\ Rising(s) <=> Rising(r) /\ Ascending(a.bytes) /\ Below(Nums(a), NumsIn(r))
<1>1. /\ Len(r) \in Nat /\ 1 \in 1 .. Len(s)
      /\ \A i \in 1 .. Len(r) : i + 1 \in 1 .. Len(s)
      /\ \A i \in 1 .. Len(s) : i = 1 \/ (i - 1 \in 1 .. Len(r) /\ s[i] = r[i - 1])
  <2>1. Len(r) \in Nat
    OBVIOUS
  <2>2. ASSUME NEW i \in 1 .. Len(s), i # 1 PROVE i - 1 \in 1 .. Len(r) /\ s[i] = r[i - 1]
    <3>1. i - 1 \in 1 .. Len(r) /\ (i - 1) + 1 = i
      BY <2>1, <2>2
    <3> QED BY <3>1
  <2> QED BY <2>1, <2>2
<1>2. \A x : x \in NumsIn(s) <=> x \in Nums(a) \cup NumsIn(r)
  <2> TAKE x
  <2>1. ASSUME x \in NumsIn(s) PROVE x \in Nums(a) \cup NumsIn(r)
    <3>1. PICK i \in 1 .. Len(s) : x \in Nums(s[i])
      BY <2>1, InNums
    <3>2. CASE i = 1
      BY <3>1, <3>2
    <3>3. CASE i # 1
      BY <1>1, <3>1, <3>3, InNums
    <3> QED BY <3>2, <3>3
  <2>2. ASSUME x \in NumsIn(r) PROVE x \in NumsIn(s)
    <3>1. PICK i \in 1 .. Len(r) : x \in Nums(r[i])
      BY <2>2, InNums
    <3>2. i + 1 \in 1 .. Len(s) /\ x \in Nums(s[i + 1])
      BY <1>1, <3>1
    <3> QED BY <3>2, InNums
  <2>3. ASSUME x \in Nums(a) PROVE x \in NumsIn(s)
    BY <1>1, <2>3, InNums
  <2> QED BY <2>1, <2>2, <2>3
<1>3. ASSUME Rising(s) PROVE Rising(r) /\ Ascending(a.bytes) /\ Below(Nums(a), NumsIn(r))
  <2>1. \A i \in 1 .. Len(r) : Ascending(r[i].bytes)
    <3> TAKE i \in 1 .. Len(r)
    <3>1. i + 1 \in 1 .. Len(s) /\ s[i + 1] = r[i]
      BY <1>1
    <3> QED BY <1>3, <3>1 DEF Rising
  <2>2. ASSUME NEW i \in 1 .. Len(r), NEW j \in 1 .. Len(r), i < j
        PROVE  Below(Nums(r[i]), Nums(r[j]))
    <3>1. /\ i + 1 \in 1 .. Len(s) /\ s[i + 1] = r[i]
          /\ j + 1 \in 1 .. Len(s) /\ s[j + 1] = r[j]
          /\ i + 1 < j + 1
      BY <1>1, <2>2
    <3> QED BY <1>3, <3>1 DEF Rising
  <2>3. Ascending(a.bytes)
    BY <1>1, <1>3 DEF Rising
  <2>4. ASSUME NEW x \in Nums(a), NEW y \in NumsIn(r) PROVE x < y
    <3>1. PICK j \in 1 .. Len(r) : y \in Nums(r[j])
      BY InNums
    <3>2. j + 1 \in 1 .. Len(s) /\ s[j + 1] = r[j] /\ 1 < j + 1
      BY <1>1
    <3>3. Below(Nums(s[1]), Nums(s[j + 1]))
      BY <1>1, <1>3, <3>2 DEF Rising
    <3> QED BY <3>1, <3>2, <3>3 DEF Below
  <2> QED BY <2>1, <2>2, <2>3, <2>4 DEF Rising, Below
<1>4. ASSUME Rising(r), Ascending(a.bytes), Below(Nums(a), NumsIn(r)) PROVE Rising(s)
  <2>1. ASSUME NEW i \in 1 .. Len(s) PROVE Ascending(s[i].bytes)
    BY <1>1, <1>4 DEF Rising
  <2>2. ASSUME NEW i \in 1 .. Len(s), NEW j \in 1 .. Len(s), i < j
        PROVE  Below(Nums(s[i]), Nums(s[j]))
    <3>1. j # 1 /\ j - 1 \in 1 .. Len(r) /\ s[j] = r[j - 1]
      BY <1>1, <2>2
    <3>2. CASE i = 1
      <4>1. \A y \in Nums(s[j]) : y \in NumsIn(r)
        BY <3>1, InNums
      <4> QED BY <1>4, <3>2, <4>1 DEF Below
    <3>3. CASE i # 1
      <4>1. i - 1 \in 1 .. Len(r) /\ s[i] = r[i - 1] /\ i - 1 < j - 1
        BY <1>1, <2>2, <3>1, <3>3
      <4> QED BY <1>4, <3>1, <4>1 DEF Rising
    <3> QED BY <3>2, <3>3
  <2> QED BY <2>1, <2>2 DEF Rising
<1> QED BY <1>2, <1>3, <1>4

LEMMA OrderTail ==
    ASSUME NEW X, NEW s \in Seq(X), s # <<>>
    PROVE  /\ NumsIn(s) = Nums(Head(s)) \cup NumsIn(Tail(s))
           /\ Rising(s) => /\ Rising(Tail(s))
                           /\ Ascending(Head(s).bytes)
                           /\ Below(Nums(Head(s)), NumsIn(Tail(s)))
<1>1. /\ Head(s) \in X /\ Tail(s) \in Seq(X) /\ Len(s) = Len(Tail(s)) + 1 /\ s[1] = Head(s)
      /\ \A i \in 1 .. Len(Tail(s)) : s[i + 1] = Tail(s)[i]
  OBVIOUS
<1> DEFINE a == Head(s)
           r == Tail(s)
<1>2. a \in X /\ r \in Seq(X) /\ Len(s) = Len(r) + 1 /\ s[1] = a
      /\ \A i \in 1 .. Len(r) : s[i + 1] = r[i]
  BY <1>1
<1> HIDE DEF a, r
<1>3. /\ NumsIn(s) = Nums(a) \cup NumsIn(r)
      /\ Rising(s) <=> Rising(r) /\ Ascending(a.bytes) /\ Below(Nums(a), NumsIn(r))
  BY <1>2, OrderFirst
<1> QED BY <1>3 DEF a, r

LEMMA OrderPut ==
    ASSUME NEW X, NEW s \in Seq(X), NEW a \in X
    PROVE  /\ NumsIn(<<a>> \o s) = Nums(a) \cup NumsIn(s)
           /\ Rising(s) /\ Ascending(a.bytes) /\ Below(Nums(a), NumsIn(s)) => Rising(<<a>> \o s)
<1> DEFINE t == <<a>> \o s
<1>1. t \in Seq(X) /\ Len(t) = Len(s) + 1 /\ t[1] = a
      /\ \A i \in 1 .. Len(s) : t[i + 1] = s[i]
  OBVIOUS
<1> HIDE DEF t
<1>2. /\ NumsIn(t) = Nums(a) \cup NumsIn(s)
      /\ Rising(t) <=> Rising(s) /\ Ascending(a.bytes) /\ Below(Nums(a), NumsIn(s))
  BY <1>1, OrderFirst
<1> QED BY <1>2 DEF t

LEMMA OrderOne ==
    ASSUME NEW a
    PROVE  /\ NumsIn(<<a>>) = Nums(a)
           /\ Rising(<<a>>) <=> Ascending(a.bytes)
<1>1. NumsIn(<<a>>) = Nums(a)
  <2>1. \A x : x \in NumsIn(<<a>>) <=> x \in Nums(a)
    BY InNums
  <2> QED BY <2>1
<1>2. Rising(<<a>>) <=> Ascending(a.bytes)
  BY DEF Rising
<1> QED BY <1>1, <1>2

-----------------------------------------------------------------------------
(* How many bytes they have. *)

LEMMA ItemsCarry == Carriers(Items) /\ Carriers(Blocks)
BY DEF Carriers, Items, Blocks

LEMMA BytesNone == BytesOf(<<>>) = 0 /\ ToldOf(<<>>) = 0
<1>1. [i \in 1 .. 0 |-> Len(<<>>[i].bytes)] \in [1 .. 0 -> Int]
  OBVIOUS
<1>2. [i \in 1 .. 0 |-> IF <<>>[i].kind = "overflow" THEN <<>>[i].n ELSE 0] \in [1 .. 0 -> Int]
  OBVIOUS
<1>3. Len(<<>>) = 0
  OBVIOUS
<1> QED BY <1>1, <1>2, <1>3, TotalZero DEF BytesOf, ToldOf

LEMMA BytesInt ==
    ASSUME NEW X, Carriers(X), NEW s \in Seq(X)
    PROVE  /\ BytesOf(s) \in Int
           /\ [i \in 1 .. Len(s) |-> Len(s[i].bytes)] \in [1 .. Len(s) -> Int]
<1> DEFINE f == [i \in 1 .. Len(s) |-> Len(s[i].bytes)]
<1>1. \A i \in 1 .. Len(s) : s[i].bytes \in Seq(Nat)
  BY DEF Carriers
<1>2. \A i \in 1 .. Len(s) : Len(s[i].bytes) \in Int
  BY <1>1
<1>3. f \in [1 .. Len(s) -> Int] /\ Len(s) \in Nat
  BY <1>2
<1> HIDE DEF f
<1>4. Total(f, Len(s)) \in Int
  BY <1>3, TotalInt
<1> QED BY <1>3, <1>4 DEF f, BytesOf

LEMMA BytesAppend ==
    ASSUME NEW X, Carriers(X), NEW s \in Seq(X), NEW a \in X
    PROVE  BytesOf(Append(s, a)) = BytesOf(s) + Len(a.bytes)
<1> DEFINE t == Append(s, a)
<1> DEFINE f == [i \in 1 .. Len(t) |-> Len(t[i].bytes)]
<1> DEFINE g == [i \in 1 .. Len(s) |-> Len(s[i].bytes)]
<1>1. /\ t \in Seq(X) /\ Len(t) = Len(s) + 1 /\ Len(s) \in Nat
      /\ t[Len(s) + 1] = a
      /\ \A i \in 1 .. Len(s) : t[i] = s[i] /\ i \in 1 .. Len(t)
  OBVIOUS
<1>2. f \in [1 .. Len(t) -> Int] /\ g \in [1 .. Len(s) -> Int]
  BY <1>1, BytesInt
<1>3. \A i \in 1 .. Len(s) : f[i] = g[i]
  BY <1>1
<1>4. f[Len(s) + 1] = Len(a.bytes)
  BY <1>1
<1>5. BytesOf(t) = Total(f, Len(s) + 1) /\ BytesOf(s) = Total(g, Len(s))
  BY <1>1 DEF BytesOf
<1> HIDE DEF f, g
<1>6. Total(f, Len(s) + 1) = Total(g, Len(s)) + f[Len(s) + 1]
  BY <1>1, <1>2, <1>3, TotalNext
<1> QED BY <1>4, <1>5, <1>6

LEMMA BytesFirst ==
    ASSUME NEW X, Carriers(X), NEW a \in X, NEW r \in Seq(X), NEW s \in Seq(X),
           Len(s) = Len(r) + 1, s[1] = a, \A i \in 1 .. Len(r) : s[i + 1] = r[i]
    PROVE  BytesOf(s) = Len(a.bytes) + BytesOf(r)
<1> DEFINE f == [i \in 1 .. Len(s) |-> Len(s[i].bytes)]
<1> DEFINE g == [i \in 1 .. Len(r) |-> Len(r[i].bytes)]
<1>1. Len(r) \in Nat /\ 1 \in 1 .. Len(s) /\ \A i \in 1 .. Len(r) : i + 1 \in 1 .. Len(s)
  OBVIOUS
<1>2. f \in [1 .. Len(r) + 1 -> Int] /\ g \in [1 .. Len(r) -> Int]
  BY BytesInt
<1>3. \A i \in 1 .. Len(r) : g[i] = f[i + 1]
  BY <1>1
<1>4. f[1] = Len(a.bytes)
  BY <1>1
<1>5. BytesOf(s) = Total(f, Len(r) + 1) /\ BytesOf(r) = Total(g, Len(r))
  BY DEF BytesOf
<1> HIDE DEF f, g
<1>6. Total(f, Len(r) + 1) = f[1] + Total(g, Len(r))
  BY <1>1, <1>2, <1>3, TotalFirst
<1> QED BY <1>4, <1>5, <1>6

LEMMA BytesTail ==
    ASSUME NEW X, Carriers(X), NEW s \in Seq(X), s # <<>>
    PROVE  BytesOf(s) = Len(Head(s).bytes) + BytesOf(Tail(s))
<1>1. /\ Head(s) \in X /\ Tail(s) \in Seq(X) /\ Len(s) = Len(Tail(s)) + 1 /\ s[1] = Head(s)
      /\ \A i \in 1 .. Len(Tail(s)) : s[i + 1] = Tail(s)[i]
  OBVIOUS
<1> QED BY <1>1, BytesFirst

LEMMA BytesPut ==
    ASSUME NEW X, Carriers(X), NEW s \in Seq(X), NEW a \in X
    PROVE  BytesOf(<<a>> \o s) = Len(a.bytes) + BytesOf(s)
<1> DEFINE t == <<a>> \o s
<1>1. t \in Seq(X) /\ Len(t) = Len(s) + 1 /\ t[1] = a
      /\ \A i \in 1 .. Len(s) : t[i + 1] = s[i]
  OBVIOUS
<1> HIDE DEF t
<1>2. BytesOf(t) = Len(a.bytes) + BytesOf(s)
  BY <1>1, BytesFirst
<1> QED BY <1>2 DEF t

LEMMA BytesOne ==
    ASSUME NEW X, Carriers(X), NEW a \in X
    PROVE  BytesOf(<<a>>) = Len(a.bytes) /\ Len(a.bytes) \in Nat
<1>1. <<>> \in Seq(X) /\ <<a>> = Append(<<>>, a)
  OBVIOUS
<1>2. a.bytes \in Seq(Nat)
  BY DEF Carriers
<1>3. BytesOf(<<a>>) = BytesOf(<<>>) + Len(a.bytes)
  BY <1>1, BytesAppend
<1>4. Len(a.bytes) \in Nat
  BY <1>2
<1> QED BY <1>3, <1>4, BytesNone

\* What the items announce.
LEMMA ToldAppend ==
    ASSUME NEW s \in Seq(Items), NEW a \in Items
    PROVE  /\ ToldOf(Append(s, a)) = ToldOf(s) + IF a.kind = "overflow" THEN a.n ELSE 0
           /\ ToldOf(s) \in Int
<1> DEFINE t == Append(s, a)
<1> DEFINE f == [i \in 1 .. Len(t) |-> IF t[i].kind = "overflow" THEN t[i].n ELSE 0]
<1> DEFINE g == [i \in 1 .. Len(s) |-> IF s[i].kind = "overflow" THEN s[i].n ELSE 0]
<1>1. /\ t \in Seq(Items) /\ Len(t) = Len(s) + 1 /\ Len(s) \in Nat
      /\ t[Len(s) + 1] = a
      /\ \A i \in 1 .. Len(s) : t[i] = s[i] /\ i \in 1 .. Len(t)
  OBVIOUS
<1>2. f \in [1 .. Len(t) -> Int] /\ g \in [1 .. Len(s) -> Int]
  <2>1. \A c \in Items : c.n \in Int
    BY DEF Items
  <2>2. \A i \in 1 .. Len(t) : t[i] \in Items
    BY <1>1
  <2>3. \A i \in 1 .. Len(s) : s[i] \in Items
    OBVIOUS
  <2>4. /\ \A i \in 1 .. Len(t) : t[i].n \in Int
        /\ \A i \in 1 .. Len(s) : s[i].n \in Int
    BY <2>1, <2>2, <2>3
  <2> HIDE DEF t
  <2> QED BY <2>4
<1>3. \A i \in 1 .. Len(s) : f[i] = g[i]
  BY <1>1
<1>4. f[Len(s) + 1] = IF a.kind = "overflow" THEN a.n ELSE 0
  BY <1>1
<1>5. ToldOf(t) = Total(f, Len(s) + 1) /\ ToldOf(s) = Total(g, Len(s))
  BY <1>1 DEF ToldOf
<1> HIDE DEF f, g
<1>6. Total(f, Len(s) + 1) = Total(g, Len(s)) + f[Len(s) + 1] /\ Total(g, Len(s)) \in Int
  BY <1>1, <1>2, <1>3, TotalNext
<1> QED BY <1>4, <1>5, <1>6

-----------------------------------------------------------------------------
(* Bytes in order, and none that is not accounted for. *)

ByteNums(bytes) == {bytes[k] : k \in 1 .. Len(bytes)}

LEMMA NumsAre == \A b : Nums(b) = ByteNums(b.bytes)
BY DEF Nums, ByteNums

LEMMA JoinOrder ==
    ASSUME NEW q \in Seq(Nat), NEW r \in Seq(Nat)
    PROVE  /\ ByteNums(q \o r) = ByteNums(q) \cup ByteNums(r)
           /\ Ascending(q) /\ Ascending(r) /\ Below(ByteNums(q), ByteNums(r)) => Ascending(q \o r)
<1> DEFINE t == q \o r
<1>1. /\ Len(q) \in Nat /\ Len(r) \in Nat /\ Len(t) = Len(q) + Len(r)
      /\ \A k \in 1 .. Len(q) : t[k] = q[k] /\ k \in 1 .. Len(t)
      /\ \A k \in 1 .. Len(r) : t[k + Len(q)] = r[k] /\ k + Len(q) \in 1 .. Len(t)
  <2>1. /\ Len(q) \in Nat /\ Len(r) \in Nat /\ Len(t) = Len(q) + Len(r)
        /\ \A k \in 1 .. Len(q) : t[k] = q[k]
        /\ \A k \in 1 .. Len(r) : t[k + Len(q)] = r[k]
    BY JoinSeq, JoinItems
  <2> HIDE DEF t
  <2> QED BY <2>1
<1> HIDE DEF t
<1>2. \A k \in 1 .. Len(t) : k \in 1 .. Len(q) \/ \E l \in 1 .. Len(r) : k = l + Len(q)
  <2> TAKE k \in 1 .. Len(t)
  <2>1. k \in 1 .. Len(q) + Len(r)
    BY <1>1
  <2> QED BY <1>1, <2>1, JoinIndex, Zenon
<1>3. \A x : x \in ByteNums(t) <=> x \in ByteNums(q) \cup ByteNums(r)
  <2> TAKE x
  <2>1. ASSUME x \in ByteNums(t) PROVE x \in ByteNums(q) \cup ByteNums(r)
    <3>1. PICK k \in 1 .. Len(t) : x = t[k]
      BY <2>1 DEF ByteNums
    <3>2. CASE k \in 1 .. Len(q)
      BY <1>1, <3>1, <3>2 DEF ByteNums
    <3>3. CASE k \notin 1 .. Len(q)
      <4>1. PICK l \in 1 .. Len(r) : k = l + Len(q)
        BY <1>2, <3>3
      <4> QED BY <1>1, <3>1, <4>1 DEF ByteNums
    <3> QED BY <3>2, <3>3
  <2>2. ASSUME x \in ByteNums(q) PROVE x \in ByteNums(t)
    BY <1>1, <2>2 DEF ByteNums
  <2>3. ASSUME x \in ByteNums(r) PROVE x \in ByteNums(t)
    BY <1>1, <2>3 DEF ByteNums
  <2> QED BY <2>1, <2>2, <2>3
<1>4. ASSUME Ascending(q), Ascending(r), Below(ByteNums(q), ByteNums(r)),
             NEW k \in 1 .. Len(t), NEW l \in 1 .. Len(t), k < l
      PROVE  t[k] < t[l]
  <2>1. CASE k \in 1 .. Len(q) /\ l \in 1 .. Len(q)
    BY <1>1, <1>4, <2>1 DEF Ascending
  <2>2. CASE k \in 1 .. Len(q) /\ l \notin 1 .. Len(q)
    <3>1. PICK j \in 1 .. Len(r) : l = j + Len(q)
      BY <1>2, <2>2
    <3>2. t[k] \in ByteNums(q) /\ t[l] \in ByteNums(r)
      BY <1>1, <2>2, <3>1 DEF ByteNums
    <3> QED BY <1>4, <3>2 DEF Below
  <2>3. CASE k \notin 1 .. Len(q)
    <3>1. PICK i \in 1 .. Len(r) : k = i + Len(q)
      BY <1>2, <2>3
    <3>2. l \notin 1 .. Len(q)
      BY <1>1, <1>4, <2>3
    <3>3. PICK j \in 1 .. Len(r) : l = j + Len(q)
      BY <1>2, <3>2
    <3>4. i < j
      BY <1>1, <1>4, <3>1, <3>3
    <3>5. t[k] = r[i] /\ t[l] = r[j]
      BY <1>1, <3>1, <3>3
    <3> QED BY <1>4, <3>4, <3>5 DEF Ascending
  <2> QED BY <2>1, <2>2, <2>3
<1>5. Ascending(q) /\ Ascending(r) /\ Below(ByteNums(q), ByteNums(r)) => Ascending(t)
  BY <1>4 DEF Ascending
<1> QED BY <1>3, <1>5 DEF t

LEMMA SplitOrder ==
    ASSUME NEW q \in Seq(Nat), NEW n \in 0 .. Len(q)
    PROVE  /\ ByteNums(q) = ByteNums(SubSeq(q, 1, n)) \cup ByteNums(SubSeq(q, n + 1, Len(q)))
           /\ Ascending(q) => /\ Ascending(SubSeq(q, 1, n))
                              /\ Ascending(SubSeq(q, n + 1, Len(q)))
                              /\ Below(ByteNums(SubSeq(q, 1, n)),
                                       ByteNums(SubSeq(q, n + 1, Len(q))))
<1> DEFINE a == SubSeq(q, 1, n)
<1> DEFINE b == SubSeq(q, n + 1, Len(q))
<1>1. /\ Len(q) \in Nat /\ n \in Nat /\ n <= Len(q)
      /\ Len(a) = n /\ Len(b) = Len(q) - n
      /\ \A k \in 1 .. n : a[k] = q[k]
      /\ \A k \in 1 .. Len(q) - n : b[k] = q[k + n]
  BY SplitSeq
<1> HIDE DEF a, b
<1>2. \A x : x \in ByteNums(q) <=> x \in ByteNums(a) \cup ByteNums(b)
  <2> TAKE x
  <2>1. ASSUME x \in ByteNums(q) PROVE x \in ByteNums(a) \cup ByteNums(b)
    <3>1. PICK k \in 1 .. Len(q) : x = q[k]
      BY <2>1 DEF ByteNums
    <3>2. CASE k <= n
      BY <1>1, <3>1, <3>2 DEF ByteNums
    <3>3. CASE ~(k <= n)
      <4>1. k - n \in 1 .. Len(q) - n /\ b[k - n] = x
        <5>1. k - n \in 1 .. Len(q) - n /\ (k - n) + n = k
          BY <1>1, <3>3
        <5> QED BY <1>1, <3>1, <5>1
      <4> QED BY <1>1, <4>1 DEF ByteNums
    <3> QED BY <3>2, <3>3
  <2>2. ASSUME x \in ByteNums(a) PROVE x \in ByteNums(q)
    <3>1. PICK k \in 1 .. n : x = a[k]
      BY <1>1, <2>2 DEF ByteNums
    <3>2. k \in 1 .. Len(q)
      BY <1>1
    <3> QED BY <1>1, <3>1, <3>2 DEF ByteNums
  <2>3. ASSUME x \in ByteNums(b) PROVE x \in ByteNums(q)
    <3>1. PICK k \in 1 .. Len(q) - n : x = b[k]
      BY <1>1, <2>3 DEF ByteNums
    <3>2. k + n \in 1 .. Len(q)
      BY <1>1
    <3> QED BY <1>1, <3>1, <3>2 DEF ByteNums
  <2> QED BY <2>1, <2>2, <2>3
<1>3. ASSUME Ascending(q) PROVE Ascending(a) /\ Ascending(b) /\ Below(ByteNums(a), ByteNums(b))
  <2>1. Ascending(a)
    <3>1. ASSUME NEW k \in 1 .. Len(a), NEW l \in 1 .. Len(a), k < l PROVE a[k] < a[l]
      <4>1. k \in 1 .. Len(q) /\ l \in 1 .. Len(q) /\ a[k] = q[k] /\ a[l] = q[l]
        BY <1>1
      <4> QED BY <1>3, <3>1, <4>1 DEF Ascending
    <3> QED BY <3>1 DEF Ascending
  <2>2. ASSUME NEW k \in 1 .. Len(b), NEW l \in 1 .. Len(b), k < l PROVE b[k] < b[l]
    <3>1. k + n \in 1 .. Len(q) /\ l + n \in 1 .. Len(q) /\ k + n < l + n
      BY <1>1, <2>2
    <3> QED BY <1>1, <1>3, <3>1 DEF Ascending
  <2>3. ASSUME NEW x \in ByteNums(a), NEW y \in ByteNums(b) PROVE x < y
    <3>1. PICK k \in 1 .. n : x = q[k]
      BY <1>1 DEF ByteNums
    <3>4. PICK l \in 1 .. Len(b) : y = b[l]
      BY DEF ByteNums
    <3>2. l \in 1 .. Len(q) - n /\ y = q[l + n]
      BY <1>1, <3>4
    <3>3. k \in 1 .. Len(q) /\ l + n \in 1 .. Len(q) /\ k < l + n
      BY <1>1
    <3> QED BY <1>3, <3>1, <3>2, <3>3 DEF Ascending
  <2> QED BY <2>1, <2>2, <2>3 DEF Ascending, Below
<1> QED BY <1>2, <1>3 DEF a, b

-----------------------------------------------------------------------------
(* The bytes on their way from the device to the caller. *)

\* Those given out, those of the block taken, of the queue, of the reader's block and of the UART
\* follow each other, and the device has sent them.
Line(G, T, Q, O, U, n) ==
    /\ Below(G, T \cup Q \cup O \cup U)
    /\ Below(T, Q \cup O \cup U)
    /\ Below(Q, O \cup U)
    /\ Below(O, U)
    /\ \A x \in G \cup T \cup Q \cup O \cup U : x \in Nat /\ x < n

LEMMA LineSent ==
    ASSUME NEW G, NEW T, NEW Q, NEW O, NEW U, NEW n \in Nat, Line(G, T, Q, O, U, n)
    PROVE  Line(G, T, Q, O, U \cup {n}, n + 1)
<1>1. Below(G, T \cup Q \cup O \cup (U \cup {n}))
  BY DEF Line, Below
<1>2. Below(T, Q \cup O \cup (U \cup {n}))
  BY DEF Line, Below
<1>3. Below(Q, O \cup (U \cup {n}))
  BY DEF Line, Below
<1>4. Below(O, U \cup {n})
  BY DEF Line, Below
<1>5. \A x \in G \cup T \cup Q \cup O \cup (U \cup {n}) : x \in Nat /\ x < n + 1
  <2>1. \A x \in Nat : x < n => x < n + 1
    OBVIOUS
  <2>2. n < n + 1
    OBVIOUS
  <2> QED BY <2>1, <2>2 DEF Line
<1> QED BY <1>1, <1>2, <1>3, <1>4, <1>5 DEF Line

LEMMA LineRead ==
    ASSUME NEW G, NEW T, NEW Q, NEW O, NEW A, NEW B, NEW n \in Nat,
           Line(G, T, Q, O, A \cup B, n), Below(A, B)
    PROVE  Line(G, T, Q, O \cup A, B, n)
BY DEF Line, Below

LEMMA LineLess ==
    ASSUME NEW G, NEW T, NEW Q, NEW O, NEW U, NEW n \in Nat, Line(G, T, Q, O, U, n),
           NEW P \in SUBSET O, NEW V \in SUBSET U
    PROVE  Line(G, T, Q, P, V, n)
BY DEF Line, Below

LEMMA LineQueue ==
    ASSUME NEW G, NEW T, NEW Q, NEW O, NEW U, NEW n \in Nat, Line(G, T, Q, O, U, n)
    PROVE  Line(G, T, Q \cup O, {}, U, n)
BY DEF Line, Below

LEMMA LineTake ==
    ASSUME NEW G, NEW A, NEW R, NEW O, NEW U, NEW n \in Nat,
           Line(G, {}, A \cup R, O, U, n), Below(A, R)
    PROVE  Line(G, A, R, O, U, n)
BY DEF Line, Below

LEMMA LinePut ==
    ASSUME NEW G, NEW A, NEW R, NEW O, NEW U, NEW n \in Nat, Line(G, A, R, O, U, n)
    PROVE  Line(G, {}, A \cup R, O, U, n)
BY DEF Line, Below

LEMMA LineGive ==
    ASSUME NEW G, NEW A, NEW Q, NEW O, NEW U, NEW n \in Nat, Line(G, A, Q, O, U, n)
    PROVE  Line(G \cup A, {}, Q, O, U, n)
BY DEF Line, Below

\* next_item() has taken something from the shared state only while local_read() tells of it.
OnlyTelling == cpc # "tell" => got = <<>> /\ gotDropped = 0

\* A block is of an epoch there has been.
EpochPast == block # <<>> => block[1].epoch <= epoch

\* OnceInOrder with what makes it inductive: the UART's bytes come after all the others, and the
\* block taken has its place in the queue kept for it.
FlowInv ==
    /\ Rising(given) /\ Rising(got) /\ Rising(queue) /\ Rising(Open) /\ Ascending(uart)
    /\ Line(NumsIn(given), NumsIn(got), NumsIn(queue), NumsIn(Open), ByteNums(uart), sent)
    /\ Accounted
    /\ queued = BytesOf(queue)
    /\ queued + BlockLen(got) <= QueueMax + BlockSize
    /\ OnlyTelling
    /\ EpochPast

LEMMA FlowTypes ==
    ASSUME TypeInv
    PROVE  /\ sent \in Nat /\ queued \in Int /\ dropped \in Nat /\ gotDropped \in Nat
           /\ epoch \in Nat /\ readIn \in Nat
           /\ uart \in Seq(Nat) /\ given \in Seq(Items) /\ queue \in Seq(Blocks)
           /\ got \in Seq(Blocks) /\ Len(got) <= 1
           /\ block \in Seq(Blocks) /\ Len(block) <= 1
           /\ Open \in Seq(Blocks) /\ Len(Open) <= 1
           /\ block # <<>> => /\ block = <<block[1]>> /\ block[1] \in Blocks
                              /\ block[1].bytes \in Seq(Nat) /\ block[1].epoch \in Nat
           /\ got # <<>> => /\ got = <<got[1]>> /\ got[1] \in Blocks
                            /\ got[1].bytes \in Seq(Nat)
<1>1. /\ sent \in Nat /\ queued \in Int /\ dropped \in Nat /\ gotDropped \in Nat
      /\ epoch \in Nat /\ readIn \in Nat
      /\ uart \in Seq(Nat) /\ given \in Seq(Items) /\ queue \in Seq(Blocks)
      /\ got \in Seq(Blocks) /\ Len(got) <= 1
      /\ block \in Seq(Blocks) /\ Len(block) <= 1
  BY DEF TypeInv, TypeOK, CountsType, SeqsType
<1>2. Open \in Seq(Blocks) /\ Len(Open) <= 1
  <2>1. <<>> \in Seq(Blocks) /\ Len(<<>>) <= 1
    OBVIOUS
  <2> QED BY <1>1, <2>1 DEF Open
<1>3. ASSUME NEW b \in Seq(Blocks), Len(b) <= 1, b # <<>>
      PROVE  b = <<b[1]>> /\ b[1] \in Blocks /\ b[1].bytes \in Seq(Nat) /\ b[1].epoch \in Nat
  <2>1. Len(b) = 1 /\ b[1] \in Blocks
    BY <1>3, OneBlock
  <2>2. b = <<b[1]>>
    BY <2>1
  <2> QED BY <2>1, <2>2 DEF Blocks
<1> QED BY <1>1, <1>2, <1>3

LEMMA FlowNumbers ==
    ASSUME TypeInv
    PROVE  /\ BytesOf(given) \in Int /\ ToldOf(given) \in Int /\ BytesOf(got) \in Int
           /\ BytesOf(queue) \in Int /\ BytesOf(Open) \in Int
<1>1. /\ given \in Seq(Items) /\ queue \in Seq(Blocks) /\ got \in Seq(Blocks)
      /\ Open \in Seq(Blocks)
  BY FlowTypes
<1>2. Overflow(0) \in Items
  BY ItemTypes
<1>3. ToldOf(given) \in Int
  BY <1>1, <1>2, ToldAppend
<1> QED BY <1>1, <1>3, BytesInt, ItemsCarry

\* The numbers that are accounted for.
LEMMA FlowCounts ==
    ASSUME TypeInv
    PROVE  /\ BytesOf(given) \in Int /\ ToldOf(given) \in Int /\ BytesOf(got) \in Int
           /\ BytesOf(queue) \in Int /\ BytesOf(Open) \in Int
           /\ dropped \in Int /\ gotDropped \in Int /\ readIn \in Int
<1>1. dropped \in Nat /\ gotDropped \in Nat /\ readIn \in Nat
  BY FlowTypes
<1> QED BY <1>1, FlowNumbers

LEMMA AccountedIs ==
    Accounted <=> readIn = BytesOf(given) + ToldOf(given) + BytesOf(got) + BytesOf(queue)
                           + BytesOf(Open) + dropped + gotDropped
BY DEF Accounted, BytesTold, Announced

LEMMA OpenIs ==
    /\ block = <<>> \/ Stale(block[1]) => Open = <<>>
    /\ block # <<>> /\ ~Stale(block[1]) => Open = block
BY DEF Open

LEMMA FlowQuiet ==
    ASSUME FlowInv, OnlyTelling',
           UNCHANGED <<sent, uart, queue, queued, dropped, epoch, block, gotDropped, got, readIn,
                       given>>
    PROVE  FlowInv'
<1>1. Open' = Open
  BY DEF Open, Stale
<1>2. EpochPast'
  <2>1. EpochPast
    BY DEF FlowInv
  <2> QED BY <2>1 DEF EpochPast
<1>3. Accounted'
  BY <1>1 DEF FlowInv, Accounted, BytesTold, Announced
<1> QED BY <1>1, <1>2, <1>3 DEF FlowInv

LEMMA FlowSent ==
    ASSUME TypeInv, FlowInv, DeviceData
    PROVE  FlowInv'
<1>. USE DEF device, shared, reader, taken, told, marks, caller
<1>1. /\ uart' = Append(uart, sent) /\ sent' = sent + 1
      /\ UNCHANGED <<queue, queued, dropped, epoch, block, gotDropped, got, readIn, given, cpc>>
  BY DEF DeviceData
<1>2. sent \in Nat /\ uart \in Seq(Nat)
  BY FlowTypes
<1>3. /\ Rising(given) /\ Rising(got) /\ Rising(queue) /\ Rising(Open) /\ Ascending(uart)
      /\ Line(NumsIn(given), NumsIn(got), NumsIn(queue), NumsIn(Open), ByteNums(uart), sent)
      /\ OnlyTelling /\ EpochPast
  BY DEF FlowInv
<1>4. Open' = Open
  BY <1>1 DEF Open, Stale
<1>5. /\ Len(uart') = Len(uart) + 1 /\ Len(uart) \in Nat /\ uart'[Len(uart) + 1] = sent
      /\ \A k \in 1 .. Len(uart) : uart'[k] = uart[k] /\ uart[k] < sent
  <2>1. \A k \in 1 .. Len(uart) : uart[k] \in ByteNums(uart)
    BY DEF ByteNums
  <2>2. \A k \in 1 .. Len(uart) : uart[k] < sent
    BY <1>3, <2>1 DEF Line
  <2> QED BY <1>1, <1>2, <2>2
<1>6. ByteNums(uart') = ByteNums(uart) \cup {sent}
  <2>1. \A k \in 1 .. Len(uart') : k \in 1 .. Len(uart) \/ k = Len(uart) + 1
    BY <1>5
  <2>2. \A k \in 1 .. Len(uart) : k \in 1 .. Len(uart')
    BY <1>5
  <2>3. Len(uart) + 1 \in 1 .. Len(uart')
    BY <1>5
  <2>4. \A x : x \in ByteNums(uart') <=> x \in ByteNums(uart) \cup {sent}
    BY <1>5, <2>1, <2>2, <2>3 DEF ByteNums
  <2> QED BY <2>4
<1>7. Ascending(uart')
  <2>1. \A k, l \in 1 .. Len(uart') : k < l => k \in 1 .. Len(uart)
    BY <1>5
  <2>2. \A k \in 1 .. Len(uart') : k \in 1 .. Len(uart) \/ k = Len(uart) + 1
    BY <1>5
  <2> QED BY <1>3, <1>5, <2>1, <2>2 DEF Ascending
<1>8. Line(NumsIn(given'), NumsIn(got'), NumsIn(queue'), NumsIn(Open'), ByteNums(uart'), sent')
  BY <1>1, <1>2, <1>3, <1>4, <1>6, LineSent
<1>9. Accounted'
  BY <1>1, <1>4 DEF FlowInv, Accounted, BytesTold, Announced
<1>10. OnlyTelling' /\ EpochPast'
  BY <1>1, <1>3 DEF OnlyTelling, EpochPast
<1>11. queued' = BytesOf(queue') /\ queued' + BlockLen(got') <= QueueMax + BlockSize
  BY <1>1 DEF FlowInv
<1> QED BY <1>1, <1>3, <1>4, <1>7, <1>8, <1>9, <1>10, <1>11 DEF FlowInv

LEMMA FlowUart ==
    ASSUME TypeInv, FlowInv, FlushUart
    PROVE  FlowInv'
<1>. USE DEF device, shared, reader, taken, told, marks, caller
<1>1. /\ uart' = <<>> /\ cpc = "flush" /\ cpc' = "flushQueue"
      /\ UNCHANGED <<sent, queue, queued, dropped, epoch, block, gotDropped, got, readIn, given>>
  BY DEF FlushUart
<1>2. /\ Rising(given) /\ Rising(got) /\ Rising(queue) /\ Rising(Open)
      /\ Line(NumsIn(given), NumsIn(got), NumsIn(queue), NumsIn(Open), ByteNums(uart), sent)
      /\ OnlyTelling /\ EpochPast
  BY DEF FlowInv
<1>3. Open' = Open
  BY <1>1 DEF Open, Stale
<1>4. ByteNums(<<>>) = {} /\ Ascending(<<>>) /\ sent \in Nat
  BY FlowTypes DEF ByteNums, Ascending
<1>5. Line(NumsIn(given'), NumsIn(got'), NumsIn(queue'), NumsIn(Open'), ByteNums(uart'), sent')
  BY <1>1, <1>2, <1>3, <1>4, LineLess
<1>6. Accounted'
  BY <1>1, <1>3 DEF FlowInv, Accounted, BytesTold, Announced
<1>7. OnlyTelling' /\ EpochPast'
  BY <1>1, <1>2 DEF OnlyTelling, EpochPast
<1>8. queued' = BytesOf(queue') /\ queued' + BlockLen(got') <= QueueMax + BlockSize
  BY <1>1 DEF FlowInv
<1> QED BY <1>1, <1>2, <1>3, <1>4, <1>5, <1>6, <1>7, <1>8 DEF FlowInv

\* The reader's block has no bytes, or is of no use.
LEMMA FlowOpen ==
    ASSUME TypeInv, FlowInv, EpochPast', OnlyTelling',
           BytesOf(Open') = BytesOf(Open), NumsIn(Open') \in SUBSET NumsIn(Open), Rising(Open'),
           UNCHANGED <<sent, uart, queue, queued, dropped, gotDropped, got, readIn, given>>
    PROVE  FlowInv'
<1>1. sent \in Nat /\ ByteNums(uart) \in SUBSET ByteNums(uart)
  BY FlowTypes
<1>2. Line(NumsIn(given), NumsIn(got), NumsIn(queue), NumsIn(Open), ByteNums(uart), sent)
  BY DEF FlowInv
<1>3. Line(NumsIn(given), NumsIn(got), NumsIn(queue), NumsIn(Open'), ByteNums(uart), sent)
  BY <1>1, <1>2, LineLess
<1>4. Accounted'
  BY DEF FlowInv, Accounted, BytesTold, Announced
<1> QED BY <1>3, <1>4 DEF FlowInv

LEMMA FlowOpens ==
    ASSUME TypeInv, FlowInv, ReaderOpen
    PROVE  FlowInv'
<1>. USE DEF device, shared, reader, taken, told, marks, caller
<1>1. /\ block = <<>> /\ block' = <<Block(epoch, <<>>)>>
      /\ UNCHANGED <<sent, uart, queue, queued, dropped, epoch, gotDropped, got, readIn, given,
                     cpc>>
  BY DEF ReaderOpen
<1>2. Block(epoch, <<>>) \in Blocks /\ Block(epoch, <<>>).bytes = <<>>
      /\ Block(epoch, <<>>).epoch = epoch /\ block'[1] = Block(epoch, <<>>)
  BY <1>1, FlowTypes, BackendAssumption DEF Block, Blocks
<1>3. Open = <<>> /\ Open' = <<Block(epoch, <<>>)>>
  BY <1>1, <1>2 DEF Open, Stale
<1>4. BytesOf(Open') = BytesOf(Open)
  BY <1>2, <1>3, BytesNone, BytesOne, ItemsCarry
<1>5. NumsIn(Open') \in SUBSET NumsIn(Open) /\ Rising(Open')
  <2>1. Nums(Block(epoch, <<>>)) = {} /\ Ascending(Block(epoch, <<>>).bytes)
    BY <1>2 DEF Nums, Ascending
  <2> QED BY <1>3, <2>1, OrderOne
<1>6. OnlyTelling
  BY DEF FlowInv
<1>7. EpochPast' /\ OnlyTelling'
  BY <1>1, <1>2, <1>6, FlowTypes DEF EpochPast, OnlyTelling
<1> QED BY <1>1, <1>4, <1>5, <1>7, FlowOpen

LEMMA FlowRead ==
    ASSUME TypeInv, FlowInv, ReaderRead
    PROVE  FlowInv'
<1>. USE DEF device, shared, reader, taken, told, marks, caller
<1>1. PICK n \in 0 .. Len(uart) :
          /\ n <= Room(block)
          /\ n = 0 => uart = <<>>
          /\ uart' = SubSeq(uart, n + 1, Len(uart))
          /\ block' = IF n = 0 /\ BlockLen(block) = 0
                      THEN <<>>
                      ELSE <<[block[1] EXCEPT !.bytes = @ \o SubSeq(uart, 1, n)]>>
          /\ readIn' = readIn + IF Stale(block[1]) THEN 0 ELSE n
  BY DEF ReaderRead
<1>2. UNCHANGED <<sent, queue, queued, dropped, epoch, gotDropped, got, given, cpc>>
  BY DEF ReaderRead
<1>3. block # <<>> /\ block = <<block[1]>> /\ block[1] \in Blocks
      /\ block[1].bytes \in Seq(Nat) /\ block[1].epoch \in Nat
  BY FlowTypes DEF ReaderRead, TypeInv, ReadHasBlock
<1>4. /\ Rising(given) /\ Rising(got) /\ Rising(queue) /\ Rising(Open) /\ Ascending(uart)
      /\ Line(NumsIn(given), NumsIn(got), NumsIn(queue), NumsIn(Open), ByteNums(uart), sent)
      /\ OnlyTelling /\ EpochPast
  BY DEF FlowInv
<1>5. /\ sent \in Nat /\ uart \in Seq(Nat) /\ Len(uart) \in Nat /\ n \in Nat /\ epoch \in Nat
      /\ readIn \in Nat
  BY FlowTypes
<1> DEFINE a == SubSeq(uart, 1, n)
           c == [block[1] EXCEPT !.bytes = @ \o SubSeq(uart, 1, n)]
<1>6. /\ a \in Seq(Nat) /\ Len(a) = n /\ uart' \in Seq(Nat)
      /\ ByteNums(uart) = ByteNums(a) \cup ByteNums(uart')
      /\ Ascending(a) /\ Ascending(uart') /\ Below(ByteNums(a), ByteNums(uart'))
  <2> DEFINE rest == SubSeq(uart, n + 1, Len(uart))
  <2>1. uart' = rest /\ n \in 0 .. Len(uart) /\ uart \in Seq(Nat)
    BY <1>1, <1>5
  <2>2. a \in Seq(Nat) /\ Len(a) = n /\ rest \in Seq(Nat)
    BY <2>1, SplitSeq
  <2>3. /\ ByteNums(uart) = ByteNums(a) \cup ByteNums(rest)
        /\ Ascending(uart) => Ascending(a) /\ Ascending(rest) /\ Below(ByteNums(a), ByteNums(rest))
    BY <2>1, SplitOrder
  <2> HIDE DEF a, rest
  <2> QED BY <1>4, <2>1, <2>2, <2>3
<1>7. c.epoch = block[1].epoch /\ c.bytes = block[1].bytes \o a
  BY <1>3 DEF Blocks
<1>8. OnlyTelling'
  BY <1>2, <1>4 DEF OnlyTelling
<1>9. EpochPast'
  <2>1. CASE block' = <<>>
    BY <2>1 DEF EpochPast
  <2>2. CASE block' # <<>>
    <3>1. block' = <<c>>
      BY <1>1, <2>2
    <3>2. block'[1] = c
      BY <3>1
    <3>3. block'[1].epoch = block[1].epoch
      BY <1>7, <3>2
    <3> QED BY <1>2, <1>3, <1>4, <3>3 DEF EpochPast
  <2> QED BY <2>1, <2>2
<1>10. queued' = BytesOf(queue') /\ queued' + BlockLen(got') <= QueueMax + BlockSize
  BY <1>2 DEF FlowInv
<1>11. CASE Stale(block[1])
  <2>1. Open = <<>>
    BY <1>11, OpenIs
  <2>2. Open' = <<>>
    <3>1. CASE block' = <<>>
      BY <3>1 DEF Open
    <3>2. CASE block' # <<>>
      <4>1. block' = <<c>>
        BY <1>1, <3>2
      <4>2. block'[1] = c
        BY <4>1
      <4>3. block'[1].epoch = block[1].epoch
        BY <1>7, <4>2
      <4> QED BY <1>2, <1>11, <4>3 DEF Open, Stale
    <3> QED BY <3>1, <3>2
  <2>3. ByteNums(uart') \in SUBSET ByteNums(uart)
    BY <1>6
  <2>4. Line(NumsIn(given'), NumsIn(got'), NumsIn(queue'), NumsIn(Open'), ByteNums(uart'), sent')
    BY <1>2, <1>4, <1>5, <2>1, <2>2, <2>3, LineLess
  <2>5. readIn' = readIn
    BY <1>1, <1>5, <1>11
  <2>6. Accounted'
    BY <1>2, <2>1, <2>2, <2>5 DEF FlowInv, Accounted, BytesTold, Announced
  <2> QED BY <1>2, <1>4, <1>6, <1>8, <1>9, <1>10, <2>1, <2>2, <2>4, <2>6 DEF FlowInv
<1>12. CASE ~Stale(block[1])
  <2>1. Open = <<block[1]>>
    BY <1>3, <1>12, OpenIs
  <2>2. Len(block[1].bytes) \in Nat /\ BytesOf(Open) = Len(block[1].bytes)
    BY <1>3, <2>1, BytesOne, ItemsCarry
  <2>3. NumsIn(Open) = ByteNums(block[1].bytes) /\ Ascending(block[1].bytes)
    BY <1>4, <2>1, OrderOne, NumsAre
  <2>4. Below(NumsIn(Open), ByteNums(a))
    BY <1>4, <1>6 DEF Line, Below
  <2>5. Line(NumsIn(given), NumsIn(got), NumsIn(queue), NumsIn(Open) \cup ByteNums(a),
             ByteNums(uart'), sent)
    BY <1>4, <1>5, <1>6, LineRead
  <2>6. readIn' = readIn + n
    BY <1>1, <1>12
  <2>7. /\ Rising(Open') /\ BytesOf(Open') = BytesOf(Open) + n
        /\ NumsIn(Open') \in SUBSET (NumsIn(Open) \cup ByteNums(a))
    <3>1. CASE n = 0 /\ BlockLen(block) = 0
      <4>1. block' = <<>> /\ Open' = <<>>
        BY <1>1, <3>1 DEF Open
      <4>2. BytesOf(Open) = 0
        BY <1>3, <2>2, <3>1 DEF BlockLen
      <4> QED BY <3>1, <4>1, <4>2, BytesNone, NumsNone
    <3>2. CASE ~(n = 0 /\ BlockLen(block) = 0)
      <4>1. block' = <<c>>
        BY <1>1, <3>2
      <4>2. block'[1] = c /\ block' # <<>>
        BY <4>1
      <4>3. Open' = <<c>>
        BY <1>2, <1>7, <1>12, <4>1, <4>2 DEF Open, Stale
      <4>4. c \in Blocks
        <5>1. TypeInv'
          <6>1. Next
            BY DEF Next, ReaderNext, ReaderRuns
          <6> QED BY <6>1, TypeStep
        <5>2. block' \in Seq(Blocks)
          BY <5>1 DEF TypeInv, TypeOK, SeqsType
        <5> QED BY <4>1, <5>2
      <4>5. Len(c.bytes) = Len(block[1].bytes) + n
        BY <1>3, <1>6, <1>7, JoinSeq
      <4>6. ByteNums(c.bytes) = NumsIn(Open) \cup ByteNums(a) /\ Ascending(c.bytes)
        BY <1>3, <1>6, <1>7, <2>3, <2>4, JoinOrder
      <4> HIDE DEF c
      <4> QED BY <2>2, <4>3, <4>4, <4>5, <4>6, BytesOne, ItemsCarry, OrderOne, NumsAre
    <3> QED BY <3>1, <3>2
  <2>8. Line(NumsIn(given'), NumsIn(got'), NumsIn(queue'), NumsIn(Open'), ByteNums(uart'), sent')
    <3>1. ByteNums(uart') \in SUBSET ByteNums(uart')
      OBVIOUS
    <3>2. Line(NumsIn(given), NumsIn(got), NumsIn(queue), NumsIn(Open'), ByteNums(uart'), sent)
      BY <1>5, <2>5, <2>7, <3>1, LineLess
    <3> QED BY <1>2, <3>2
  <2>9. Accounted'
    <3>1. Accounted
      BY DEF FlowInv
    <3>2. readIn = BytesOf(given) + ToldOf(given) + BytesOf(got) + BytesOf(queue)
          + BytesOf(Open) + dropped + gotDropped
      BY <3>1, AccountedIs
    <3>3. /\ readIn' = readIn + n /\ n \in Nat /\ readIn \in Nat
          /\ BytesOf(given') = BytesOf(given) /\ ToldOf(given') = ToldOf(given)
          /\ BytesOf(got') = BytesOf(got) /\ BytesOf(queue') = BytesOf(queue)
          /\ BytesOf(Open') = BytesOf(Open) + n
          /\ dropped' = dropped /\ gotDropped' = gotDropped
      <4> HIDE DEF a, c
      <4>1. BytesOf(Open') = BytesOf(Open) + n
        BY <2>7
      <4>2. readIn' = readIn + n /\ n \in Nat /\ readIn \in Nat
        BY <1>5, <2>6
      <4> QED BY <1>2, <4>1, <4>2
    <3>4. readIn' = BytesOf(given') + ToldOf(given') + BytesOf(got') + BytesOf(queue')
          + BytesOf(Open') + dropped' + gotDropped'
      <4> HIDE DEF a, c
      <4>1. readIn + n = BytesOf(given) + ToldOf(given) + BytesOf(got) + BytesOf(queue)
            + (BytesOf(Open) + n) + dropped + gotDropped
        <5>1. n \in Int
          BY <3>3
        <5>2. readIn + n = (BytesOf(given) + ToldOf(given) + BytesOf(got) + BytesOf(queue)
              + BytesOf(Open) + dropped + gotDropped) + n
          BY <3>2
        <5> HIDE <3>2, <3>3
        <5>3. (BytesOf(given) + ToldOf(given) + BytesOf(got) + BytesOf(queue)
              + BytesOf(Open) + dropped + gotDropped) + n
              = BytesOf(given) + ToldOf(given) + BytesOf(got) + BytesOf(queue)
              + (BytesOf(Open) + n) + dropped + gotDropped
          BY <5>1, FlowCounts
        <5> QED BY <5>2, <5>3
      <4> QED BY <3>3, <4>1
    <3> QED BY <3>4 DEF Accounted, BytesTold, Announced
  <2> QED BY <1>2, <1>4, <1>6, <1>8, <1>9, <1>10, <2>7, <2>8, <2>9 DEF FlowInv
<1> QED BY <1>11, <1>12

\* publish(), of the reader's block.
LEMMA FlowPublish ==
    ASSUME TypeInv, FlowInv, block # <<>>, QueueBlock(block[1]), block' = <<>>,
           UNCHANGED <<sent, uart, epoch, gotDropped, got, readIn, given, cpc>>
    PROVE  FlowInv'
<1> DEFINE b == block[1]
<1>1. b \in Blocks /\ b.bytes \in Seq(Nat) /\ block = <<b>> /\ Len(b.bytes) \in Nat
  BY FlowTypes
<1>2. /\ sent \in Nat /\ queue \in Seq(Blocks) /\ queued \in Int /\ dropped \in Nat
      /\ got \in Seq(Blocks) /\ Len(got) <= 1
  BY FlowTypes
<1>3. /\ Rising(given) /\ Rising(got) /\ Rising(queue) /\ Rising(Open) /\ Ascending(uart)
      /\ Line(NumsIn(given), NumsIn(got), NumsIn(queue), NumsIn(Open), ByteNums(uart), sent)
      /\ OnlyTelling /\ EpochPast /\ Accounted
      /\ queued = BytesOf(queue) /\ queued + BlockLen(got) <= QueueMax + BlockSize
  BY DEF FlowInv
<1>4. Open' = <<>> /\ EpochPast' /\ OnlyTelling'
  BY <1>3 DEF Open, EpochPast, OnlyTelling
<1>5. NumsIn(<<>>) = {} /\ Rising(<<>>) /\ BytesOf(<<>>) = 0
  BY NumsNone, BytesNone
<1>6. Line(NumsIn(given), NumsIn(got), NumsIn(queue), {}, ByteNums(uart), sent)
  BY <1>2, <1>3, LineLess
<1>7. CASE Stale(b)
  <2>1. Open = <<>> /\ UNCHANGED <<queue, queued, dropped>>
    BY <1>7, OpenIs DEF QueueBlock
  <2>2. Accounted'
    BY <1>3, <1>4, <2>1 DEF Accounted, BytesTold, Announced
  <2> QED BY <1>3, <1>4, <1>5, <1>6, <2>1, <2>2 DEF FlowInv
<1>8. CASE ~Stale(b)
  <2>1. Open = <<b>>
    BY <1>1, <1>8, OpenIs
  <2>2. BytesOf(Open) = Len(b.bytes) /\ NumsIn(Open) = Nums(b) /\ Ascending(b.bytes)
    BY <1>1, <1>3, <2>1, BytesOne, ItemsCarry, OrderOne
  <2>3. CASE dropped' = dropped + Len(b.bytes) /\ UNCHANGED <<queue, queued>>
    <3>1. Accounted'
      <4> HIDE DEF b
      <4>1. readIn = BytesOf(given) + ToldOf(given) + BytesOf(got) + BytesOf(queue)
            + BytesOf(Open) + dropped + gotDropped
        BY <1>3, AccountedIs
      <4>2. readIn = BytesOf(given) + ToldOf(given) + BytesOf(got) + BytesOf(queue)
            + 0 + (dropped + BytesOf(Open)) + gotDropped
        BY <4>1, FlowCounts
      <4>3. /\ BytesOf(Open') = 0 /\ dropped' = dropped + BytesOf(Open)
            /\ UNCHANGED <<readIn, given, got, queue, gotDropped>>
        BY <1>4, <1>5, <2>2, <2>3
      <4>4. readIn' = BytesOf(given') + ToldOf(given') + BytesOf(got') + BytesOf(queue')
            + BytesOf(Open') + dropped' + gotDropped'
        BY <4>2, <4>3
      <4> QED BY <4>4 DEF Accounted, BytesTold, Announced
    <3> QED BY <1>3, <1>4, <1>5, <1>6, <2>3, <3>1 DEF FlowInv
  <2>4. CASE /\ queued + Len(b.bytes) <= QueueMax
             /\ queue' = Append(queue, b)
             /\ queued' = queued + Len(b.bytes)
             /\ UNCHANGED dropped
    <3>1. BytesOf(queue') = BytesOf(queue) + Len(b.bytes) /\ BytesOf(queue) \in Int
      BY <1>1, <1>2, <2>4, BytesAppend, BytesInt, ItemsCarry
    <3>2. Below(NumsIn(queue), Nums(b))
      BY <1>3, <2>2 DEF Line, Below
    <3>3. NumsIn(queue') = NumsIn(queue) \cup NumsIn(Open) /\ Rising(queue')
      BY <1>1, <1>2, <1>3, <2>2, <2>4, <3>2, OrderAppend
    <3>4. Line(NumsIn(given), NumsIn(got), NumsIn(queue'), {}, ByteNums(uart), sent)
      BY <1>2, <1>3, <3>3, LineQueue
    <3>5. Accounted'
      <4>1. readIn = BytesOf(given) + ToldOf(given) + BytesOf(got) + BytesOf(queue)
            + BytesOf(Open) + dropped + gotDropped
        BY <1>3, AccountedIs
      <4>2. /\ readIn' = readIn /\ Len(b.bytes) \in Nat
            /\ BytesOf(given') = BytesOf(given) /\ ToldOf(given') = ToldOf(given)
            /\ BytesOf(got') = BytesOf(got) /\ BytesOf(queue') = BytesOf(queue) + Len(b.bytes)
            /\ BytesOf(Open) = Len(b.bytes) /\ BytesOf(Open') = 0
            /\ dropped' = dropped /\ gotDropped' = gotDropped
        <5> HIDE DEF b
        <5>1. /\ Len(b.bytes) \in Nat /\ BytesOf(queue') = BytesOf(queue) + Len(b.bytes)
              /\ BytesOf(Open) = Len(b.bytes)
          BY <1>1, <2>2, <3>1
        <5>2. BytesOf(Open') = 0
          BY <1>4, <1>5
        <5> QED BY <2>4, <5>1, <5>2
      <4>3. readIn = BytesOf(given) + ToldOf(given) + BytesOf(got) + (BytesOf(queue) + BytesOf(Open))
            + 0 + dropped + gotDropped
        BY <4>1, FlowCounts
      <4>4. readIn' = BytesOf(given') + ToldOf(given') + BytesOf(got') + BytesOf(queue')
            + BytesOf(Open') + dropped' + gotDropped'
        BY <4>2, <4>3
      <4> QED BY <4>4 DEF Accounted, BytesTold, Announced
    <3>6. BlockLen(got) \in 0 .. BlockSize
      BY <1>2, OneBlock
    <3>7. queued' = BytesOf(queue') /\ queued' + BlockLen(got) <= QueueMax + BlockSize
      <4> HIDE DEF b
      <4>1. /\ queued' = queued + Len(b.bytes) /\ queued + Len(b.bytes) <= QueueMax
            /\ queued = BytesOf(queue) /\ BytesOf(queue') = BytesOf(queue) + Len(b.bytes)
        BY <1>3, <2>4, <3>1
      <4>2. /\ queued \in Int /\ Len(b.bytes) \in Int /\ QueueMax \in Int /\ BlockSize \in Int
            /\ BlockLen(got) \in Int /\ BlockLen(got) <= BlockSize
        BY <1>1, <1>2, <3>6, BackendAssumption
      <4> QED BY <4>1, <4>2
    <3> QED BY <1>3, <1>4, <1>5, <3>3, <3>4, <3>5, <3>7 DEF FlowInv
  <2> QED BY <1>8, <2>3, <2>4 DEF QueueBlock
<1> QED BY <1>7, <1>8

LEMMA FlowLast ==
    ASSUME TypeInv, FlowInv, ReaderLast
    PROVE  FlowInv'
<1>. USE DEF device, shared, reader, taken, told, marks, caller
<1>1. block' = <<>> /\ UNCHANGED <<sent, uart, epoch, gotDropped, got, readIn, given, cpc>>
  BY DEF ReaderLast
<1>2. CASE BlockLen(block) > 0 /\ QueueBlock(block[1])
  <2>1. block # <<>>
    BY <1>2 DEF BlockLen
  <2> QED BY <1>1, <1>2, <2>1, FlowPublish
<1>3. CASE BlockLen(block) = 0 /\ UNCHANGED <<queue, queued, dropped>>
  <2>1. Open' = <<>> /\ EpochPast'
    BY <1>1 DEF Open, EpochPast
  <2>2. OnlyTelling
    BY DEF FlowInv
  <2>3. OnlyTelling'
    BY <1>1, <2>2 DEF OnlyTelling
  <2>4. BytesOf(Open) = 0
    <3>1. CASE Open = <<>>
      BY <3>1, BytesNone
    <3>2. CASE Open # <<>>
      <4>1. Open = block /\ block # <<>>
        BY <3>2 DEF Open
      <4>2. BytesOf(Open) = Len(block[1].bytes)
        BY <4>1, FlowTypes, BytesOne, ItemsCarry
      <4> QED BY <1>3, <4>1, <4>2 DEF BlockLen
    <3> QED BY <3>1, <3>2
  <2>5. BytesOf(Open') = BytesOf(Open) /\ NumsIn(Open') \in SUBSET NumsIn(Open) /\ Rising(Open')
    BY <2>1, <2>4, BytesNone, NumsNone
  <2> QED BY <1>1, <1>3, <2>1, <2>3, <2>5, FlowOpen
<1> QED BY <1>2, <1>3 DEF ReaderLast

\* Everything is dropped, and what the reader holds becomes stale.
LEMMA FlowCleared ==
    ASSUME TypeInv, FlowInv, cpc # "tell", cpc' # "tell", uart' \in {uart, <<>>},
           epoch' = epoch + 1, queue' = <<>>, queued' = 0, dropped' = 0, given' = <<>>,
           readIn' = 0,
           UNCHANGED <<sent, block, gotDropped, got>>
    PROVE  FlowInv'
<1>1. /\ Rising(given) /\ Ascending(uart) /\ OnlyTelling /\ EpochPast
      /\ Line(NumsIn(given), NumsIn(got), NumsIn(queue), NumsIn(Open), ByteNums(uart), sent)
  BY DEF FlowInv
<1>2. got = <<>> /\ gotDropped = 0
  BY <1>1 DEF OnlyTelling
<1>3. epoch \in Nat /\ sent \in Nat /\ (block # <<>> => block[1].epoch \in Nat)
  BY FlowTypes
<1>4. block # <<>> => block[1].epoch <= epoch
  BY <1>1 DEF EpochPast
<1>5. Open' = <<>>
  BY <1>3, <1>4 DEF Open, Stale
<1>6. EpochPast' /\ OnlyTelling'
  BY <1>2, <1>3, <1>4 DEF EpochPast, OnlyTelling
<1>7. NumsIn(<<>>) = {} /\ Rising(<<>>) /\ BytesOf(<<>>) = 0 /\ ToldOf(<<>>) = 0
  BY NumsNone, BytesNone
<1>8. ByteNums(<<>>) = {} /\ Ascending(<<>>)
  BY DEF ByteNums, Ascending
<1>9. ByteNums(uart') \in SUBSET ByteNums(uart) /\ Ascending(uart')
  BY <1>1, <1>8
<1>10. Line({}, {}, {}, {}, ByteNums(uart'), sent)
  BY <1>1, <1>9 DEF Line, Below
<1>11. Accounted'
  BY <1>2, <1>5, <1>7 DEF Accounted, BytesTold, Announced
<1>12. queued' = BytesOf(queue') /\ queued' + BlockLen(got') <= QueueMax + BlockSize
  BY <1>2, <1>7, BackendAssumption DEF BlockLen
<1> QED BY <1>2, <1>5, <1>6, <1>7, <1>9, <1>10, <1>11, <1>12 DEF FlowInv

LEMMA FlowLook ==
    ASSUME TypeInv, FlowInv, Look
    PROVE  FlowInv'
<1>. USE DEF device, shared, reader, taken, told, marks, caller
<1>1. /\ cpc = "look" /\ cpc' = "tell" /\ gotDropped' = dropped /\ dropped' = 0
      /\ UNCHANGED <<sent, uart, epoch, block, readIn, given>>
      /\ queue = <<>> => got' = <<>> /\ UNCHANGED <<queue, queued>>
      /\ queue # <<>> => /\ got' = <<Head(queue)>> /\ queue' = Tail(queue)
                         /\ queued' = queued - Len(Head(queue).bytes)
  BY DEF Look
<1>2. /\ Rising(given) /\ Rising(queue) /\ Rising(Open) /\ Ascending(uart)
      /\ Line(NumsIn(given), NumsIn(got), NumsIn(queue), NumsIn(Open), ByteNums(uart), sent)
      /\ OnlyTelling /\ EpochPast /\ Accounted
      /\ queued = BytesOf(queue) /\ queued + BlockLen(got) <= QueueMax + BlockSize
  BY DEF FlowInv
<1>3. got = <<>> /\ gotDropped = 0
  BY <1>1, <1>2 DEF OnlyTelling
<1>4. Open' = Open
  BY <1>1 DEF Open, Stale
<1>5. EpochPast' /\ OnlyTelling'
  BY <1>1, <1>2 DEF EpochPast, OnlyTelling
<1>6. NumsIn(<<>>) = {} /\ Rising(<<>>) /\ BytesOf(<<>>) = 0
  BY NumsNone, BytesNone
<1>7. /\ BytesOf(given) \in Int /\ ToldOf(given) \in Int /\ BytesOf(queue) \in Int
      /\ BytesOf(Open) \in Int /\ dropped \in Nat /\ readIn \in Nat /\ sent \in Nat
      /\ queue \in Seq(Blocks)
  BY FlowNumbers, FlowTypes
<1>8. CASE queue = <<>>
  <2>1. Accounted'
    BY <1>1, <1>2, <1>3, <1>4, <1>6, <1>7, <1>8 DEF Accounted, BytesTold, Announced
  <2> QED BY <1>1, <1>2, <1>3, <1>4, <1>5, <1>6, <1>8, <2>1 DEF FlowInv
<1>9. CASE queue # <<>>
  <2> DEFINE h == Head(queue)
  <2>1. got' = <<h>> /\ queue' = Tail(queue) /\ queued' = queued - Len(h.bytes)
    BY <1>1, <1>9
  <2>2. h \in Blocks
    BY <1>7, <1>9
  <2>3. /\ NumsIn(queue) = Nums(h) \cup NumsIn(queue')
        /\ Rising(queue') /\ Ascending(h.bytes) /\ Below(Nums(h), NumsIn(queue'))
    BY <1>2, <1>7, <1>9, <2>1, OrderTail
  <2>4. BytesOf(queue) = Len(h.bytes) + BytesOf(queue')
    BY <1>7, <1>9, <2>1, BytesTail, ItemsCarry
  <2>5. NumsIn(got') = Nums(h) /\ Rising(got')
    BY <2>1, <2>3, OrderOne
  <2>6. BytesOf(got') = Len(h.bytes) /\ Len(h.bytes) \in Nat
    BY <2>1, <2>2, BytesOne, ItemsCarry
  <2>7. BlockLen(got') = Len(h.bytes)
    <3>1. got'[1] = h /\ got' # <<>>
      BY <2>1
    <3> QED BY <3>1 DEF BlockLen
  <2>8. BytesOf(queue') \in Int
    <3>1. queue' \in Seq(Blocks)
      BY <1>7, <1>9, <2>1
    <3> QED BY <3>1, BytesInt, ItemsCarry
  <2> HIDE DEF h
  <2>9. Line(NumsIn(given'), NumsIn(got'), NumsIn(queue'), NumsIn(Open'), ByteNums(uart'), sent')
    <3>1. Line(NumsIn(given), {}, Nums(h) \cup NumsIn(queue'), NumsIn(Open), ByteNums(uart), sent)
      BY <1>2, <1>3, <1>6, <2>3
    <3>2. Line(NumsIn(given), Nums(h), NumsIn(queue'), NumsIn(Open), ByteNums(uart), sent)
      BY <1>7, <2>3, <3>1, LineTake
    <3> QED BY <1>1, <1>4, <2>5, <3>2
  <2>10. Accounted'
    <3>1. readIn = BytesOf(given) + ToldOf(given) + BytesOf(got) + BytesOf(queue)
          + BytesOf(Open) + dropped + gotDropped
      BY <1>2, AccountedIs
    <3>2. /\ readIn' = readIn
          /\ BytesOf(given') = BytesOf(given) /\ ToldOf(given') = ToldOf(given)
          /\ BytesOf(got) = 0 /\ BytesOf(got') = Len(h.bytes)
          /\ BytesOf(Open') = BytesOf(Open)
          /\ dropped' = 0 /\ gotDropped = 0 /\ gotDropped' = dropped
      BY <1>1, <1>3, <1>4, <1>6, <2>6
    <3>3. readIn = BytesOf(given) + ToldOf(given) + Len(h.bytes) + BytesOf(queue')
          + BytesOf(Open) + 0 + dropped
      <4>1. readIn = BytesOf(given) + ToldOf(given) + 0 + (Len(h.bytes) + BytesOf(queue'))
            + BytesOf(Open) + dropped + 0
        BY <2>4, <3>1, <3>2
      <4>2. Len(h.bytes) \in Int /\ BytesOf(queue') \in Int
        BY <2>6, <2>8
      <4> QED BY <4>1, <4>2, FlowCounts
    <3>4. readIn' = BytesOf(given') + ToldOf(given') + BytesOf(got') + BytesOf(queue')
          + BytesOf(Open') + dropped' + gotDropped'
      BY <3>2, <3>3
    <3> QED BY <3>4 DEF Accounted, BytesTold, Announced
  <2>11. queued' = BytesOf(queue') /\ queued' + BlockLen(got') <= QueueMax + BlockSize
    <3>1. BlockLen(got) = 0
      BY <1>3 DEF BlockLen
    <3> QED BY <1>2, <1>7, <2>1, <2>4, <2>6, <2>7, <2>8, <3>1, BackendAssumption
  <2> QED BY <1>1, <1>2, <1>4, <1>5, <2>3, <2>5, <2>9, <2>10, <2>11 DEF FlowInv
<1> QED BY <1>8, <1>9

LEMMA FlowOverflow ==
    ASSUME TypeInv, FlowInv, TellOverflow
    PROVE  FlowInv'
<1>. USE DEF device, shared, reader, taken, told, marks, caller
<1> DEFINE e == Overflow(gotDropped)
<1>1. /\ cpc = "tell" /\ cpc' = "out" /\ given' = Append(given, e)
      /\ queue' = got \o queue /\ queued' = queued + BlockLen(got)
      /\ gotDropped' = 0 /\ got' = <<>>
      /\ UNCHANGED <<sent, uart, dropped, epoch, block, readIn>>
  BY DEF TellOverflow, PutBack, Give
<1>2. /\ Rising(given) /\ Rising(got) /\ Rising(queue) /\ Rising(Open) /\ Ascending(uart)
      /\ Line(NumsIn(given), NumsIn(got), NumsIn(queue), NumsIn(Open), ByteNums(uart), sent)
      /\ EpochPast /\ Accounted
      /\ queued = BytesOf(queue) /\ queued + BlockLen(got) <= QueueMax + BlockSize
  BY DEF FlowInv
<1>3. /\ BytesOf(given) \in Int /\ ToldOf(given) \in Int /\ BytesOf(queue) \in Int
      /\ BytesOf(got) \in Int /\ BytesOf(Open) \in Int
      /\ dropped \in Nat /\ gotDropped \in Nat /\ readIn \in Nat /\ sent \in Nat
      /\ queue \in Seq(Blocks) /\ given \in Seq(Items) /\ got \in Seq(Blocks) /\ Len(got) <= 1
  BY FlowNumbers, FlowTypes
<1>4. Open' = Open
  BY <1>1 DEF Open, Stale
<1>5. EpochPast' /\ OnlyTelling'
  BY <1>1, <1>2 DEF EpochPast, OnlyTelling
<1>6. NumsIn(<<>>) = {} /\ Rising(<<>>) /\ BytesOf(<<>>) = 0
  BY NumsNone, BytesNone
<1>7. e \in Items /\ e.bytes = <<>> /\ e.kind = "overflow" /\ e.n = gotDropped
  BY <1>3, ItemTypes DEF Overflow
<1> HIDE DEF e
<1>8. Nums(e) = {} /\ Ascending(e.bytes) /\ Len(e.bytes) = 0
  BY <1>7 DEF Nums, Ascending
<1>9. NumsIn(given') = NumsIn(given) /\ Rising(given')
  <2>1. Below(NumsIn(given), Nums(e))
    BY <1>8 DEF Below
  <2>2. given \in Seq(Items) /\ e \in Items /\ Rising(given) /\ Ascending(e.bytes)
    BY <1>2, <1>3, <1>7, <1>8
  <2>3. NumsIn(Append(given, e)) = NumsIn(given) \cup Nums(e) /\ Rising(Append(given, e))
    BY <2>1, <2>2, OrderAppend
  <2> QED BY <1>1, <1>7, <1>8, <2>3
<1>10. BytesOf(given') = BytesOf(given) /\ ToldOf(given') = ToldOf(given) + gotDropped
  <2>1. BytesOf(given') = BytesOf(given) + Len(e.bytes)
    BY <1>1, <1>3, <1>7, BytesAppend, ItemsCarry
  <2>2. ToldOf(given') = ToldOf(given) + e.n
    BY <1>1, <1>3, <1>7, ToldAppend
  <2> QED BY <1>3, <1>7, <1>8, <2>1, <2>2
<1>11. /\ NumsIn(queue') = NumsIn(got) \cup NumsIn(queue)
       /\ Rising(queue')
       /\ BytesOf(queue') = BytesOf(got) + BytesOf(queue)
       /\ BlockLen(got) = BytesOf(got)
  <2>1. CASE got = <<>>
    <3>1. queue' = queue
      BY <1>1, <1>3, <2>1
    <3> QED BY <1>2, <1>3, <1>6, <2>1, <3>1 DEF BlockLen
  <2>2. CASE got # <<>>
    <3> DEFINE a == got[1]
    <3>1. got = <<a>> /\ a \in Blocks /\ BlockLen(got) = Len(a.bytes)
      BY <2>2, FlowTypes DEF BlockLen
    <3> HIDE DEF a
    <3>2. NumsIn(got) = Nums(a) /\ Ascending(a.bytes) /\ BytesOf(got) = Len(a.bytes)
      BY <1>2, <3>1, OrderOne, BytesOne, ItemsCarry
    <3>3. Below(Nums(a), NumsIn(queue))
      BY <1>2, <3>2 DEF Line, Below
    <3>4. queue' = <<a>> \o queue
      BY <1>1, <3>1
    <3> QED BY <1>2, <1>3, <3>1, <3>2, <3>3, <3>4, OrderPut, BytesPut, ItemsCarry
  <2> QED BY <2>1, <2>2
<1>12. Line(NumsIn(given'), NumsIn(got'), NumsIn(queue'), NumsIn(Open'), ByteNums(uart'), sent')
  <2>1. Line(NumsIn(given), {}, NumsIn(got) \cup NumsIn(queue), NumsIn(Open), ByteNums(uart), sent)
    BY <1>2, <1>3, LinePut
  <2> QED BY <1>1, <1>4, <1>6, <1>9, <1>11, <2>1
<1>13. Accounted'
  <2>1. readIn = BytesOf(given) + ToldOf(given) + BytesOf(got) + BytesOf(queue)
        + BytesOf(Open) + dropped + gotDropped
    BY <1>2, AccountedIs
  <2>2. /\ readIn' = readIn
        /\ BytesOf(given') = BytesOf(given) /\ ToldOf(given') = ToldOf(given) + gotDropped
        /\ BytesOf(got') = 0 /\ BytesOf(queue') = BytesOf(got) + BytesOf(queue)
        /\ BytesOf(Open') = BytesOf(Open)
        /\ dropped' = dropped /\ gotDropped' = 0
    BY <1>1, <1>4, <1>6, <1>10, <1>11
  <2>3. readIn = BytesOf(given) + (ToldOf(given) + gotDropped) + 0 + (BytesOf(got) + BytesOf(queue))
        + BytesOf(Open) + dropped + 0
    BY <2>1, FlowCounts
  <2>4. readIn' = BytesOf(given') + ToldOf(given') + BytesOf(got') + BytesOf(queue')
        + BytesOf(Open') + dropped' + gotDropped'
    BY <2>2, <2>3
  <2> QED BY <2>4 DEF Accounted, BytesTold, Announced
<1>14. queued' = BytesOf(queue') /\ queued' + BlockLen(got') <= QueueMax + BlockSize
  <2>1. BlockLen(got') = 0
    BY <1>1 DEF BlockLen
  <2> QED BY <1>1, <1>2, <1>3, <1>11, <2>1, BackendAssumption
<1> QED BY <1>1, <1>2, <1>4, <1>5, <1>6, <1>9, <1>11, <1>12, <1>13, <1>14 DEF FlowInv

LEMMA FlowData ==
    ASSUME TypeInv, FlowInv, TellData
    PROVE  FlowInv'
<1>. USE DEF device, shared, reader, taken, told, marks, caller
<1> DEFINE a == got[1]
           e == Data(a.bytes)
<1>1. /\ cpc = "tell" /\ cpc' = "out" /\ given' = Append(given, e) /\ got' = <<>>
      /\ gotDropped = 0 /\ got # <<>>
      /\ UNCHANGED <<sent, uart, queue, queued, dropped, epoch, block, readIn, gotDropped>>
  BY DEF TellData, Give
<1>2. /\ Rising(given) /\ Rising(got) /\ Rising(queue) /\ Rising(Open) /\ Ascending(uart)
      /\ Line(NumsIn(given), NumsIn(got), NumsIn(queue), NumsIn(Open), ByteNums(uart), sent)
      /\ EpochPast /\ Accounted
      /\ queued = BytesOf(queue) /\ queued + BlockLen(got) <= QueueMax + BlockSize
  BY DEF FlowInv
<1>3. /\ BytesOf(given) \in Int /\ ToldOf(given) \in Int /\ BytesOf(queue) \in Int
      /\ BytesOf(got) \in Int /\ BytesOf(Open) \in Int
      /\ dropped \in Nat /\ gotDropped \in Nat /\ readIn \in Nat /\ sent \in Nat /\ queued \in Int
      /\ given \in Seq(Items) /\ got \in Seq(Blocks) /\ Len(got) <= 1
  BY FlowNumbers, FlowTypes
<1>4. Open' = Open
  BY <1>1 DEF Open, Stale
<1>5. EpochPast' /\ OnlyTelling'
  BY <1>1, <1>2 DEF EpochPast, OnlyTelling
<1>6. NumsIn(<<>>) = {} /\ Rising(<<>>) /\ BytesOf(<<>>) = 0
  BY NumsNone, BytesNone
<1>7. got = <<a>> /\ a \in Blocks /\ a.bytes \in Seq(Nat) /\ BlockLen(got) = Len(a.bytes)
  BY <1>1, FlowTypes DEF BlockLen
<1>8. e \in Items /\ e.bytes = a.bytes /\ e.kind # "overflow"
  BY <1>7, ItemTypes DEF Data
<1> HIDE DEF a, e
<1>9. /\ NumsIn(got) = Nums(e) /\ Ascending(e.bytes)
      /\ BytesOf(got) = Len(e.bytes) /\ Len(e.bytes) \in Nat
  BY <1>2, <1>7, <1>8, OrderOne, BytesOne, ItemsCarry, NumsAre
<1>10. NumsIn(given') = NumsIn(given) \cup NumsIn(got) /\ Rising(given')
  <2>1. Below(NumsIn(given), Nums(e))
    BY <1>2, <1>9 DEF Line, Below
  <2>2. given \in Seq(Items) /\ e \in Items /\ Rising(given) /\ Ascending(e.bytes)
    BY <1>2, <1>3, <1>8, <1>9
  <2>3. NumsIn(Append(given, e)) = NumsIn(given) \cup Nums(e) /\ Rising(Append(given, e))
    BY <2>1, <2>2, OrderAppend
  <2> QED BY <1>1, <1>3, <1>8, <1>9, <2>3
<1>11. BytesOf(given') = BytesOf(given) + BytesOf(got) /\ ToldOf(given') = ToldOf(given)
  <2>1. BytesOf(given') = BytesOf(given) + Len(e.bytes)
    BY <1>1, <1>3, <1>8, BytesAppend, ItemsCarry
  <2>2. ToldOf(given') = ToldOf(given) + 0
    BY <1>1, <1>3, <1>8, ToldAppend
  <2> QED BY <1>3, <1>9, <2>1, <2>2
<1>12. Line(NumsIn(given'), NumsIn(got'), NumsIn(queue'), NumsIn(Open'), ByteNums(uart'), sent')
  <2>1. Line(NumsIn(given) \cup NumsIn(got), {}, NumsIn(queue), NumsIn(Open), ByteNums(uart), sent)
    BY <1>2, <1>3, LineGive
  <2> QED BY <1>1, <1>4, <1>6, <1>10, <2>1
<1>13. Accounted'
  BY <1>1, <1>2, <1>3, <1>4, <1>6, <1>11 DEF Accounted, BytesTold, Announced
<1>14. queued' = BytesOf(queue') /\ queued' + BlockLen(got') <= QueueMax + BlockSize
  <2>1. BlockLen(got') = 0
    BY <1>1 DEF BlockLen
  <2> QED BY <1>1, <1>2, <1>3, <1>7, <1>8, <1>9, <2>1, BackendAssumption
<1> QED BY <1>1, <1>2, <1>4, <1>5, <1>6, <1>10, <1>12, <1>13, <1>14 DEF FlowInv

LEMMA FlowPending ==
    ASSUME TypeInv, FlowInv, TellPending
    PROVE  FlowInv'
<1>. USE DEF device, shared, reader, taken, told, marks, caller
<1>1. /\ got = <<>> /\ gotDropped = 0 /\ cpc' = "out"
      /\ UNCHANGED <<sent, uart, queue, queued, dropped, epoch, block, readIn, gotDropped, got>>
  BY DEF TellPending, NothingTaken
<1>2. OnlyTelling'
  BY <1>1 DEF OnlyTelling
<1>3. CASE UNCHANGED given
  BY <1>1, <1>2, <1>3, FlowQuiet
<1>4. CASE Give(Control(Head(pending)))
  <2> DEFINE e == Control(Head(pending))
  <2>1. Head(pending) \in Messages
    BY DEF TellPending, TypeInv, TypeOK, SeqsType
  <2>2. e \in Items /\ e.bytes = <<>> /\ e.kind # "overflow" /\ given' = Append(given, e)
    BY <1>4, <2>1, ItemTypes DEF Control, Give
  <2> HIDE DEF e
  <2>3. Nums(e) = {} /\ Ascending(e.bytes) /\ Len(e.bytes) = 0
    BY <2>2 DEF Nums, Ascending
  <2>4. given \in Seq(Items) /\ Rising(given) /\ BytesOf(given) \in Int /\ ToldOf(given) \in Int
    BY FlowTypes, FlowNumbers DEF FlowInv
  <2>5. NumsIn(given') = NumsIn(given) /\ Rising(given')
    <3>1. Below(NumsIn(given), Nums(e))
      BY <2>3 DEF Below
    <3>2. Rising(given) /\ Ascending(e.bytes) /\ Below(NumsIn(given), Nums(e))
      BY <2>3, <2>4, <3>1
    <3>3. NumsIn(Append(given, e)) = NumsIn(given) \cup Nums(e) /\ Rising(Append(given, e))
      <4>1. given \in Seq(Items) /\ e \in Items
        BY <2>2, <2>4
      <4> QED BY <3>2, <4>1, OrderAppend
    <3> QED BY <2>2, <2>3, <3>3
  <2>6. BytesOf(given') = BytesOf(given) /\ ToldOf(given') = ToldOf(given)
    <3>1. BytesOf(given') = BytesOf(given) + Len(e.bytes)
      BY <2>2, <2>4, BytesAppend, ItemsCarry
    <3>2. ToldOf(given') = ToldOf(given) + 0
      BY <2>2, <2>4, ToldAppend
    <3> QED BY <2>3, <2>4, <3>1, <3>2
  <2>7. Open' = Open
    BY <1>1 DEF Open, Stale
  <2>8. EpochPast'
    <3>1. EpochPast
      BY DEF FlowInv
    <3> QED BY <1>1, <3>1 DEF EpochPast
  <2>9. Accounted'
    BY <1>1, <2>6, <2>7 DEF FlowInv, Accounted, BytesTold, Announced
  <2> QED BY <1>1, <1>2, <2>5, <2>7, <2>8, <2>9 DEF FlowInv
<1> QED BY <1>3, <1>4 DEF TellPending

LEMMA FlowInit == Init => FlowInv
<1> SUFFICES ASSUME Init PROVE FlowInv
  OBVIOUS
<1>1. NumsIn(<<>>) = {} /\ Rising(<<>>) /\ BytesOf(<<>>) = 0 /\ ToldOf(<<>>) = 0
  BY NumsNone, BytesNone
<1>2. ByteNums(<<>>) = {} /\ Ascending(<<>>) /\ Line({}, {}, {}, {}, {}, 0)
  BY DEF ByteNums, Ascending, Line, Below
<1>3. Open = <<>> /\ EpochPast /\ OnlyTelling
  BY DEF Init, Open, EpochPast, OnlyTelling
<1>4. Accounted
  BY <1>1, <1>3 DEF Init, Accounted, BytesTold, Announced
<1>5. queued = BytesOf(queue) /\ queued + BlockLen(got) <= QueueMax + BlockSize
  BY <1>1, BackendAssumption DEF Init, BlockLen
<1> QED BY <1>1, <1>2, <1>3, <1>4, <1>5 DEF Init, FlowInv

LEMMA FlowStep == TypeInv /\ FlowInv /\ [Next]_vars => FlowInv'
<1> SUFFICES ASSUME TypeInv, FlowInv, [Next]_vars PROVE FlowInv'
  OBVIOUS
<1>0. OnlyTelling
  BY DEF FlowInv
<1>. USE DEF device, shared, reader, taken, told, marks, caller, vars
<1>1. CASE DeviceNext
  <2>1. CASE DeviceReport
    <3>1. OnlyTelling'
      BY <1>0, <2>1 DEF DeviceReport, OnlyTelling
    <3> QED BY <2>1, <3>1, FlowQuiet DEF DeviceReport
  <2> QED BY <1>1, <2>1, FlowSent DEF DeviceNext
<1>2. CASE ReaderNext
  <2>1. CASE ReaderPublish
    <3>1. /\ block # <<>> /\ QueueBlock(block[1]) /\ block' = <<>>
          /\ UNCHANGED <<sent, uart, epoch, gotDropped, got, readIn, given, cpc>>
      BY <2>1 DEF ReaderPublish, BlockDue
    <3> QED BY <3>1, FlowPublish
  <2>2. ASSUME ~ReaderOpen, ~ReaderRead, ~ReaderPublish, ~ReaderLast PROVE FlowInv'
    <3>1. UNCHANGED <<sent, uart, queue, queued, dropped, epoch, block, gotDropped, got, readIn,
                      given, cpc>>
      BY <1>2, <2>2 DEF ReaderNext, ReaderRuns, ReaderMore, ReaderGather, ReaderTimeout,
         ReaderWake, ReaderQuit, ReaderLastWake, ReaderFails, ReaderGivesUp
    <3>2. OnlyTelling'
      BY <1>0, <3>1 DEF OnlyTelling
    <3> QED BY <3>1, <3>2, FlowQuiet
  <2> QED BY <2>1, <2>2, FlowOpens, FlowRead, FlowLast
<1>3. CASE ResetNext
  <2>1. CASE FlushQueue
    BY <2>1, FlowCleared DEF FlushQueue
  <2>2. ASSUME ~FlushUart, ~FlushQueue PROVE FlowInv'
    <3>1. /\ UNCHANGED <<sent, uart, queue, queued, dropped, epoch, block, gotDropped, got,
                         readIn, given>>
          /\ cpc # "tell"
      BY <1>3, <2>2 DEF ResetNext, ResetBegin, ResetFails, ReceiveHello, Idle
    <3>2. OnlyTelling'
      BY <1>0, <3>1 DEF OnlyTelling
    <3> QED BY <3>1, <3>2, FlowQuiet
  <2> QED BY <2>1, <2>2, FlowUart
<1>4. CASE ConfigNext
  <2>1. /\ UNCHANGED <<sent, uart, queue, queued, dropped, epoch, block, gotDropped, got,
                       readIn, given>>
        /\ cpc # "tell"
    BY <1>4 DEF ConfigNext, ConfigWrite, Answered, ConfigFails, ReceiveReply, ReceiveOther,
       ReceiveFails, Idle
  <2>2. OnlyTelling'
    BY <1>0, <2>1 DEF OnlyTelling
  <2> QED BY <2>1, <2>2, FlowQuiet
<1>5. CASE ReadNext
  <2>1. ASSUME ~Look, ~TellOverflow, ~TellData, ~TellPending PROVE FlowInv'
    <3>1. /\ UNCHANGED <<sent, uart, queue, queued, dropped, epoch, block, gotDropped, got,
                         readIn, given>>
          /\ cpc # "tell" \/ (got = <<>> /\ gotDropped = 0)
      BY <1>5, <2>1 DEF ReadNext, ReadBegin, TellError, TakeMessage, TellSilent, Sleep, Woken,
         ReadTimesOut, NothingToTell, NothingTaken, Idle
    <3>2. OnlyTelling'
      BY <1>0, <3>1 DEF OnlyTelling
    <3> QED BY <3>1, <3>2, FlowQuiet
  <2> QED BY <2>1, FlowLook, FlowOverflow, FlowData, FlowPending
<1>6. CASE CloseNext
  <2>1. CASE CloseJoin
    BY <2>1, FlowCleared DEF CloseJoin
  <2>2. ASSUME ~CloseJoin PROVE FlowInv'
    <3>1. /\ UNCHANGED <<sent, uart, queue, queued, dropped, epoch, block, gotDropped, got,
                         readIn, given>>
          /\ cpc # "tell"
      BY <1>6, <2>2 DEF CloseNext, CloseBegin, Closed, Idle
    <3>2. OnlyTelling'
      BY <1>0, <3>1 DEF OnlyTelling
    <3> QED BY <3>1, <3>2, FlowQuiet
  <2> QED BY <2>1, <2>2
<1>7. CASE UNCHANGED vars
  <2>1. OnlyTelling'
    BY <1>0, <1>7 DEF OnlyTelling
  <2> QED BY <1>7, <2>1, FlowQuiet
<1> QED BY <1>1, <1>2, <1>3, <1>4, <1>5, <1>6, <1>7 DEF Next

LEMMA FlowIsOnce == TypeInv /\ FlowInv => OnceInOrder
<1> SUFFICES ASSUME TypeInv, FlowInv PROVE OnceInOrder
  OBVIOUS
<1>1. InOrder
  BY DEF FlowInv, Line, Below, InOrder
<1>2. QueueExact
  <2>1. BlockLen(got) \in 0 .. BlockSize /\ queued \in Int
    BY FlowTypes, OneBlock
  <2>2. queued = BytesOf(queue) /\ queued + BlockLen(got) <= QueueMax + BlockSize
    BY DEF FlowInv
  <2> QED BY <2>1, <2>2, BackendAssumption DEF QueueExact
<1> QED BY <1>1, <1>2 DEF FlowInv, OnceInOrder

\* What the reader takes from the UART is given out once and in order, or announced, whatever the
\* limit of the queue and the size of the blocks, over blocks put back, resets and the reader's
\* end; and the queue passes its limit by one block at most.
THEOREM GivenOnceInOrder == Spec => []OnceInOrder
<1>1. Spec => []TypeInv
  BY TypeInit, TypeStep, PTL DEF Spec
<1>2. Spec => []FlowInv
  BY <1>1, FlowInit, FlowStep, PTL DEF Spec
<1>3. TypeInv /\ FlowInv => OnceInOrder
  BY FlowIsOnce
<1> QED BY <1>1, <1>2, <1>3, PTL
=============================================================================
