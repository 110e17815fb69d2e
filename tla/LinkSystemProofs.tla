-------------------------- MODULE LinkSystemProofs --------------------------
(***************************************************************************)
(* What holds in every reachable state of the link and its client, for any *)
(* number of data channels, connections, timeouts and faults: what an      *)
(* answer answers, what STOP leaves, which configuration a session has,    *)
(* that its data streams miss nothing unannounced, and where those of a    *)
(* client that joins begin.  The bounds of the model only end behaviours   *)
(* early.                                                                  *)
(***************************************************************************)
EXTENDS LinkSystem, TotalsProofs, SequenceTheorems

EnqueueFold == INSTANCE FoldProofs WITH Op <- Enqueue
BegunFold == INSTANCE FoldProofs WITH Op <- ForwardBegun
StartFold == INSTANCE FoldProofs WITH Op <- StartOn
PullFold == INSTANCE FoldProofs WITH Op <- PullOn
TakenFold == INSTANCE FoldProofs WITH Op <- Taken
RegsFold == INSTANCE FoldProofs WITH Op <- AddAccepted
AfterFold == INSTANCE FoldProofs WITH Op <- AfterItem
UnitsFold == INSTANCE FoldProofs WITH Op <- UnitAfter

-----------------------------------------------------------------------------
(* Types. *)

UnitType == [p : Nat, hb : Nat]
DataType == [type : {"DATA"}, ch : Dcs, data : Seq(UnitType)]
ControlType == [type : {"CONTROL"}, n : Nat, data : {<<>>}]
EventType ==
    [type : {"EVENT"}, ch : Nat, bytes : Nat, ctl : Nat, own : BOOLEAN, data : {<<>>}]

Items == DataType \cup ControlType \cup EventType

RequestTypes == {"HELLO", "CONFIG", "STOP", "ATTACH"}
Regs == {"none", "rate", "capture"}
Verdicts == {"none", "accepted", "rejected"}

RequestType == [n : Nat, type : RequestTypes, reg : Regs]
Logs == Seq(Regs \X Verdicts)
Joins == [grid : Nat, log : Logs, base : Nat]
ReplyType ==
    [type : {"REPLY"}, of : RequestTypes, for : Nat, status : {"ok", "error"}, rest : Verdicts,
     join : Joins, data : {<<>>}]
WelcomeType == [type : {"WELCOME"}, runs : BOOLEAN, data : {<<>>}]

\* What is not an item.
Answering == ReplyType \cup WelcomeType \cup {Busy}
Messages == Items \cup Answering

Counts == [Dcs -> Nat]
ClientType ==
    [fd : Nat, streaming : BOOLEAN, attaching : BOOLEAN, grid : Nat, started : SUBSET Dcs,
     dropped : Counts, droppedCtl : Nat]
StreamType == [pos : Nat, grid : Nat, half : Nat]
DevType ==
    [on : BOOLEAN, setup : Seq(Regs), faults : Nat, reports : Nat, stream : [Dcs -> StreamType]]
SeenType == [dc : Dcs, grid : Nat, pos : Int]
PullType ==
    [dev : DevType, taken : Seq(Items), seen : Seq(SeenType), lastGrid : Counts, base : Nat,
     pos : Counts, tail : [Dcs -> Seq(UnitType)]]

\* The state that forward() works on.
ForwardType == [cl : ClientType, out : Seq(Messages), pull : PullType]

SockTypes ==
    /\ toLink \in [Conns -> Seq(RequestType)]
    /\ toClient \in [Conns -> Seq(Messages)]
    /\ backlog \in Seq(Conns)

LinkTypes ==
    /\ up \in BOOLEAN /\ hello \in BOOLEAN /\ running \in BOOLEAN
    /\ log \in Logs
    /\ lastGrid \in Counts /\ pos \in Counts
    /\ tail \in [Dcs -> Seq(UnitType)]
    /\ lossBase \in Nat
    /\ cl \in ClientType /\ cl.fd \in Conns \cup {0}
    /\ out \in Seq(Messages)
    /\ dev \in DevType

RemoteTypes ==
    /\ fd \in Conns \cup {0} /\ conns \in 0 .. MaxConns
    /\ sess \in Sessions
    /\ waiting \in RequestType \cup {None}
    /\ lastId \in Nat
    /\ haveReply \in BOOLEAN /\ linkRuns \in BOOLEAN
    /\ reply \in Answering \cup {NoReply}
    /\ queue \in Seq(Items)
    /\ timeouts \in SUBSET (Conns \X Nat)
    /\ joined \in Joins
    /\ setup \in Seq(Regs)

TypeInv == SockTypes /\ LinkTypes /\ RemoteTypes

-----------------------------------------------------------------------------
(* Messages. *)

LEMMA ItemsAre ==
    ASSUME NEW m \in Items
    PROVE  /\ m.type \in {"DATA", "CONTROL", "EVENT"} /\ IsItem(m)
           /\ m.type = "DATA" => m \in DataType /\ m.ch \in Dcs /\ m.data \in Seq(UnitType)
           /\ m.type # "DATA" => m.data = <<>>
<1>1. CASE m \in DataType
  BY <1>1 DEF DataType, IsItem
<1>2. CASE m \in ControlType
  BY <1>2 DEF ControlType, IsItem
<1>3. CASE m \in EventType
  BY <1>3 DEF EventType, IsItem
<1> QED BY <1>1, <1>2, <1>3 DEF Items

LEMMA AnsweringAre ==
    ASSUME NEW m \in Answering
    PROVE  /\ m.type \in {"REPLY", "WELCOME", "BUSY"} /\ ~IsItem(m)
           /\ m.type = "REPLY" => m \in ReplyType
           /\ m.type = "WELCOME" => m \in WelcomeType
<1>1. CASE m \in ReplyType
  BY <1>1 DEF ReplyType, IsItem
<1>2. CASE m \in WelcomeType
  BY <1>2 DEF WelcomeType, IsItem
<1>3. CASE m = Busy
  BY <1>3 DEF Busy, IsItem
<1> QED BY <1>1, <1>2, <1>3 DEF Answering

LEMMA MessagesAre ==
    ASSUME NEW m \in Messages
    PROVE  IsItem(m) <=> m \in Items
BY ItemsAre, AnsweringAre DEF Messages

LEMMA DataIs ==
    ASSUME NEW d \in Dcs, NEW u \in Seq(UnitType)
    PROVE  Data(d, u) \in Items /\ Data(d, u) \in DataType
BY DEF Data, DataType, Items

LEMMA OverflowIs ==
    ASSUME NEW d \in Nat, NEW b \in Nat, NEW k \in Nat, NEW own \in BOOLEAN
    PROVE  Overflow(d, b, k, own) \in Items
BY DEF Overflow, EventType, Items

LEMMA ControlIs == \A n \in Nat : Control(n) \in Items
BY DEF Control, ControlType, Items

LEMMA DcsAre == Dcs \in SUBSET Nat /\ Dcs # {} /\ 0 \in Dcs
BY SizesAssumption DEF Dcs

LEMMA RequestsAre ==
    ASSUME NEW r \in RequestType
    PROVE  r # None /\ r.type \in RequestTypes /\ r.n \in Nat /\ r.reg \in Regs
BY DEF RequestType, RequestTypes, None, Ask

-----------------------------------------------------------------------------
(* What is queued for the client. *)

\* Everything of the client but what enqueue() counts.
Same(c, d) ==
    /\ d.fd = c.fd /\ d.streaming = c.streaming /\ d.attaching = c.attaching
    /\ d.grid = c.grid /\ d.started = c.started

LEMMA ClientFields ==
    ASSUME NEW c \in ClientType
    PROVE  /\ c.fd \in Nat /\ c.streaming \in BOOLEAN /\ c.attaching \in BOOLEAN
           /\ c.grid \in Nat /\ c.started \in SUBSET Dcs /\ c.dropped \in Counts
           /\ c.droppedCtl \in Nat
BY DEF ClientType

LEMMA NewDropped ==
    ASSUME NEW c \in ClientType, NEW r \in Counts
    PROVE  [c EXCEPT !.dropped = r] \in ClientType /\ Same(c, [c EXCEPT !.dropped = r])
BY DEF ClientType, Same

LEMMA NoneDropped ==
    ASSUME NEW c \in ClientType, NEW r \in Counts
    PROVE  /\ [c EXCEPT !.dropped = r, !.droppedCtl = 0] \in ClientType
           /\ Same(c, [c EXCEPT !.dropped = r, !.droppedCtl = 0])
BY DEF ClientType, Same

LEMMA CountDropIs ==
    ASSUME NEW c \in ClientType, NEW m \in Items
    PROVE  CountDrop(c, m) \in ClientType /\ Same(c, CountDrop(c, m))
<1>1. CASE m.type = "DATA"
  <2>1. m.ch \in Dcs /\ m.data \in Seq(UnitType)
    BY <1>1, ItemsAre
  <2>2. Len(m.data) \in Nat
    BY <2>1
  <2> DEFINE r == [c.dropped EXCEPT ![m.ch] = c.dropped[m.ch] + Len(m.data)]
  <2>3. r \in Counts
    BY <2>1, <2>2, ClientFields DEF Counts
  <2>4. CountDrop(c, m) = [c EXCEPT !.dropped = r]
    BY <1>1 DEF CountDrop, ClientType
  <2> HIDE DEF r
  <2> QED BY <2>3, <2>4, NewDropped
<1>2. CASE m.type # "DATA"
  BY <1>2 DEF CountDrop, ClientType, Same
<1> QED BY <1>1, <1>2

LEMMA ToldIs ==
    ASSUME NEW c \in ClientType, NEW m \in Items
    PROVE  Told(c, m) \in ClientType /\ Same(c, Told(c, m))
<1>1. CASE m.type = "DATA"
  <2>1. m.ch \in Dcs
    BY <1>1, ItemsAre
  <2> DEFINE r == [c.dropped EXCEPT ![m.ch] = 0]
  <2>3. r \in Counts
    BY <2>1, ClientFields DEF Counts
  <2>4. Told(c, m) = [c EXCEPT !.dropped = r, !.droppedCtl = 0]
    BY <1>1 DEF Told, ClientType
  <2> HIDE DEF r
  <2> QED BY <2>3, <2>4, NoneDropped
<1>2. CASE m.type # "DATA"
  BY <1>2 DEF Told, ClientType, Same
<1> QED BY <1>1, <1>2

LEMMA AnnouncementIs ==
    ASSUME NEW c \in ClientType, NEW m \in Items
    PROVE  Announcement(c, m) \in Items
<1>1. Owed(c, m) \in Nat
  BY ItemsAre, ClientFields DEF Owed, Counts
<1>2. (IF m.type = "DATA" THEN m.ch ELSE 0) \in Nat
  BY ItemsAre, DcsAre
<1> QED BY <1>1, <1>2, ClientFields, OverflowIs DEF Announcement

\* enqueue() only adds items to the queue.
Adds(q, r) ==
    /\ r \in ForwardType /\ r.pull = q.pull
    /\ \E x \in Seq(Items) : r.out = q.out \o x

LEMMA EnqueueIs ==
    ASSUME NEW q \in ForwardType, NEW m \in Items
    PROVE  Adds(q, Enqueue(q, m)) /\ Same(q.cl, Enqueue(q, m).cl)
<1>1. q.cl \in ClientType /\ q.out \in Seq(Messages) /\ q.pull \in PullType
  BY DEF ForwardType
<1>2. Messages = Messages \cup Items
  BY DEF Messages
<1>3. CASE QueuedUnits(q.out) + Units(m) > QueueMax
  <2> DEFINE c == CountDrop(q.cl, m)
  <2>1. c \in ClientType /\ Same(q.cl, c)
    BY <1>1, CountDropIs
  <2>2. Enqueue(q, m) = [q EXCEPT !.cl = c]
    BY <1>3 DEF Enqueue
  <2> HIDE DEF c
  <2>3. Enqueue(q, m) \in ForwardType /\ Enqueue(q, m).pull = q.pull /\ Enqueue(q, m).cl = c
        /\ Enqueue(q, m).out = q.out
    BY <1>1, <2>1, <2>2 DEF ForwardType
  <2>4. <<>> \in Seq(Items) /\ q.out = q.out \o <<>>
    BY <1>1
  <2> QED BY <2>1, <2>3, <2>4 DEF Adds
<1>4. CASE ~(QueuedUnits(q.out) + Units(m) > QueueMax) /\ ~Announces(q.cl, m)
  <2>1. Enqueue(q, m) = [q EXCEPT !.out = Append(q.out, m)]
    BY <1>4 DEF Enqueue
  <2>2. m \in Messages
    BY DEF Messages
  <2>3. Append(q.out, m) = q.out \o <<m>> /\ Append(q.out, m) \in Seq(Messages) /\ <<m>> \in Seq(Items)
    BY <1>1, <2>2
  <2>4. Enqueue(q, m) \in ForwardType /\ Enqueue(q, m).pull = q.pull /\ Enqueue(q, m).cl = q.cl
        /\ Enqueue(q, m).out = q.out \o <<m>>
    BY <1>1, <2>1, <2>3 DEF ForwardType
  <2> QED BY <2>3, <2>4 DEF Adds, Same
<1>5. CASE ~(QueuedUnits(q.out) + Units(m) > QueueMax) /\ Announces(q.cl, m)
  <2> DEFINE c == Told(q.cl, m)
  <2> DEFINE a == Announcement(q.cl, m)
  <2>1. c \in ClientType /\ Same(q.cl, c)
    BY <1>1, ToldIs
  <2>2. a \in Items
    BY <1>1, AnnouncementIs
  <2>3. Enqueue(q, m) = [q EXCEPT !.cl = c, !.out = q.out \o <<a, m>>]
    BY <1>5 DEF Enqueue
  <2> HIDE DEF c, a
  <2>4. <<a, m>> \in Seq(Items) /\ <<a, m>> \in Seq(Messages)
    BY <2>2 DEF Messages
  <2>5. q.out \o <<a, m>> \in Seq(Messages)
    BY <1>1, <2>4
  <2>6. Enqueue(q, m) \in ForwardType /\ Enqueue(q, m).pull = q.pull /\ Enqueue(q, m).cl = c
        /\ Enqueue(q, m).out = q.out \o <<a, m>>
    BY <1>1, <2>1, <2>3, <2>5 DEF ForwardType
  <2> QED BY <2>1, <2>4, <2>6 DEF Adds
<1> QED BY <1>3, <1>4, <1>5

LEMMA AddsNothing == \A q \in ForwardType : Adds(q, q) /\ Same(q.cl, q.cl)
<1> SUFFICES ASSUME NEW q \in ForwardType PROVE Adds(q, q) /\ Same(q.cl, q.cl)
  OBVIOUS
<1>1. q.out \in Seq(Messages)
  BY DEF ForwardType
<1>2. <<>> \in Seq(Items) /\ q.out = q.out \o <<>>
  BY <1>1
<1> QED BY <1>2 DEF Adds, Same

LEMMA AddsThen ==
    ASSUME NEW q \in ForwardType, NEW r, NEW s, Adds(q, r), Adds(r, s)
    PROVE  Adds(q, s)
<1>1. q.out \in Seq(Messages)
  BY DEF ForwardType
<1>2. PICK x \in Seq(Items) : r.out = q.out \o x
  BY DEF Adds
<1>3. PICK y \in Seq(Items) : s.out = r.out \o y
  BY DEF Adds
<1>4. x \o y \in Seq(Items) /\ x \in Seq(Messages) /\ y \in Seq(Messages)
  BY DEF Messages
<1> DEFINE u == q.out
<1> HIDE DEF u
<1>5. (u \o x) \o y = u \o (x \o y)
  <2>1. u \in Seq(Messages)
    BY <1>1 DEF u
  <2> QED BY <1>4, <2>1, ConcatAssociative
<1>6. s.out = q.out \o (x \o y)
  BY <1>2, <1>3, <1>5 DEF u
<1> QED BY <1>4, <1>6 DEF Adds

LEMMA EnqueueAllIs ==
    ASSUME NEW q \in ForwardType, NEW ms \in Seq(Items)
    PROVE  Adds(q, EnqueueAll(q, ms)) /\ Same(q.cl, EnqueueAll(q, ms).cl)
<1> DEFINE S == {r \in ForwardType : Adds(q, r) /\ Same(q.cl, r.cl)}
<1>1. q \in S
  BY AddsNothing
<1>2. ASSUME NEW r \in S, NEW i \in 1 .. Len(ms) PROVE Enqueue(r, ms[i]) \in S
  <2>1. ms[i] \in Items /\ r \in ForwardType /\ Adds(q, r) /\ Same(q.cl, r.cl)
    OBVIOUS
  <2>2. Adds(r, Enqueue(r, ms[i])) /\ Same(r.cl, Enqueue(r, ms[i]).cl)
    BY <2>1, EnqueueIs
  <2>3. Adds(q, Enqueue(r, ms[i]))
    BY <2>1, <2>2, AddsThen
  <2>4. Same(q.cl, Enqueue(r, ms[i]).cl)
    BY <2>1, <2>2 DEF Same
  <2> QED BY <2>2, <2>3, <2>4 DEF Adds
<1> HIDE DEF S
<1>3. EnqueueFold!Fold(q, ms) \in S
  BY <1>1, <1>2, EnqueueFold!FoldWithin
<1>4. EnqueueAll(q, ms) \in S
  BY <1>3 DEF EnqueueAll, EnqueueFold!Fold, EnqueueFold!MapThenFoldSet, EnqueueFold!Max,
              FoldLeft, MapThenFoldSet, Max
<1> QED BY <1>4 DEF S

LEMMA ForwardBegunIs ==
    ASSUME NEW q \in ForwardType, NEW m \in Items
    PROVE  Adds(q, ForwardBegun(q, m)) /\ Same(q.cl, ForwardBegun(q, m).cl)
BY EnqueueIs, AddsNothing DEF ForwardBegun

LEMMA AllBegunIs ==
    ASSUME NEW q \in ForwardType, NEW ms \in Seq(Items)
    PROVE  /\ Adds(q, FoldLeft(ForwardBegun, q, ms))
           /\ Same(q.cl, FoldLeft(ForwardBegun, q, ms).cl)
<1> DEFINE S == {r \in ForwardType : Adds(q, r) /\ Same(q.cl, r.cl)}
<1>1. q \in S
  BY AddsNothing
<1>2. ASSUME NEW r \in S, NEW i \in 1 .. Len(ms) PROVE ForwardBegun(r, ms[i]) \in S
  <2>1. ms[i] \in Items /\ r \in ForwardType /\ Adds(q, r) /\ Same(q.cl, r.cl)
    OBVIOUS
  <2>2. Adds(r, ForwardBegun(r, ms[i])) /\ Same(r.cl, ForwardBegun(r, ms[i]).cl)
    BY <2>1, ForwardBegunIs
  <2>3. Adds(q, ForwardBegun(r, ms[i]))
    BY <2>1, <2>2, AddsThen
  <2>4. Same(q.cl, ForwardBegun(r, ms[i]).cl)
    BY <2>1, <2>2 DEF Same
  <2> QED BY <2>2, <2>3, <2>4 DEF Adds
<1> HIDE DEF S
<1>3. BegunFold!Fold(q, ms) \in S
  BY <1>1, <1>2, BegunFold!FoldWithin
<1>4. FoldLeft(ForwardBegun, q, ms) \in S
  BY <1>3 DEF BegunFold!Fold, BegunFold!MapThenFoldSet, BegunFold!Max, FoldLeft, MapThenFoldSet, Max
<1> QED BY <1>4 DEF S

\* The first heartbeat a data channel may begin at.
FirstStart(p, c, d) == CHOOSE j \in StartsAt(p, c, d) : \A k \in StartsAt(p, c, d) : j <= k

LEMMA FirstStartIs ==
    ASSUME NEW p \in PullType, NEW c, NEW d, StartsAt(p, c, d) # {}
    PROVE  /\ FirstStart(p, c, d) \in StartsAt(p, c, d)
           /\ \A k \in StartsAt(p, c, d) : FirstStart(p, c, d) <= k
<1>1. StartsAt(p, c, d) \in SUBSET Nat
  BY DEF PullType, StartsAt
<1>2. \E j \in StartsAt(p, c, d) : \A k \in StartsAt(p, c, d) : j <= k
  BY <1>1, LeastNatural
<1> QED BY <1>2 DEF FirstStart

LEMMA FirstDataIs ==
    ASSUME NEW p \in PullType, NEW c, NEW d \in Dcs, StartsAt(p, c, d) # {}
    PROVE  FirstData(p, c, d) \in Items /\ FirstData(p, c, d) \in DataType
<1> DEFINE i == FirstStart(p, c, d)
<1>1. i \in DOMAIN p.seen /\ p.seen[i].pos >= TailPos(p, d)
  BY FirstStartIs DEF StartsAt
<1>2. p.tail[d] \in Seq(UnitType) /\ p.pos[d] \in Nat /\ p.seen \in Seq(SeenType)
  BY DEF PullType, Counts
<1>3. p.seen[i].pos \in Int /\ TailPos(p, d) \in Int
  <2>1. p.seen[i] \in SeenType
    BY <1>1, <1>2
  <2>2. p.seen[i].pos \in Int
    BY <2>1 DEF SeenType
  <2>3. Len(p.tail[d]) \in Nat
    BY <1>2
  <2> QED BY <1>2, <2>2, <2>3 DEF TailPos
<1> DEFINE from == p.seen[i].pos - TailPos(p, d) + 1
<1>4. from \in Int /\ from >= 1
  BY <1>1, <1>3
<1>5. FirstData(p, c, d) = Data(d, SubSeq(p.tail[d], from, Len(p.tail[d])))
  BY DEF FirstData, FirstStart
<1> HIDE DEF i, from
<1>6. SubSeq(p.tail[d], from, Len(p.tail[d])) \in Seq(UnitType)
  BY <1>2, <1>4
<1> QED BY <1>5, <1>6, DataIs

\* The client is the same, and joins at the same grid count.
SamePlace(c, d) == d.fd = c.fd /\ d.grid = c.grid

LEMMA StartOnIs ==
    ASSUME NEW q \in ForwardType, NEW d \in Dcs
    PROVE  Adds(q, StartOn(q, d)) /\ SamePlace(q.cl, StartOn(q, d).cl)
<1>1. CASE d \in q.cl.started \/ StartsAt(q.pull, q.cl, d) = {}
  BY <1>1, AddsNothing DEF StartOn, SamePlace
<1>2. CASE ~(d \in q.cl.started \/ StartsAt(q.pull, q.cl, d) = {})
  <2>1. q.pull \in PullType
    BY DEF ForwardType
  <2> DEFINE e == Enqueue(q, FirstData(q.pull, q.cl, d))
  <2>2. Adds(q, e) /\ Same(q.cl, e.cl)
    BY <1>2, <2>1, FirstDataIs, EnqueueIs
  <2>3. StartOn(q, d) = [e EXCEPT !.cl.started = e.cl.started \cup {d}]
    BY <1>2 DEF StartOn
  <2> HIDE DEF e
  <2>4. e \in ForwardType /\ e.cl \in ClientType /\ e.cl.started \cup {d} \in SUBSET Dcs
    BY <2>2 DEF Adds, ForwardType, ClientType
  <2>5. [e.cl EXCEPT !.started = e.cl.started \cup {d}] \in ClientType
    BY <2>4 DEF ClientType
  <2>6. StartOn(q, d) = [e EXCEPT !.cl = [e.cl EXCEPT !.started = e.cl.started \cup {d}]]
    BY <2>3, <2>4 DEF ForwardType
  <2>7. /\ StartOn(q, d) \in ForwardType
        /\ StartOn(q, d).out = e.out /\ StartOn(q, d).pull = e.pull
        /\ StartOn(q, d).cl = [e.cl EXCEPT !.started = e.cl.started \cup {d}]
    BY <2>4, <2>5, <2>6 DEF ForwardType
  <2>8. SamePlace(q.cl, StartOn(q, d).cl)
    BY <2>2, <2>4, <2>7 DEF Same, SamePlace, ClientType
  <2> QED BY <2>2, <2>7, <2>8 DEF Adds
<1> QED BY <1>1, <1>2

AllDcs == [i \in 1 .. DcCount |-> i - 1]

LEMMA AllDcsAre == AllDcs \in Seq(Dcs) /\ Len(AllDcs) = DcCount
BY SizesAssumption DEF AllDcs, Dcs

LEMMA AllStartedIs ==
    ASSUME NEW q \in ForwardType
    PROVE  /\ Adds(q, FoldLeft(StartOn, q, AllDcs))
           /\ SamePlace(q.cl, FoldLeft(StartOn, q, AllDcs).cl)
<1> DEFINE S == {r \in ForwardType : Adds(q, r) /\ SamePlace(q.cl, r.cl)}
<1>1. q \in S
  BY AddsNothing DEF SamePlace
<1>2. ASSUME NEW r \in S, NEW i \in 1 .. Len(AllDcs) PROVE StartOn(r, AllDcs[i]) \in S
  <2>1. AllDcs[i] \in Dcs /\ r \in ForwardType /\ Adds(q, r) /\ SamePlace(q.cl, r.cl)
    BY AllDcsAre
  <2>2. Adds(r, StartOn(r, AllDcs[i])) /\ SamePlace(r.cl, StartOn(r, AllDcs[i]).cl)
    BY <2>1, StartOnIs
  <2>3. Adds(q, StartOn(r, AllDcs[i]))
    BY <2>1, <2>2, AddsThen
  <2>4. SamePlace(q.cl, StartOn(r, AllDcs[i]).cl)
    BY <2>1, <2>2 DEF SamePlace
  <2> QED BY <2>2, <2>3, <2>4 DEF Adds
<1> HIDE DEF S
<1>3. StartFold!Fold(q, AllDcs) \in S
  BY <1>1, <1>2, AllDcsAre, StartFold!FoldWithin
<1>4. FoldLeft(StartOn, q, AllDcs) \in S
  BY <1>3 DEF StartFold!Fold, StartFold!MapThenFoldSet, StartFold!Max, FoldLeft, MapThenFoldSet, Max
<1> QED BY <1>4 DEF S

\* forward() only adds items to the queue, of the same client.
LEMMA ForwardedIs ==
    ASSUME NEW q \in ForwardType
    PROVE  Adds(q, Forwarded(q)) /\ SamePlace(q.cl, Forwarded(q).cl)
<1>1. q.pull.taken \in Seq(Items)
  BY DEF ForwardType, PullType
<1>2. CASE q.cl.attaching
  <2> DEFINE b == FoldLeft(ForwardBegun, q, q.pull.taken)
  <2>1. Adds(q, b) /\ Same(q.cl, b.cl)
    BY <1>1, AllBegunIs
  <2> HIDE DEF b
  <2> DEFINE a == FoldLeft(StartOn, b, AllDcs)
  <2>2. Adds(b, a) /\ SamePlace(b.cl, a.cl)
    BY <2>1, AllStartedIs DEF Adds
  <2>3. Forwarded(q) = [a EXCEPT !.cl.attaching = (a.cl.started # Dcs),
                                 !.cl.streaming = (a.cl.started = Dcs)]
    BY <1>2 DEF Forwarded, Attached, AllDcs, b
  <2> HIDE DEF a
  <2>4. a \in ForwardType /\ a.cl \in ClientType /\ Adds(q, a)
    <3>1. Adds(q, a)
      BY <2>1, <2>2, AddsThen
    <3> QED BY <3>1 DEF Adds, ForwardType
  <2> DEFINE c == [a.cl EXCEPT !.attaching = (a.cl.started # Dcs), !.streaming = (a.cl.started = Dcs)]
  <2>5. c \in ClientType /\ SamePlace(a.cl, c)
    <3>1. (a.cl.started # Dcs) \in BOOLEAN /\ (a.cl.started = Dcs) \in BOOLEAN
      OBVIOUS
    <3>2. \A x, y \in BOOLEAN : [a.cl EXCEPT !.attaching = x, !.streaming = y] \in ClientType
      BY <2>4 DEF ClientType
    <3>3. c \in ClientType
      BY <3>1, <3>2
    <3> QED BY <2>4, <3>3 DEF ClientType, SamePlace
  <2>6. Forwarded(q) = [a EXCEPT !.cl = c]
    BY <2>3, <2>4 DEF ForwardType
  <2> HIDE DEF c
  <2>7. /\ Forwarded(q) \in ForwardType /\ Forwarded(q).cl = c
        /\ Forwarded(q).out = a.out /\ Forwarded(q).pull = a.pull
    BY <2>4, <2>5, <2>6 DEF ForwardType
  <2>8. Adds(q, Forwarded(q))
    BY <2>4, <2>7 DEF Adds
  <2>9. SamePlace(q.cl, c)
    BY <2>1, <2>2, <2>5 DEF Same, SamePlace
  <2> QED BY <2>7, <2>8, <2>9
<1>3. CASE ~q.cl.attaching /\ q.cl.streaming
  <2>1. Forwarded(q) = EnqueueAll(q, q.pull.taken)
    BY <1>3 DEF Forwarded
  <2> QED BY <1>1, <2>1, EnqueueAllIs DEF Same, SamePlace
<1>4. CASE ~q.cl.attaching /\ ~q.cl.streaming
  BY <1>4, AddsNothing DEF Forwarded, SamePlace
<1> QED BY <1>2, <1>3, <1>4

-----------------------------------------------------------------------------
(* Pulls. *)

LEMMA GreatestExists ==
    ASSUME NEW f \in Counts
    PROVE  \E d \in Dcs : \A e \in Dcs : f[d] >= f[e]
<1> DEFINE S == {n \in Nat : n < DcCount => \E d \in 0 .. n : \A e \in 0 .. n : f[d] >= f[e]}
<1>1. \A d \in Dcs : f[d] \in Nat
  BY DEF Counts
<1>2. 0 \in S
  <2>1. 0 .. 0 = {0}
    OBVIOUS
  <2>2. f[0] \in Nat
    BY <1>1, DcsAre
  <2> QED BY <2>1, <2>2
<1>3. ASSUME NEW n \in S PROVE n + 1 \in S
  <2>1. n \in Nat
    OBVIOUS
  <2>2. SUFFICES ASSUME n + 1 < DcCount
                 PROVE  \E d \in 0 .. n + 1 : \A e \in 0 .. n + 1 : f[d] >= f[e]
    BY <2>1
  <2>3. PICK d \in 0 .. n : \A e \in 0 .. n : f[d] >= f[e]
    BY <2>1, <2>2, SizesAssumption
  <2>4. 0 .. n + 1 = (0 .. n) \cup {n + 1} /\ d \in 0 .. n + 1
    BY <2>1, <2>3
  <2>5. \A e \in 0 .. n + 1 : e \in Dcs
    BY <2>1, <2>2, SizesAssumption DEF Dcs
  <2>6. f[d] \in Nat /\ f[n + 1] \in Nat /\ \A e \in 0 .. n : f[e] \in Nat
    BY <1>1, <2>4, <2>5
  <2>7. CASE f[d] >= f[n + 1]
    BY <2>3, <2>4, <2>7
  <2>8. CASE f[n + 1] >= f[d]
    <3>1. \A e \in 0 .. n : f[n + 1] >= f[e]
      BY <2>3, <2>6, <2>8
    <3>2. f[n + 1] >= f[n + 1]
      BY <2>6
    <3>3. n + 1 \in 0 .. n + 1
      BY <2>4
    <3> QED BY <2>4, <3>1, <3>2, <3>3
  <2> QED BY <2>6, <2>7, <2>8
<1> HIDE DEF S
<1>4. S \in SUBSET Nat
  BY DEF S
<1>5. DcCount - 1 \in S
  BY <1>2, <1>3, <1>4, InductiveSet, SizesAssumption
<1> QED BY <1>5, SizesAssumption DEF S, Dcs

LEMMA JoinGridIs ==
    ASSUME lastGrid \in Counts
    PROVE  /\ JoinGrid \in Nat
           /\ \A d \in Dcs : JoinGrid > lastGrid[d]
<1> DEFINE G == {lastGrid[d] : d \in Dcs}
<1> DEFINE Top(g) == \A d \in Dcs : g >= lastGrid[d]
<1>1. PICK d \in Dcs : \A e \in Dcs : lastGrid[d] >= lastGrid[e]
  BY GreatestExists
<1>2. lastGrid[d] \in G /\ Top(lastGrid[d])
  BY <1>1
<1>3. JoinGrid = 1 + CHOOSE g \in G : Top(g)
  BY DEF JoinGrid
<1> HIDE DEF G, Top
<1> DEFINE t == CHOOSE g \in G : Top(g)
<1>4. t \in G /\ Top(t)
  BY <1>2
<1>5. JoinGrid = 1 + t
  BY <1>3
<1> HIDE DEF t
<1>6. t \in Nat /\ \A e \in Dcs : lastGrid[e] \in Nat /\ t >= lastGrid[e]
  BY <1>4 DEF G, Top, Counts
<1> QED BY <1>5, <1>6

LEMMA StreamsWith ==
    ASSUME NEW v \in DevType, NEW d \in Dcs, NEW s \in StreamType
    PROVE  [v EXCEPT !.stream = [v.stream EXCEPT ![d] = s]] \in DevType
BY DEF DevType

LEMMA PullParts ==
    ASSUME NEW p \in PullType
    PROVE  /\ p.dev \in DevType /\ p.taken \in Seq(Items) /\ p.seen \in Seq(SeenType)
           /\ p.lastGrid \in Counts /\ p.base \in Nat /\ p.pos \in Counts
           /\ p.tail \in [Dcs -> Seq(UnitType)]
BY DEF PullType

LEMMA DevParts ==
    ASSUME NEW v \in DevType
    PROVE  /\ v.on \in BOOLEAN /\ v.setup \in Seq(Regs) /\ v.faults \in Nat /\ v.reports \in Nat
           /\ v.stream \in [Dcs -> StreamType]
           /\ \A d \in Dcs : v.stream[d] \in StreamType /\ v.stream[d].pos \in Nat
                             /\ v.stream[d].grid \in Nat /\ v.stream[d].half \in Nat
BY DEF DevType, StreamType

\* A pull reads the device and leaves its configuration.
SameSetup(v, w) == w.on = v.on /\ w.setup = v.setup /\ w.faults = v.faults

\* What one read makes of a pull.
ReadsOn(p, r) == r \in PullType /\ SameSetup(p.dev, r.dev)

LEMMA TeeDataIs ==
    ASSUME NEW p \in PullType, NEW d \in Dcs, NEW hb \in Nat
    PROVE  /\ ReadsOn(p, TeeData(p, d, hb))
           /\ TeeData(p, d, hb).lastGrid = p.lastGrid /\ TeeData(p, d, hb).seen = p.seen
<1> DEFINE s == p.dev.stream[d]
<1> DEFINE unit == [p |-> s.pos, hb |-> hb]
<1> DEFINE next == [pos |-> s.pos + 1, half |-> hb, grid |-> IF hb > 0 THEN hb ELSE s.grid]
<1> DEFINE v == [p.dev EXCEPT !.stream = [p.dev.stream EXCEPT ![d] = next]]
<1> DEFINE t == Append(p.taken, Data(d, <<unit>>))
<1> DEFINE ps == [p.pos EXCEPT ![d] = p.pos[d] + 1]
<1> DEFINE tl == [p.tail EXCEPT ![d] = Append(p.tail[d], unit)]
<1>1. p.dev \in DevType /\ s.pos \in Nat /\ s.grid \in Nat
  BY PullParts, DevParts
<1>2. unit \in UnitType /\ next \in StreamType
  BY <1>1 DEF UnitType, StreamType
<1> HIDE DEF unit, next
<1>3. v \in DevType /\ SameSetup(p.dev, v)
  <2>1. SameSetup(p.dev, v)
    BY <1>1 DEF SameSetup, DevType
  <2> QED BY <1>1, <1>2, <2>1, StreamsWith
<1>4. t \in Seq(Items)
  <2>1. <<unit>> \in Seq(UnitType)
    BY <1>2
  <2>2. Data(d, <<unit>>) \in Items
    BY <2>1, DataIs
  <2> QED BY <2>2, PullParts
<1>5. ps \in Counts
  BY PullParts DEF Counts
<1>6. tl \in [Dcs -> Seq(UnitType)]
  BY <1>2, PullParts
<1>7. TeeData(p, d, hb) = [p EXCEPT !.dev = v, !.taken = t, !.pos = ps, !.tail = tl]
  BY <1>1 DEF TeeData, unit, next, PullType, DevType
<1> HIDE DEF v, t, ps, tl
<1> QED BY <1>3, <1>4, <1>5, <1>6, <1>7 DEF PullType, ReadsOn

LEMMA TeeHeartbeatIs ==
    ASSUME NEW p \in PullType, NEW d \in Dcs
    PROVE  ReadsOn(p, TeeHeartbeat(p, d))
<1> DEFINE r == TeeData(p, d, 0)
<1> DEFINE h == p.dev.stream[d].half
<1> DEFINE at == p.pos[d] - 1
<1>1. ReadsOn(p, r) /\ r.lastGrid = p.lastGrid /\ r.seen = p.seen
  BY TeeDataIs
<1>2. h \in Nat /\ at \in Int
  BY PullParts, DevParts DEF Counts
<1>3. TeeHeartbeat(p, d) = [r EXCEPT !.lastGrid = [r.lastGrid EXCEPT ![d] = h],
                                     !.seen = Append(r.seen, [dc |-> d, grid |-> h, pos |-> at])]
  <2>1. r \in PullType
    BY <1>1 DEF ReadsOn
  <2> QED BY <2>1 DEF TeeHeartbeat, PullType
<1> HIDE DEF r, h, at
<1>4. [dc |-> d, grid |-> h, pos |-> at] \in SeenType
  BY <1>2 DEF SeenType
<1> DEFINE sn == Append(r.seen, [dc |-> d, grid |-> h, pos |-> at])
<1> DEFINE lg == [r.lastGrid EXCEPT ![d] = h]
<1>5. r \in PullType /\ SameSetup(p.dev, r.dev)
  BY <1>1 DEF ReadsOn
<1>6. sn \in Seq(SeenType) /\ lg \in Counts
  BY <1>2, <1>4, <1>5, PullParts DEF Counts
<1> HIDE DEF sn, lg
<1>7. TeeHeartbeat(p, d) = [r EXCEPT !.lastGrid = lg, !.seen = sn]
  BY <1>3 DEF sn, lg
<1> QED BY <1>5, <1>6, <1>7 DEF PullType, ReadsOn

LEMMA TeeReportIs ==
    ASSUME NEW p \in PullType
    PROVE  ReadsOn(p, TeeReport(p))
<1> DEFINE n == p.dev.reports + 1
<1> DEFINE v == [p.dev EXCEPT !.reports = n]
<1> DEFINE t == Append(p.taken, Control(n))
<1>1. p.dev \in DevType /\ n \in Nat
  BY PullParts, DevParts
<1>2. TeeReport(p) = [p EXCEPT !.dev = v, !.base = n, !.taken = t]
  BY <1>1 DEF TeeReport, PullType, DevType
<1> HIDE DEF n
<1>3. v \in DevType /\ SameSetup(p.dev, v)
  <2> DEFINE w == p.dev
  <2>1. w \in DevType
    BY <1>1
  <2> HIDE DEF w
  <2>2. [w EXCEPT !.reports = n] \in DevType /\ SameSetup(w, [w EXCEPT !.reports = n])
    BY <1>1, <2>1 DEF DevType, SameSetup
  <2> QED BY <2>2 DEF w
<1>4. t \in Seq(Items)
  <2>1. Control(n) \in Items
    BY <1>1, ControlIs
  <2> QED BY <2>1, PullParts
<1> HIDE DEF v, t
<1> QED BY <1>1, <1>2, <1>3, <1>4 DEF PullType, ReadsOn

LEMMA TeeOverflowIs ==
    ASSUME NEW p \in PullType, NEW d \in Dcs
    PROVE  ReadsOn(p, TeeOverflow(p, d))
<1> DEFINE s == p.dev.stream[d]
<1> DEFINE next == [pos |-> s.pos + 1, half |-> 0, grid |-> s.grid]
<1> DEFINE v == [p.dev EXCEPT !.stream = [p.dev.stream EXCEPT ![d] = next]]
<1> DEFINE t == Append(p.taken, Overflow(d, 1, 0, FALSE))
<1>1. p.dev \in DevType /\ s \in StreamType
  BY PullParts, DevParts
<1>2. next \in StreamType
  BY <1>1 DEF StreamType
<1>3. TeeOverflow(p, d) = [p EXCEPT !.dev = v, !.taken = t]
  BY <1>1 DEF TeeOverflow, PullType, DevType
<1> HIDE DEF next
<1>4. v \in DevType
  BY <1>1, <1>2, StreamsWith
<1>5. SameSetup(p.dev, v)
  BY <1>1 DEF SameSetup, DevType
<1>6. t \in Seq(Items)
  <2>1. d \in Nat
    BY DcsAre
  <2> DEFINE o == Overflow(d, 1, 0, FALSE)
  <2>2. o \in Items
    BY <2>1, OverflowIs
  <2> HIDE DEF o
  <2>3. p.taken \in Seq(Items)
    BY PullParts
  <2>4. Append(p.taken, o) \in Seq(Items)
    BY <2>2, <2>3
  <2> QED BY <2>4 DEF o
<1> HIDE DEF v, t
<1> QED BY <1>3, <1>4, <1>5, <1>6 DEF PullType, ReadsOn

LEMMA TeeReadIs ==
    ASSUME NEW p \in PullType, NEW r \in TeeRead(p)
    PROVE  ReadsOn(p, r)
<1>1. \A d \in Dcs : p.dev.stream[d].grid + 1 \in Nat
  BY PullParts, DevParts
<1>2. CASE r \in {TeeData(p, d, 0) : d \in Sends(p)}
  BY <1>2, TeeDataIs DEF Sends
<1>3. CASE r \in {TeeData(p, d, p.dev.stream[d].grid + 1) :
                      d \in {c \in Sends(p) : p.dev.stream[c].half = 0}}
  <2>1. PICK d \in Sends(p) : r = TeeData(p, d, p.dev.stream[d].grid + 1)
    BY <1>3
  <2>2. d \in Dcs
    BY DEF Sends
  <2> DEFINE hb == p.dev.stream[d].grid + 1
  <2>3. hb \in Nat
    BY <1>1, <2>2
  <2> HIDE DEF hb
  <2>4. ReadsOn(p, TeeData(p, d, hb))
    BY <2>2, <2>3, TeeDataIs
  <2> QED BY <2>1, <2>4 DEF hb
<1>4. CASE r \in {TeeHeartbeat(p, d) : d \in {c \in Sends(p) : p.dev.stream[c].half > 0}}
  BY <1>4, TeeHeartbeatIs DEF Sends
<1>5. CASE r \in {TeeOverflow(p, d) : d \in {c \in Sends(p) : BackendDrops}}
  BY <1>5, TeeOverflowIs DEF Sends
<1>6. CASE r \in (IF p.dev.reports < MaxReports THEN {TeeReport(p)} ELSE {})
  BY <1>6, TeeReportIs
<1> QED BY <1>2, <1>3, <1>4, <1>5, <1>6 DEF TeeRead

\* A pull of this state.
PullsOn == {p \in PullType : SameSetup(dev, p.dev)}

LEMMA PullStartIs ==
    ASSUME LinkTypes
    PROVE  PullStart \in PullsOn
<1> DEFINE Kept(d) == LET over == Len(tail[d]) - TailKeep IN
                      IF over > 0 THEN SubSeq(tail[d], over + 1, Len(tail[d])) ELSE tail[d]
<1>1. \A d \in Dcs : Kept(d) \in Seq(UnitType)
  <2> SUFFICES ASSUME NEW d \in Dcs PROVE Kept(d) \in Seq(UnitType)
    OBVIOUS
  <2>1. tail[d] \in Seq(UnitType) /\ Len(tail[d]) \in Nat /\ TailKeep \in Nat
    BY LinkAssumption DEF LinkTypes
  <2> DEFINE over == Len(tail[d]) - TailKeep
  <2>2. over \in Int
    BY <2>1
  <2>3. over > 0 => SubSeq(tail[d], over + 1, Len(tail[d])) \in Seq(UnitType)
    BY <2>1, <2>2
  <2> QED BY <2>1, <2>3
<1> DEFINE tl == [d \in Dcs |-> Kept(d)]
<1>2. tl \in [Dcs -> Seq(UnitType)]
  BY <1>1
<1>3. PullStart = [dev |-> dev, taken |-> <<>>, seen |-> <<>>, lastGrid |-> lastGrid,
                   base |-> lossBase, pos |-> pos, tail |-> tl]
  BY DEF PullStart
<1> HIDE DEF tl
<1>4. <<>> \in Seq(Items) /\ <<>> \in Seq(SeenType)
  OBVIOUS
<1>5. PullStart \in PullType
  BY <1>2, <1>3, <1>4 DEF LinkTypes, PullType
<1> QED BY <1>3, <1>5 DEF PullsOn, SameSetup

LEMMA PullsAre ==
    ASSUME LinkTypes
    PROVE  Pulls \in SUBSET PullsOn
<1> DEFINE s == [i \in 1 .. PullMax |-> i]
<1>1. s \in Seq(Nat)
  BY LinkAssumption
<1> DEFINE S == SUBSET PullsOn
<1>2. {PullStart} \in S
  BY PullStartIs
<1>3. ASSUME NEW ps \in S, NEW i \in 1 .. Len(s) PROVE PullOn(ps, s[i]) \in S
  <2>1. ASSUME NEW p \in ps, NEW r \in TeeRead(p) PROVE r \in PullsOn
    <3>1. p \in PullType /\ SameSetup(dev, p.dev)
      BY DEF PullsOn
    <3>2. ReadsOn(p, r)
      BY <3>1, TeeReadIs
    <3> QED BY <3>1, <3>2 DEF ReadsOn, PullsOn, SameSetup
  <2>2. UNION {TeeRead(p) : p \in ps} \in SUBSET PullsOn
    BY <2>1
  <2> QED BY <2>2 DEF PullOn
<1> HIDE DEF S, s
<1>4. PullFold!Fold({PullStart}, s) \in S
  BY <1>1, <1>2, <1>3, PullFold!FoldWithin
<1>5. Pulls \in S
  BY <1>4 DEF Pulls, s, PullFold!Fold, PullFold!MapThenFoldSet,
              PullFold!Max, FoldLeft, MapThenFoldSet, Max
<1> QED BY <1>5 DEF S

\* forward() at the end of a pull.
LEMMA ForwardIs ==
    ASSUME LinkTypes, NEW p \in Pulls
    PROVE  /\ p \in PullType /\ SameSetup(dev, p.dev)
           /\ Forward(p).cl \in ClientType /\ SamePlace(cl, Forward(p).cl)
           /\ Forward(p).out \in Seq(Messages)
           /\ \E x \in Seq(Items) : Forward(p).out = out \o x
<1>1. p \in PullType /\ SameSetup(dev, p.dev)
  BY PullsAre DEF PullsOn
<1> DEFINE q == [cl |-> cl, out |-> out, pull |-> p]
<1>2. q \in ForwardType /\ q.cl = cl /\ q.out = out
  BY <1>1 DEF LinkTypes, ForwardType
<1>3. Forward(p) = Forwarded(q)
  BY DEF Forward
<1> HIDE DEF q
<1>4. Adds(q, Forwarded(q)) /\ SamePlace(q.cl, Forwarded(q).cl)
  BY <1>2, ForwardedIs
<1> DEFINE f == Forwarded(q)
<1>5. f \in ForwardType /\ SamePlace(cl, f.cl) /\ \E x \in Seq(Items) : f.out = out \o x
  BY <1>2, <1>4 DEF Adds
<1>6. f.cl \in ClientType /\ f.out \in Seq(Messages)
  BY <1>5 DEF ForwardType
<1> QED BY <1>1, <1>3, <1>5, <1>6

-----------------------------------------------------------------------------
(* What the client receives. *)

TakenType == [queue : Seq(Items), have : BOOLEAN, reply : Answering \cup {NoReply}]

LEMMA TakenIs ==
    ASSUME NEW r \in TakenType, NEW m \in Messages
    PROVE  /\ Taken(r, m) \in TakenType
           /\ m \in Items => Taken(r, m).have = r.have /\ Taken(r, m).reply = r.reply
           /\ m \notin Items => Taken(r, m).have /\ Taken(r, m).reply = m
<1>1. CASE m \in Items
  <2>1. IsItem(m)
    BY <1>1, MessagesAre
  <2> DEFINE q == Append(r.queue, m)
  <2>2. q \in Seq(Items)
    BY <1>1 DEF TakenType
  <2>3. Taken(r, m) = [r EXCEPT !.queue = q]
    BY <2>1 DEF Taken, TakenType
  <2> HIDE DEF q
  <2> QED BY <1>1, <2>2, <2>3 DEF TakenType
<1>2. CASE m \notin Items
  <2>1. ~IsItem(m) /\ m \in Answering
    BY <1>2, MessagesAre DEF Messages
  <2>2. Taken(r, m) = [r EXCEPT !.have = TRUE, !.reply = m]
    BY <2>1 DEF Taken
  <2> QED BY <1>2, <2>1, <2>2 DEF TakenType
<1> QED BY <1>1, <1>2

-----------------------------------------------------------------------------
(* What the link's handlers make of the device and of the client. *)

LEMMA CountsAre == NoCounts \in Counts
BY DEF NoCounts, Counts

LEMMA NoClientIs == NoClient \in ClientType /\ NoClient.fd = 0
BY CountsAre DEF NoClient, ClientType

LEMMA NewClientIs ==
    ASSUME NEW c \in Conns
    PROVE  [NoClient EXCEPT !.fd = c] \in ClientType /\ [NoClient EXCEPT !.fd = c].fd = c
<1>1. c \in Nat
  BY SizesAssumption DEF Conns
<1> QED BY <1>1, NoClientIs DEF ClientType

LEMMA EndedIs ==
    ASSUME cl \in ClientType
    PROVE  EndedClient \in ClientType /\ EndedClient.fd = cl.fd
BY DEF EndedClient, ClientType

LEMMA TailsAre == [d \in Dcs |-> <<>>] \in [Dcs -> Seq(UnitType)]
<1>1. <<>> \in Seq(UnitType)
  OBVIOUS
<1> QED BY <1>1

LEMMA QuietIs ==
    ASSUME NEW v \in DevType, NEW q \in [Dcs -> StreamType]
    PROVE  /\ [v EXCEPT !.stream = q] \in DevType /\ [v EXCEPT !.stream = q].on = v.on
           /\ [v EXCEPT !.stream = q].setup = v.setup
           /\ [v EXCEPT !.stream = q].faults = v.faults
BY DEF DevType

LEMMA ResetIs ==
    ASSUME NEW v \in DevType
    PROVE  /\ ResetDev(v) \in DevType /\ ResetDev(v).on = FALSE /\ ResetDev(v).setup = <<>>
           /\ ResetDev(v).faults = v.faults
<1> DEFINE q == [c \in Dcs |-> QuietStream]
<1> DEFINE e == <<>>
<1> DEFINE o == FALSE
<1> DEFINE a == [v EXCEPT !.on = o, !.setup = e, !.reports = 0]
<1>1. q \in [Dcs -> StreamType]
  BY DEF QuietStream, StreamType
<1>2. e \in Seq(Regs) /\ o \in BOOLEAN
  OBVIOUS
<1>3. ResetDev(v) = [a EXCEPT !.stream = q]
  BY DEF ResetDev
<1> HIDE DEF q, e, o
<1>4. a \in DevType /\ a.on = o /\ a.setup = e /\ a.faults = v.faults
  BY <1>2 DEF DevType
<1> HIDE DEF a
<1>5. /\ ResetDev(v) \in DevType /\ ResetDev(v).on = o /\ ResetDev(v).setup = e
      /\ ResetDev(v).faults = v.faults
  BY <1>1, <1>3, <1>4, QuietIs
<1> QED BY <1>5 DEF e, o

LEMMA FaultIs ==
    ASSUME NEW v \in DevType
    PROVE  /\ FaultDev(v) \in DevType /\ FaultDev(v).on = v.on /\ FaultDev(v).setup = v.setup
           /\ FaultDev(v).faults = v.faults + 1 /\ FaultDev(v).faults > 0
           /\ FaultDev(v).stream = v.stream
<1>1. v.faults + 1 \in Nat /\ v.faults + 1 > 0
  BY DevParts
<1> DEFINE n == v.faults + 1
<1>2. FaultDev(v) = [v EXCEPT !.faults = n]
  BY DEF FaultDev
<1>3. n \in Nat /\ n > 0
  BY <1>1
<1> HIDE DEF n
<1>4. FaultDev(v) \in DevType /\ FaultDev(v).on = v.on /\ FaultDev(v).setup = v.setup
      /\ FaultDev(v).faults = n /\ FaultDev(v).stream = v.stream
  BY <1>2, <1>3 DEF DevType
<1> QED BY <1>3, <1>4 DEF n

LEMMA HellosAre ==
    ASSUME NEW v \in DevType, NEW h \in Hellos(v)
    PROVE  /\ h[1] \in {"ok", "error"} /\ h[2] \in DevType
           /\ h[1] = "ok" => h[2] = ResetDev(v)
           /\ h[1] = "error" => h[2].faults > 0
<1>1. CASE h = <<"ok", ResetDev(v)>>
  BY <1>1, ResetIs
<1>2. CASE h = <<"error", FaultDev(v)>>
  BY <1>2, FaultIs
<1>3. CASE h = <<"error", FaultDev(ResetDev(v))>>
  <2>1. ResetDev(v) \in DevType
    BY ResetIs
  <2> QED BY <1>3, <2>1, FaultIs
<1> QED BY <1>1, <1>2, <1>3 DEF Hellos

\* The device has taken the configuration message.
Applied(v, reg) == [v EXCEPT !.setup = Append(@, reg), !.on = @ \/ reg = "capture"]

LEMMA AppliedIs ==
    ASSUME NEW v \in DevType, NEW reg \in Regs
    PROVE  /\ Applied(v, reg) \in DevType
           /\ Applied(v, reg).setup = Append(v.setup, reg)
           /\ Applied(v, reg).faults = v.faults
           /\ Applied(v, reg).stream = v.stream
           /\ Applied(v, reg).on => v.on \/ reg = "capture"
<1> DEFINE s == Append(v.setup, reg)
<1> DEFINE o == v.on \/ reg = "capture"
<1>1. s \in Seq(Regs)
  BY DevParts
<1>2. o \in BOOLEAN
  OBVIOUS
<1>3. Applied(v, reg) = [v EXCEPT !.setup = s, !.on = o]
  BY DEF Applied
<1>4. o => v.on \/ reg = "capture"
  OBVIOUS
<1> HIDE DEF s, o
<1>5. /\ Applied(v, reg) \in DevType /\ Applied(v, reg).setup = s
      /\ Applied(v, reg).faults = v.faults /\ Applied(v, reg).stream = v.stream
      /\ Applied(v, reg).on = o
  BY <1>1, <1>2, <1>3 DEF DevType
<1> QED BY <1>4, <1>5 DEF s

LEMMA ConfigsAre ==
    ASSUME NEW v \in DevType, NEW reg \in Regs, NEW r \in Configs(v, reg)
    PROVE  /\ r[1] \in {"ok", "error"} /\ r[2] \in Verdicts /\ r[3] \in DevType
           /\ r[1] = "ok" => \/ r[2] = "accepted" /\ r[3] = Applied(v, reg)
                             \/ r[2] = "rejected" /\ r[3] = v
           /\ r[1] = "error" => r[2] = "none" /\ r[3].faults > 0
           /\ r[3].stream = v.stream
<1>1. Applied(v, reg) \in DevType /\ Applied(v, reg).stream = v.stream
  BY AppliedIs
<1>2. CASE r = <<"ok", "accepted", Applied(v, reg)>>
  BY <1>1, <1>2 DEF Verdicts
<1>3. CASE r = <<"ok", "rejected", v>>
  BY <1>3 DEF Verdicts
<1>4. CASE r = <<"error", "none", FaultDev(v)>>
  BY <1>4, FaultIs DEF Verdicts
<1>5. CASE r = <<"error", "none", FaultDev(Applied(v, reg))>>
  BY <1>1, <1>5, FaultIs DEF Verdicts
<1> QED BY <1>2, <1>3, <1>4, <1>5 DEF Configs, Applied

LEMMA ReplyIs ==
    ASSUME NEW q \in RequestType, NEW s \in {"ok", "error"}, NEW t \in Verdicts, NEW j \in Joins
    PROVE  /\ Reply(q, s, t, j) \in ReplyType /\ Reply(q, s, t, j) \in Messages
           /\ Reply(q, s, t, j) \in Answering /\ Reply(q, s, t, j) \notin Items
<1>1. Reply(q, s, t, j) \in ReplyType
  BY DEF Reply, ReplyType, RequestType
<1>2. Reply(q, s, t, j) \in Answering
  BY <1>1 DEF Answering
<1> QED BY <1>1, <1>2, ItemsAre, AnsweringAre DEF Messages

LEMMA NoJoinIs == NoJoin \in Joins
<1>1. <<>> \in Logs
  BY DEF Logs
<1> QED BY <1>1 DEF NoJoin, Joins

LEMMA GreetingsAre ==
    ASSUME running \in BOOLEAN
    PROVE  /\ Welcome \in Messages /\ Busy \in Messages
           /\ Welcome \in Answering /\ Busy \in Answering
           /\ Welcome \notin Items /\ Busy \notin Items
<1>1. Welcome \in Answering /\ Busy \in Answering
  BY DEF Welcome, WelcomeType, Answering
<1> QED BY <1>1, ItemsAre, AnsweringAre DEF Messages

-----------------------------------------------------------------------------
(* Types are kept. *)

LEMMA TypeInit == SystemInit => TypeInv
<1> SUFFICES ASSUME SystemInit PROVE TypeInv
  OBVIOUS
<1>1. <<>> \in Seq(RequestType) /\ <<>> \in Seq(Messages) /\ <<>> \in Seq(Conns)
      /\ <<>> \in Seq(Items) /\ <<>> \in Seq(Regs) /\ <<>> \in Logs
  BY DEF Logs
<1>2. SockTypes
  BY <1>1 DEF SystemInit, SockInit, SockTypes
<1>3. dev \in DevType
  <2> DEFINE q == [d \in Dcs |-> QuietStream]
  <2>1. q \in [Dcs -> StreamType]
    BY DEF QuietStream, StreamType
  <2>2. dev = [on |-> FALSE, setup |-> <<>>, faults |-> 0, reports |-> 0, stream |-> q]
    BY DEF SystemInit, LinkInit
  <2> HIDE DEF q
  <2> QED BY <1>1, <2>1, <2>2 DEF DevType
<1>4. LinkTypes
  <2>1. cl \in ClientType /\ cl.fd \in Conns \cup {0}
    BY NoClientIs DEF SystemInit, LinkInit
  <2>2. lastGrid \in Counts /\ pos \in Counts /\ tail \in [Dcs -> Seq(UnitType)]
    BY CountsAre, TailsAre DEF SystemInit, LinkInit
  <2> QED BY <1>1, <1>3, <2>1, <2>2 DEF SystemInit, LinkInit, LinkTypes
<1>5. RemoteTypes
  <2>1. joined \in Joins
    BY NoJoinIs DEF SystemInit, RemoteInit
  <2>2. 0 \in 0 .. MaxConns
    BY SizesAssumption
  <2>3. fd \in Conns \cup {0} /\ conns \in 0 .. MaxConns
    BY <2>2 DEF SystemInit, RemoteInit
  <2>4. sess \in Sessions /\ waiting \in RequestType \cup {None} /\ lastId \in Nat
        /\ haveReply \in BOOLEAN /\ linkRuns \in BOOLEAN /\ timeouts \in SUBSET (Conns \X Nat)
    BY DEF SystemInit, RemoteInit, Sessions
  <2>5. reply \in Answering \cup {NoReply} /\ queue \in Seq(Items) /\ setup \in Seq(Regs)
    BY <1>1 DEF SystemInit, RemoteInit
  <2> QED BY <2>1, <2>3, <2>4, <2>5 DEF RemoteTypes
<1> QED BY <1>2, <1>4, <1>5 DEF TypeInv

LEMMA AcceptKeepsTypes ==
    ASSUME SockTypes, LinkTypes, AcceptClient
    PROVE  SockTypes' /\ LinkTypes'
<1> DEFINE c == Head(backlog)
<1>1. c \in Conns /\ backlog' \in Seq(Conns)
  BY DEF AcceptClient, SockTypes
<1>2. UNCHANGED <<clientEnd, up, captureVars, dev>>
  BY DEF AcceptClient
<1>3. CASE cl.fd # 0
  <2>1. /\ toClient' = [toClient EXCEPT ![c] = IF c \in clientEnd THEN Append(@, Busy) ELSE @]
        /\ CloseLinkEnd(c) /\ UNCHANGED <<cl, out>>
    BY <1>3 DEF AcceptClient
  <2> HIDE DEF c
  <2>2. Append(toClient[c], Busy) \in Seq(Messages)
    <3>1. toClient[c] \in Seq(Messages) /\ Busy \in Messages
      BY <1>1, GreetingsAre DEF SockTypes, LinkTypes
    <3> QED BY <3>1
  <2>3. toClient' \in [Conns -> Seq(Messages)]
    BY <1>1, <2>1, <2>2 DEF SockTypes
  <2>4. <<>> \in Seq(RequestType)
    OBVIOUS
  <2>5. toLink' \in [Conns -> Seq(RequestType)]
    BY <2>1, <2>4 DEF CloseLinkEnd, SockTypes
  <2> QED BY <1>1, <1>2, <2>1, <2>3, <2>5 DEF SockTypes, LinkTypes, captureVars
<1>4. CASE cl.fd = 0
  <2>1. /\ cl' = [NoClient EXCEPT !.fd = c] /\ out' = <<Welcome>>
        /\ UNCHANGED <<toLink, toClient, linkEnd>>
    BY <1>4 DEF AcceptClient
  <2> HIDE DEF c
  <2>2. cl' \in ClientType /\ cl'.fd = c
    BY <1>1, <2>1, NewClientIs
  <2>3. <<Welcome>> \in Seq(Messages)
    <3>1. Welcome \in Messages
      BY GreetingsAre DEF LinkTypes
    <3> QED BY <3>1
  <2>4. SockTypes'
    BY <1>1, <2>1 DEF SockTypes
  <2>5. out' \in Seq(Messages)
    BY <2>1, <2>3
  <2> QED BY <1>1, <1>2, <2>2, <2>4, <2>5 DEF LinkTypes, captureVars
<1> QED BY <1>3, <1>4

LEMMA DropKeepsTypes ==
    ASSUME SockTypes, LinkTypes, DropClient,
           UNCHANGED <<toClient, clientEnd, backlog, up, captureVars, dev>>
    PROVE  SockTypes' /\ LinkTypes'
<1>1. <<>> \in Seq(RequestType) /\ <<>> \in Seq(Messages)
  OBVIOUS
<1>2. SockTypes'
  BY <1>1 DEF DropClient, CloseLinkEnd, SockTypes
<1>3. cl' \in ClientType /\ cl'.fd = 0
  BY NoClientIs DEF DropClient
<1>4. out' \in Seq(Messages)
  BY <1>1 DEF DropClient
<1> QED BY <1>2, <1>3, <1>4 DEF LinkTypes, captureVars

\* What ClientWrite moves.
LEMMA WriteMoves ==
    ASSUME SockTypes, LinkTypes, NEW c \in Conns, NEW n \in 0 .. Len(out)
    PROVE  /\ toClient[c] \o SubSeq(out, 1, n) \in Seq(Messages)
           /\ SubSeq(out, n + 1, Len(out)) \in Seq(Messages)
           /\ (toClient[c] \o SubSeq(out, 1, n)) \o SubSeq(out, n + 1, Len(out))
                  = toClient[c] \o out
<1> DEFINE a == SubSeq(out, 1, n)
<1> DEFINE b == SubSeq(out, n + 1, Len(out))
<1> DEFINE t == toClient[c]
<1>1. t \in Seq(Messages) /\ out \in Seq(Messages)
  BY DEF SockTypes, LinkTypes
<1>2. Len(out) \in Nat /\ n \in Nat
  BY <1>1
<1>3. a \in Seq(Messages) /\ b \in Seq(Messages)
  BY <1>1, <1>2
<1>4. a \o b = out
  <2> DEFINE o == out
  <2>1. o \in Seq(Messages) /\ 1 \in 1 .. Len(o) + 1 /\ n \in 1 - 1 .. Len(o) /\ Len(o) \in n .. Len(o)
    BY <1>1, <1>2
  <2> HIDE DEF o
  <2>2. SubSeq(o, 1, n) \o SubSeq(o, n + 1, Len(o)) = SubSeq(o, 1, Len(o))
    BY <2>1, ConcatAdjacentSubSeq
  <2>3. SubSeq(o, 1, Len(o)) = o
    BY <2>1, SubSeqFull
  <2> QED BY <2>2, <2>3 DEF o
<1> HIDE DEF a, b, t
<1>5. (t \o a) \o b = t \o (a \o b)
  BY <1>1, <1>3, ConcatAssociative
<1>6. t \o a \in Seq(Messages)
  BY <1>1, <1>3
<1> QED BY <1>3, <1>4, <1>5, <1>6 DEF a, b, t

LEMMA WriteKeepsTypes ==
    ASSUME SockTypes, LinkTypes, ClientWrite
    PROVE  SockTypes' /\ LinkTypes'
<1>1. CASE cl.fd \notin clientEnd
  <2>1. DropClient /\ UNCHANGED <<toClient, clientEnd, backlog, up, captureVars, dev>>
    BY <1>1 DEF ClientWrite
  <2> QED BY <2>1, DropKeepsTypes
<1>2. CASE cl.fd \in clientEnd
  <2> DEFINE room == SockMax - Len(toClient[cl.fd])
  <2> DEFINE n == IF Len(out) < room THEN Len(out) ELSE room
  <2>1. /\ n > 0
        /\ toClient' = [toClient EXCEPT ![cl.fd] = @ \o SubSeq(out, 1, n)]
        /\ out' = SubSeq(out, n + 1, Len(out))
        /\ UNCHANGED <<cl, linkEnd, toLink, clientEnd, backlog, up, captureVars, dev>>
    BY <1>2 DEF ClientWrite
  <2>2. cl.fd \in Conns
    BY DEF ClientWrite, LinkTypes
  <2>3. n \in 0 .. Len(out)
    <3>1. toClient[cl.fd] \in Seq(Messages) /\ out \in Seq(Messages)
      BY <2>2 DEF SockTypes, LinkTypes
    <3>2. Len(toClient[cl.fd]) \in Nat /\ Len(out) \in Nat /\ SockMax \in Nat
      BY <3>1, SizesAssumption
    <3> QED BY <2>1, <3>2
  <2> HIDE DEF n
  <2>4. /\ toClient[cl.fd] \o SubSeq(out, 1, n) \in Seq(Messages)
        /\ SubSeq(out, n + 1, Len(out)) \in Seq(Messages)
    BY <2>2, <2>3, WriteMoves
  <2>5. SockTypes'
    BY <2>1, <2>4 DEF SockTypes
  <2> QED BY <2>1, <2>4, <2>5 DEF LinkTypes, captureVars
<1> QED BY <1>1, <1>2

LEMMA RequestIs ==
    ASSUME SockTypes, LinkTypes, NEW type, NEW req, Request(type, req)
    PROVE  /\ req \in RequestType /\ req.type = type /\ cl.fd \in Conns
           /\ toLink[cl.fd] \in Seq(RequestType) /\ toLink[cl.fd] # <<>>
           /\ req = Head(toLink[cl.fd])
           /\ toLink' = [toLink EXCEPT ![cl.fd] = Tail(@)]
           /\ SockTypes' /\ up' = up
<1>1. cl.fd \in Conns /\ cl.fd # 0
  BY DEF Request, LinkTypes
<1> DEFINE s == toLink[cl.fd]
<1>2. s \in Seq(RequestType) /\ s # <<>>
  BY <1>1 DEF Request, SockTypes
<1>3. req = Head(s) /\ toLink' = [toLink EXCEPT ![cl.fd] = Tail(s)]
      /\ UNCHANGED <<toClient, clientEnd, linkEnd, backlog, up>> /\ req.type = type
  BY DEF Request
<1> HIDE DEF s
<1>4. req \in RequestType /\ Tail(s) \in Seq(RequestType)
  BY <1>2, <1>3
<1>5. SockTypes'
  BY <1>1, <1>3, <1>4 DEF SockTypes
<1> QED BY <1>1, <1>2, <1>3, <1>4, <1>5 DEF s

LEMMA AnswerIs ==
    ASSUME LinkTypes, NEW q \in RequestType, NEW s \in {"ok", "error"}, NEW t \in Verdicts,
           NEW j \in Joins, Answer(q, s, t, j)
    PROVE  out' \in Seq(Messages) /\ out' = Append(out, Reply(q, s, t, j))
<1> DEFINE r == Reply(q, s, t, j)
<1>1. r \in Messages
  BY ReplyIs
<1>2. out' = Append(out, r)
  BY DEF Answer
<1> HIDE DEF r
<1>3. out' \in Seq(Messages)
  BY <1>1, <1>2 DEF LinkTypes
<1> QED BY <1>2, <1>3 DEF r

LEMMA EndKeepsTypes ==
    ASSUME LinkTypes, EndIfRunning
    PROVE  /\ running' = FALSE
           /\ cl' \in ClientType /\ cl'.fd = cl.fd
           /\ lastGrid' \in Counts /\ pos' \in Counts /\ tail' \in [Dcs -> Seq(UnitType)]
<1>1. cl \in ClientType
  BY DEF LinkTypes
<1>2. CASE running
  BY <1>1, <1>2, EndedIs, CountsAre, TailsAre DEF EndIfRunning, EndCapture
<1>3. CASE ~running
  BY <1>1, <1>3 DEF EndIfRunning, LinkTypes
<1> QED BY <1>2, <1>3

LEMMA HelloKeepsTypes ==
    ASSUME SockTypes, LinkTypes, NEW req, OnHello(req)
    PROVE  SockTypes' /\ LinkTypes'
<1>1. SockTypes' /\ req \in RequestType /\ up' = up
  BY RequestIs DEF OnHello
<1>2. EndIfRunning /\ log' = <<>> /\ UNCHANGED lossBase
  BY DEF OnHello
<1> DEFINE v == IF running THEN ResetDev(dev) ELSE dev
<1>3. v \in DevType
  BY ResetIs DEF LinkTypes
<1>4. PICK h \in Hellos(v) : dev' = h[2] /\ hello' = (hello \/ h[1] = "ok")
                             /\ Answer(req, h[1], "none", NoJoin)
  BY DEF OnHello
<1> HIDE DEF v
<1>5. h[1] \in {"ok", "error"} /\ dev' \in DevType
  BY <1>3, <1>4, HellosAre
<1>6. out' \in Seq(Messages)
  BY <1>1, <1>4, <1>5, NoJoinIs, AnswerIs DEF Verdicts
<1>7. hello' \in BOOLEAN
  BY <1>4
<1>8. log' \in Logs
  BY <1>2 DEF Logs
<1> QED BY <1>1, <1>2, <1>5, <1>6, <1>7, <1>8, EndKeepsTypes DEF LinkTypes

LEMMA StopKeepsTypes ==
    ASSUME SockTypes, LinkTypes, NEW req, OnStop(req)
    PROVE  SockTypes' /\ LinkTypes'
<1>1. SockTypes' /\ req \in RequestType /\ up' = up
  BY RequestIs DEF OnStop
<1>2. EndIfRunning /\ UNCHANGED <<hello, log, lossBase>> /\ Answer(req, "ok", "none", NoJoin)
      /\ dev' = IF running THEN ResetDev(dev) ELSE dev
  BY DEF OnStop
<1>3. dev' \in DevType
  BY <1>2, ResetIs DEF LinkTypes
<1>4. out' \in Seq(Messages)
  BY <1>1, <1>2, NoJoinIs, AnswerIs DEF Verdicts
<1> QED BY <1>1, <1>2, <1>3, <1>4, EndKeepsTypes DEF LinkTypes

LEMMA RefuseKeepsTypes ==
    ASSUME SockTypes, LinkTypes, NEW req, RefuseConfig(req)
    PROVE  SockTypes' /\ LinkTypes'
<1>1. SockTypes' /\ req \in RequestType /\ up' = up
  BY RequestIs DEF RefuseConfig
<1>2. UNCHANGED <<captureVars, cl, dev>> /\ Answer(req, "error", "none", NoJoin)
  BY DEF RefuseConfig
<1>3. out' \in Seq(Messages)
  BY <1>1, <1>2, NoJoinIs, AnswerIs DEF Verdicts
<1> QED BY <1>1, <1>2, <1>3 DEF LinkTypes, captureVars

LEMMA LogsAre ==
    ASSUME NEW l \in Logs, NEW g \in Regs, NEW t \in Verdicts
    PROVE  Append(l, <<g, t>>) \in Logs
<1>1. <<g, t>> \in Regs \X Verdicts
  OBVIOUS
<1> QED BY <1>1 DEF Logs

\* CaptureBegin() makes a client that gets the items.
LEMMA BegunClientIs ==
    ASSUME cl \in ClientType
    PROVE  /\ [cl EXCEPT !.streaming = TRUE, !.started = {}, !.dropped = NoCounts] \in ClientType
           /\ [cl EXCEPT !.streaming = TRUE, !.started = {}, !.dropped = NoCounts].fd = cl.fd
<1> DEFINE o == TRUE
<1> DEFINE n == NoCounts
<1>1. o \in BOOLEAN /\ n \in Counts
  BY CountsAre
<1> HIDE DEF o, n
<1>2. /\ [cl EXCEPT !.streaming = o, !.started = {}, !.dropped = n] \in ClientType
      /\ [cl EXCEPT !.streaming = o, !.started = {}, !.dropped = n].fd = cl.fd
  BY <1>1 DEF ClientType
<1> QED BY <1>2 DEF o, n

LEMMA ConfigKeepsTypes ==
    ASSUME SockTypes, LinkTypes, NEW req, OnConfig(req)
    PROVE  SockTypes' /\ LinkTypes'
<1>1. SockTypes' /\ req \in RequestType /\ up' = up
  BY RequestIs DEF OnConfig
<1>2. req.reg \in Regs /\ dev \in DevType
  BY <1>1, RequestsAre DEF LinkTypes
<1>3. PICK r \in Configs(dev, req.reg) :
         /\ Answer(req, r[1], r[2], NoJoin)
         /\ log' = IF r[1] = "ok" THEN Append(log, <<req.reg, r[2]>>) ELSE log
         /\ IF req.reg = "capture" /\ r[2] = "accepted"
            THEN \/ CaptureBegin /\ dev' = r[3]
                 \/ BeginFails /\ dev' = FaultDev(r[3])
            ELSE /\ dev' = r[3]
                 /\ UNCHANGED <<running, lastGrid, pos, tail, lossBase, cl>>
  BY DEF OnConfig
<1>4. r[1] \in {"ok", "error"} /\ r[2] \in Verdicts /\ r[3] \in DevType
  BY <1>2, ConfigsAre
<1>5. out' \in Seq(Messages)
  BY <1>1, <1>3, <1>4, NoJoinIs, AnswerIs
<1>6. dev' \in DevType
  BY <1>3, <1>4, FaultIs
<1>7. log' \in Logs
  BY <1>2, <1>3, <1>4, LogsAre DEF LinkTypes
<1>8. /\ running' \in BOOLEAN /\ lastGrid' \in Counts /\ pos' \in Counts
      /\ tail' \in [Dcs -> Seq(UnitType)] /\ lossBase' \in Nat
      /\ cl' \in ClientType /\ cl'.fd = cl.fd
  <2>1. CASE CaptureBegin
    BY <2>1, BegunClientIs, CountsAre, TailsAre DEF CaptureBegin, LinkTypes
  <2>2. CASE UNCHANGED <<running, lastGrid, pos, tail, lossBase, cl>>
    BY <2>2 DEF LinkTypes
  <2> QED BY <1>3, <2>1, <2>2 DEF BeginFails
<1>9. hello' = hello
  BY DEF OnConfig
<1> QED BY <1>1, <1>5, <1>6, <1>7, <1>8, <1>9 DEF LinkTypes

LEMMA JoinedClientIs ==
    ASSUME cl \in ClientType, NEW g \in Nat
    PROVE  /\ [cl EXCEPT !.streaming = FALSE, !.attaching = TRUE, !.grid = g, !.started = {}]
                  \in ClientType
           /\ [cl EXCEPT !.streaming = FALSE, !.attaching = TRUE, !.grid = g, !.started = {}].fd
                  = cl.fd
<1> DEFINE o == FALSE
<1> DEFINE n == TRUE
<1>1. o \in BOOLEAN /\ n \in BOOLEAN
  OBVIOUS
<1> HIDE DEF o, n
<1>2. /\ [cl EXCEPT !.streaming = o, !.attaching = n, !.grid = g, !.started = {}] \in ClientType
      /\ [cl EXCEPT !.streaming = o, !.attaching = n, !.grid = g, !.started = {}].fd = cl.fd
  BY <1>1 DEF ClientType
<1> QED BY <1>2 DEF o, n

LEMMA AttachKeepsTypes ==
    ASSUME SockTypes, LinkTypes, NEW req, OnAttach(req)
    PROVE  SockTypes' /\ LinkTypes'
<1>1. SockTypes' /\ req \in RequestType /\ up' = up
  BY RequestIs DEF OnAttach
<1>2. UNCHANGED <<captureVars, dev>>
  BY DEF OnAttach
<1>3. CASE ~running
  <2>1. Answer(req, "error", "none", NoJoin) /\ UNCHANGED cl
    BY <1>3 DEF OnAttach
  <2>2. out' \in Seq(Messages)
    BY <1>1, <2>1, NoJoinIs, AnswerIs DEF Verdicts
  <2> QED BY <1>1, <1>2, <2>1, <2>2 DEF LinkTypes, captureVars
<1>4. CASE running
  <2> DEFINE g == JoinGrid
  <2> DEFINE j == [grid |-> g, log |-> log, base |-> lossBase]
  <2>1. /\ Answer(req, "ok", "none", j)
        /\ cl' = [cl EXCEPT !.streaming = FALSE, !.attaching = TRUE, !.grid = g, !.started = {}]
    BY <1>4 DEF OnAttach
  <2>2. g \in Nat
    BY JoinGridIs DEF LinkTypes
  <2> HIDE DEF g
  <2>3. j \in Joins
    BY <2>2 DEF LinkTypes, Joins
  <2> HIDE DEF j
  <2>4. out' \in Seq(Messages)
    BY <1>1, <2>1, <2>3, AnswerIs DEF Verdicts
  <2>5. cl' \in ClientType /\ cl'.fd = cl.fd
    BY <2>1, <2>2, JoinedClientIs DEF LinkTypes
  <2> QED BY <1>1, <1>2, <2>4, <2>5 DEF LinkTypes, captureVars
<1> QED BY <1>3, <1>4

LEMMA PullKeepsTypes ==
    ASSUME SockTypes, LinkTypes, Pull
    PROVE  SockTypes' /\ LinkTypes'
<1>1. PICK p \in Pulls : /\ dev' = p.dev /\ lastGrid' = p.lastGrid /\ pos' = p.pos
                         /\ tail' = p.tail /\ lossBase' = p.base
                         /\ cl' = Forward(p).cl /\ out' = Forward(p).out
  BY DEF Pull
<1>2. UNCHANGED <<sockVars, up, hello, log, running>>
  BY DEF Pull
<1>3. SockTypes'
  BY <1>2 DEF sockVars, SockTypes
<1>4. /\ p \in PullType /\ cl' \in ClientType /\ SamePlace(cl, cl')
      /\ out' \in Seq(Messages)
  BY <1>1, ForwardIs
<1>5. /\ dev' \in DevType /\ lastGrid' \in Counts /\ pos' \in Counts
      /\ tail' \in [Dcs -> Seq(UnitType)] /\ lossBase' \in Nat
  BY <1>1, <1>4, PullParts
<1>6. cl'.fd = cl.fd
  BY <1>4 DEF SamePlace
<1> QED BY <1>2, <1>3, <1>4, <1>5, <1>6 DEF LinkTypes

LEMMA StoppedIs ==
    ASSUME NEW c \in ClientType
    PROVE  /\ [c EXCEPT !.streaming = FALSE, !.attaching = FALSE] \in ClientType
           /\ [c EXCEPT !.streaming = FALSE, !.attaching = FALSE].fd = c.fd
BY DEF ClientType

LEMMA FailKeepsTypes ==
    ASSUME SockTypes, LinkTypes, PullFails
    PROVE  SockTypes' /\ LinkTypes'
<1>1. PICK p \in Pulls : /\ dev' = FaultDev(ResetDev(p.dev)) /\ lossBase' = p.base
                         /\ cl' = [Forward(p).cl EXCEPT !.streaming = FALSE, !.attaching = FALSE]
                         /\ out' = Forward(p).out
  BY DEF PullFails
<1>2. UNCHANGED <<sockVars, up, hello, log>>
  BY DEF PullFails
<1>3. SockTypes'
  BY <1>2 DEF sockVars, SockTypes
<1> DEFINE c == Forward(p).cl
<1>4. /\ p \in PullType /\ c \in ClientType /\ SamePlace(cl, c) /\ out' \in Seq(Messages)
  BY <1>1, ForwardIs
<1>5. cl' = [c EXCEPT !.streaming = FALSE, !.attaching = FALSE]
  BY <1>1
<1> HIDE DEF c
<1>6. dev' \in DevType /\ lossBase' \in Nat
  <2>1. p.dev \in DevType /\ p.base \in Nat
    BY <1>4, PullParts
  <2>2. ResetDev(p.dev) \in DevType
    BY <2>1, ResetIs
  <2> QED BY <1>1, <2>1, <2>2, FaultIs
<1>7. cl' \in ClientType /\ cl'.fd = cl.fd
  BY <1>4, <1>5, StoppedIs DEF SamePlace
<1>8. running' = FALSE /\ lastGrid' \in Counts /\ pos' \in Counts
      /\ tail' \in [Dcs -> Seq(UnitType)]
  BY CountsAre, TailsAre DEF PullFails
<1> QED BY <1>2, <1>3, <1>4, <1>6, <1>7, <1>8 DEF LinkTypes

LEMMA QuitKeepsTypes ==
    ASSUME SockTypes, LinkTypes, Quit
    PROVE  SockTypes' /\ LinkTypes'
<1>1. <<>> \in Seq(RequestType) /\ <<>> \in Seq(Messages) /\ <<>> \in Seq(Conns) /\ <<>> \in Logs
  BY DEF Logs
<1>2. SockTypes'
  BY <1>1 DEF Quit, SockTypes
<1>3. dev' \in DevType
  <2> DEFINE v == IF running THEN ResetDev(dev) ELSE dev
  <2>1. v \in DevType
    BY ResetIs DEF LinkTypes
  <2>2. dev' = FaultDev(v)
    BY DEF Quit
  <2> HIDE DEF v
  <2> QED BY <2>1, <2>2, FaultIs
<1>4. cl' \in ClientType /\ cl'.fd = 0
  BY NoClientIs DEF Quit
<1>5. lastGrid' \in Counts /\ pos' \in Counts /\ tail' \in [Dcs -> Seq(UnitType)]
  BY CountsAre, TailsAre DEF Quit
<1> QED BY <1>1, <1>2, <1>3, <1>4, <1>5 DEF LinkTypes, Quit

LEMMA LinkKeepsTypes ==
    ASSUME TypeInv, LinkNext, UNCHANGED remoteVars
    PROVE  TypeInv'
<1>1. RemoteTypes'
  BY DEF TypeInv, RemoteTypes, remoteVars
<1>2. SockTypes /\ LinkTypes
  BY DEF TypeInv
<1>3. CASE AcceptClient
  BY <1>1, <1>2, <1>3, AcceptKeepsTypes DEF TypeInv
<1>4. CASE ClientGone
  <2>1. DropClient /\ UNCHANGED <<toClient, clientEnd, backlog, up, captureVars, dev>>
    BY <1>4 DEF ClientGone
  <2> QED BY <1>1, <1>2, <2>1, DropKeepsTypes DEF TypeInv
<1>5. CASE Requests
  <2>1. PICK req : OnHello(req) \/ OnStop(req) \/ RefuseConfig(req) \/ OnConfig(req)
                   \/ OnAttach(req)
    BY <1>5 DEF Requests
  <2>2. SockTypes' /\ LinkTypes'
    BY <1>2, <2>1, HelloKeepsTypes, StopKeepsTypes, RefuseKeepsTypes, ConfigKeepsTypes,
       AttachKeepsTypes
  <2> QED BY <1>1, <2>2 DEF TypeInv
<1>6. CASE ClientWrite
  BY <1>1, <1>2, <1>6, WriteKeepsTypes DEF TypeInv
<1>7. CASE Pull
  BY <1>1, <1>2, <1>7, PullKeepsTypes DEF TypeInv
<1>8. CASE PullFails
  BY <1>1, <1>2, <1>8, FailKeepsTypes DEF TypeInv
<1>9. CASE Quit
  BY <1>1, <1>2, <1>9, QuitKeepsTypes DEF TypeInv
<1> QED BY <1>3, <1>4, <1>5, <1>6, <1>7, <1>8, <1>9 DEF LinkNext

-----------------------------------------------------------------------------
(* The client's steps. *)

LEMMA ConnectKeepsTypes ==
    ASSUME TypeInv, Connect
    PROVE  SockTypes' /\ RemoteTypes'
<1>1. conns + 1 \in Conns /\ conns + 1 \in 0 .. MaxConns
  BY SizesAssumption DEF Connect, TypeInv, RemoteTypes, Conns
<1> DEFINE c == conns + 1
<1>2. /\ fd' = c /\ conns' = c /\ sess' = "opening" /\ backlog' = Append(backlog, c)
      /\ lastId' = 0 /\ haveReply' = FALSE /\ linkRuns' = FALSE
      /\ UNCHANGED <<toLink, toClient, waiting, reply, queue, timeouts, joined, setup>>
  BY DEF Connect
<1>3. c \in Conns /\ c \in 0 .. MaxConns
  BY <1>1
<1> HIDE DEF c
<1>4. backlog' \in Seq(Conns)
  BY <1>2, <1>3 DEF TypeInv, SockTypes
<1>5. SockTypes'
  BY <1>2, <1>4 DEF TypeInv, SockTypes
<1>6. RemoteTypes'
  BY <1>2, <1>3 DEF TypeInv, RemoteTypes, Sessions
<1> QED BY <1>5, <1>6

LEMMA CloseKeepsTypes ==
    ASSUME TypeInv, CloseRemote, UNCHANGED timeouts
    PROVE  SockTypes' /\ RemoteTypes'
<1>1. <<>> \in Seq(Messages) /\ <<>> \in Seq(Items) /\ <<>> \in Seq(Regs)
  OBVIOUS
<1>2. SockTypes'
  BY <1>1 DEF CloseRemote, TypeInv, SockTypes
<1>3. RemoteTypes'
  BY <1>1, NoJoinIs DEF CloseRemote, TypeInv, RemoteTypes, Sessions
<1> QED BY <1>2, <1>3

LEMMA WelcomedKeepsTypes ==
    ASSUME TypeInv, Welcomed
    PROVE  SockTypes' /\ RemoteTypes'
<1>1. CASE reply.type = "WELCOME"
  <2>1. /\ linkRuns' = reply.runs /\ haveReply' = FALSE /\ reply' = NoReply /\ sess' = "greeted"
        /\ UNCHANGED <<fd, conns, waiting, lastId, queue, joined, setup, sockVars, timeouts>>
    BY <1>1 DEF Welcomed
  <2>2. reply.runs \in BOOLEAN
    <3>1. reply \in Answering
      BY <1>1 DEF TypeInv, RemoteTypes, NoReply
    <3>2. reply \in WelcomeType
      BY <1>1, <3>1, AnsweringAre
    <3> QED BY <3>2 DEF WelcomeType
  <2>3. SockTypes'
    BY <2>1 DEF TypeInv, SockTypes, sockVars
  <2>4. RemoteTypes'
    BY <2>1, <2>2 DEF TypeInv, RemoteTypes, Sessions
  <2> QED BY <2>3, <2>4
<1>2. CASE reply.type # "WELCOME"
  <2>1. CloseRemote /\ UNCHANGED timeouts
    BY <1>2 DEF Welcomed
  <2> QED BY <2>1, CloseKeepsTypes
<1> QED BY <1>1, <1>2

\* The requests a session makes.
LEMMA NextRequestsAre ==
    ASSUME NEW n \in Nat, NEW q \in NextRequests(n)
    PROVE  /\ q \in RequestType /\ q.n = n
           /\ \/ q.type = "ATTACH" /\ sess = "greeted"
              \/ q.type = "HELLO" /\ sess \in {"greeted", "open"}
              \/ q.type = "CONFIG" /\ sess = "ready" /\ q.reg = "rate"
              \/ q.type = "CONFIG" /\ sess = "set" /\ q.reg = "capture"
              \/ q.type = "STOP" /\ sess = "running"
<1>1. \A t \in RequestTypes, g \in Regs : Ask(n, t, g) \in RequestType
  BY DEF Ask, RequestType
<1>2. CASE sess = "greeted"
  BY <1>1, <1>2 DEF NextRequests, RequestTypes, Regs, Ask
<1>3. CASE sess = "open"
  BY <1>1, <1>3 DEF NextRequests, RequestTypes, Regs, Ask
<1>4. CASE sess = "ready"
  BY <1>1, <1>4 DEF NextRequests, RequestTypes, Regs, Ask
<1>5. CASE sess = "set"
  BY <1>1, <1>5 DEF NextRequests, RequestTypes, Regs, Ask
<1>6. CASE sess = "running"
  BY <1>1, <1>6 DEF NextRequests, RequestTypes, Regs, Ask
<1> QED BY <1>2, <1>3, <1>4, <1>5, <1>6 DEF NextRequests

LEMMA SendIs ==
    ASSUME TypeInv, Send
    PROVE  /\ lastId' \in Nat /\ waiting' \in NextRequests(lastId') /\ waiting' \in RequestType
           /\ waiting'.n = lastId'
           /\ fd \in Conns
           /\ toLink' = [toLink EXCEPT ![fd] = IF fd \in linkEnd THEN Append(toLink[fd], waiting')
                                               ELSE toLink[fd]]
           /\ waiting = None /\ haveReply' = FALSE
           /\ UNCHANGED <<toClient, clientEnd, linkEnd, backlog, fd, conns, sess, reply, queue,
                          linkRuns, timeouts, joined, setup>>
<1>1. lastId' = (lastId + 1) % RequestIds
  BY DEF Send
<1>2. lastId' \in Nat
  BY <1>1, RemoteAssumption DEF TypeInv, RemoteTypes
<1>3. PICK q \in NextRequests(lastId') : waiting' = q /\ SendToLink(fd, q)
  BY DEF Send
<1>4. waiting' \in RequestType /\ waiting'.n = lastId'
  BY <1>2, <1>3, NextRequestsAre
<1>5. fd \in Conns
  BY DEF Send, TypeInv, RemoteTypes
<1> QED BY <1>2, <1>3, <1>4, <1>5 DEF Send, SendToLink

LEMMA SendKeepsTypes ==
    ASSUME TypeInv, Send
    PROVE  SockTypes' /\ RemoteTypes'
<1>1. waiting' \in RequestType /\ lastId' \in Nat /\ fd \in Conns
  BY SendIs
<1>2. Append(toLink[fd], waiting') \in Seq(RequestType) /\ toLink[fd] \in Seq(RequestType)
  BY <1>1 DEF TypeInv, SockTypes
<1>3. toLink' \in [Conns -> Seq(RequestType)]
  BY <1>1, <1>2, SendIs DEF TypeInv, SockTypes
<1>4. SockTypes'
  BY <1>3, SendIs DEF TypeInv, SockTypes
<1>5. RemoteTypes'
  BY <1>1, SendIs DEF TypeInv, RemoteTypes
<1> QED BY <1>4, <1>5

-----------------------------------------------------------------------------
(* What is on its way to the client that is not an item. *)

\* The sequence holds m, which is no item.
Brings(s, m) == m \notin Items /\ \E i \in DOMAIN s : s[i] = m

\* It holds at most one message that is no item.
Lone(s) == \A i, j \in DOMAIN s : s[i] \notin Items /\ s[j] \notin Items => i = j

LEMMA ConcatIs ==
    ASSUME NEW a \in Seq(Messages), NEW b \in Seq(Messages)
    PROVE  /\ a \o b \in Seq(Messages)
           /\ DOMAIN a = 1 .. Len(a) /\ DOMAIN b = 1 .. Len(b)
           /\ Len(a) \in Nat /\ Len(b) \in Nat
           /\ DOMAIN (a \o b) = 1 .. Len(a) + Len(b)
           /\ \A i \in 1 .. Len(a) : (a \o b)[i] = a[i]
           /\ \A i \in 1 .. Len(b) : (a \o b)[Len(a) + i] = b[i]
           /\ \A i \in 1 .. Len(a) + Len(b) :
                 i \in 1 .. Len(a) \/ \E j \in 1 .. Len(b) : i = Len(a) + j
<1>1. Len(a) \in Nat /\ Len(b) \in Nat
  OBVIOUS
<1>2. \A i \in 1 .. Len(a) + Len(b) : i \in 1 .. Len(a) \/ \E j \in 1 .. Len(b) : i = Len(a) + j
  <2> DEFINE k == Len(a)
  <2> DEFINE l == Len(b)
  <2> SUFFICES ASSUME NEW i \in 1 .. k + l, i \notin 1 .. k
               PROVE  \E j \in 1 .. l : i = k + j
    OBVIOUS
  <2>1. k \in Nat /\ l \in Nat
    BY <1>1
  <2> HIDE DEF k, l
  <2>2. i - k \in 1 .. l /\ i = k + (i - k)
    BY <2>1
  <2> QED BY <2>2
<1>3. a \o b \in Seq(Messages) /\ Len(a \o b) = Len(a) + Len(b)
  OBVIOUS
<1>4. DOMAIN a = 1 .. Len(a) /\ DOMAIN b = 1 .. Len(b) /\ DOMAIN (a \o b) = 1 .. Len(a) + Len(b)
  BY <1>3
<1>5. \A i \in 1 .. Len(a) : (a \o b)[i] = a[i]
  OBVIOUS
<1>6. \A i \in 1 .. Len(b) : (a \o b)[Len(a) + i] = b[i]
  OBVIOUS
<1> QED BY <1>1, <1>2, <1>3, <1>4, <1>5, <1>6

LEMMA ConcatBrings ==
    ASSUME NEW a \in Seq(Messages), NEW b \in Seq(Messages), NEW m
    PROVE  Brings(a \o b, m) <=> Brings(a, m) \/ Brings(b, m)
<1> DEFINE k == Len(a)
<1> DEFINE l == Len(b)
<1> DEFINE c == a \o b
<1>1. /\ k \in Nat /\ l \in Nat /\ DOMAIN a = 1 .. k /\ DOMAIN b = 1 .. l /\ DOMAIN c = 1 .. k + l
      /\ \A i \in 1 .. k : c[i] = a[i]
      /\ \A i \in 1 .. l : c[k + i] = b[i]
      /\ \A i \in 1 .. k + l : i \in 1 .. k \/ \E j \in 1 .. l : i = k + j
  BY ConcatIs
<1> HIDE DEF k, l, c
<1>2. ASSUME NEW i \in 1 .. k PROVE i \in 1 .. k + l
  BY <1>1
<1>3. ASSUME NEW i \in 1 .. l PROVE k + i \in 1 .. k + l
  BY <1>1
<1>4. Brings(a, m) => Brings(c, m)
  BY <1>1, <1>2 DEF Brings
<1>5. Brings(b, m) => Brings(c, m)
  BY <1>1, <1>3 DEF Brings
<1>6. ASSUME Brings(c, m) PROVE Brings(a, m) \/ Brings(b, m)
  <2>1. PICK i \in 1 .. k + l : c[i] = m
    BY <1>1, <1>6 DEF Brings
  <2>2. m \notin Items
    BY <1>6 DEF Brings
  <2>3. CASE i \in 1 .. k
    <3>1. a[i] = m /\ i \in DOMAIN a
      BY <1>1, <2>1, <2>3
    <3> QED BY <2>2, <3>1 DEF Brings
  <2>4. CASE \E j \in 1 .. l : i = k + j
    <3>1. PICK j \in 1 .. l : i = k + j
      BY <2>4
    <3>2. b[j] = m /\ j \in DOMAIN b
      BY <1>1, <2>1, <3>1
    <3> QED BY <2>2, <3>2 DEF Brings
  <2> QED BY <1>1, <2>3, <2>4
<1> QED BY <1>4, <1>5, <1>6 DEF c

\* Of two parts of a sequence with one such message only one part has it.
LEMMA ConcatLone ==
    ASSUME NEW a \in Seq(Messages), NEW b \in Seq(Messages)
    PROVE  /\ Lone(a \o b) => Lone(a) /\ Lone(b)
           /\ Lone(a \o b) => \A m, n : Brings(a, m) => ~Brings(b, n)
           /\ Lone(a) /\ (\A m : ~Brings(b, m)) => Lone(a \o b)
           /\ Lone(b) /\ (\A m : ~Brings(a, m)) => Lone(a \o b)
<1> DEFINE k == Len(a)
<1> DEFINE l == Len(b)
<1> DEFINE c == a \o b
<1>1. /\ k \in Nat /\ l \in Nat /\ DOMAIN a = 1 .. k /\ DOMAIN b = 1 .. l /\ DOMAIN c = 1 .. k + l
      /\ \A i \in 1 .. k : c[i] = a[i]
      /\ \A i \in 1 .. l : c[k + i] = b[i]
      /\ \A i \in 1 .. k + l : i \in 1 .. k \/ \E j \in 1 .. l : i = k + j
  BY ConcatIs
<1> HIDE DEF k, l, c
<1>2. \A i \in 1 .. k : i \in 1 .. k + l
  BY <1>1
<1>3. \A i \in 1 .. l : k + i \in 1 .. k + l
  BY <1>1
<1>4. \A i \in 1 .. k, j \in 1 .. l : i # k + j
  BY <1>1
<1>5. \A i, j \in 1 .. l : k + i = k + j => i = j
  BY <1>1
<1>6. ASSUME Lone(c) PROVE Lone(a)
  BY <1>1, <1>2, <1>6 DEF Lone
<1>7. ASSUME Lone(c) PROVE Lone(b)
  <2> SUFFICES ASSUME NEW i \in 1 .. l, NEW j \in 1 .. l, b[i] \notin Items, b[j] \notin Items
               PROVE  i = j
    BY <1>1 DEF Lone
  <2>1. k + i \in DOMAIN c /\ k + j \in DOMAIN c /\ c[k + i] \notin Items /\ c[k + j] \notin Items
    BY <1>1, <1>3
  <2>2. k + i = k + j
    BY <1>7, <2>1 DEF Lone
  <2> QED BY <1>5, <2>2
<1>8. ASSUME Lone(c), NEW m, NEW n, Brings(a, m), Brings(b, n) PROVE FALSE
  <2>1. PICK i \in 1 .. k : a[i] = m
    BY <1>1, <1>8 DEF Brings
  <2>2. PICK j \in 1 .. l : b[j] = n
    BY <1>1, <1>8 DEF Brings
  <2>3. m \notin Items /\ n \notin Items
    BY <1>8 DEF Brings
  <2>4. i \in DOMAIN c /\ k + j \in DOMAIN c /\ c[i] \notin Items /\ c[k + j] \notin Items
    BY <1>1, <1>2, <1>3, <2>1, <2>2, <2>3
  <2>5. i = k + j
    BY <1>8, <2>4 DEF Lone
  <2> QED BY <1>4, <2>5
<1>9. ASSUME Lone(a), \A m : ~Brings(b, m) PROVE Lone(c)
  <2> SUFFICES ASSUME NEW i \in 1 .. k + l, NEW j \in 1 .. k + l,
                      c[i] \notin Items, c[j] \notin Items
               PROVE  i = j
    BY <1>1 DEF Lone
  <2>1. \A h \in 1 .. l : b[h] \in Items
    BY <1>1, <1>9 DEF Brings
  <2>2. i \in 1 .. k /\ j \in 1 .. k
    BY <1>1, <2>1
  <2> QED BY <1>1, <1>9, <2>2 DEF Lone
<1>10. ASSUME Lone(b), \A m : ~Brings(a, m) PROVE Lone(c)
  <2> SUFFICES ASSUME NEW i \in 1 .. k + l, NEW j \in 1 .. k + l,
                      c[i] \notin Items, c[j] \notin Items
               PROVE  i = j
    BY <1>1 DEF Lone
  <2>1. \A h \in 1 .. k : a[h] \in Items
    BY <1>1, <1>10 DEF Brings
  <2>2. PICK x \in 1 .. l : i = k + x
    BY <1>1, <2>1
  <2>3. PICK y \in 1 .. l : j = k + y
    BY <1>1, <2>1
  <2>4. b[x] \notin Items /\ b[y] \notin Items
    BY <1>1, <2>2, <2>3
  <2>5. x = y
    BY <1>1, <1>10, <2>4 DEF Lone
  <2> QED BY <2>2, <2>3, <2>5
<1> QED BY <1>6, <1>7, <1>8, <1>9, <1>10 DEF c

LEMMA ItemsBringNothing ==
    ASSUME NEW x \in Seq(Items)
    PROVE  x \in Seq(Messages) /\ Lone(x) /\ \A m : ~Brings(x, m)
<1>1. \A i \in DOMAIN x : x[i] \in Items
  OBVIOUS
<1>2. x \in Seq(Messages)
  BY DEF Messages
<1> QED BY <1>1, <1>2 DEF Lone, Brings

LEMMA OneBrings ==
    ASSUME NEW r \in Messages, r \notin Items
    PROVE  <<r>> \in Seq(Messages) /\ Lone(<<r>>) /\ \A m : Brings(<<r>>, m) <=> m = r
<1> DEFINE s == <<r>>
<1>1. s \in Seq(Messages) /\ DOMAIN s = {1} /\ s[1] = r
  OBVIOUS
<1> HIDE DEF s
<1>2. Lone(s)
  BY <1>1 DEF Lone
<1>3. \A m : Brings(s, m) <=> m = r
  BY <1>1 DEF Brings
<1> QED BY <1>1, <1>2, <1>3 DEF s

TakenAll(ms) == FoldLeft(Taken, [queue |-> queue, have |-> haveReply, reply |-> reply], ms)

\* What one receive() takes.
LEMMA ReceiveIs ==
    ASSUME TypeInv, ReceiveStep
    PROVE  /\ fd \in Conns
           /\ UNCHANGED <<toLink, clientEnd, linkEnd, backlog, fd, conns, sess, waiting, lastId,
                          linkRuns, timeouts, joined, setup>>
           /\ queue' \in Seq(Items) /\ haveReply' \in BOOLEAN
           /\ reply' \in Answering \cup {NoReply}
           /\ \E a, b \in Seq(Messages) :
                 /\ a \o b = toClient[fd]
                 /\ toClient' = [toClient EXCEPT ![fd] = b]
                 /\ \/ haveReply' = haveReply /\ reply' = reply
                    \/ haveReply' /\ Brings(a, reply')
                 /\ queue' = TakenAll(a).queue /\ haveReply' = TakenAll(a).have
<1>1. fd \in Conns
  BY DEF ReceiveStep, TypeInv, RemoteTypes
<1> DEFINE s == toClient[fd]
<1>2. s \in Seq(Messages)
  BY <1>1 DEF TypeInv, SockTypes
<1> DEFINE base == [queue |-> queue, have |-> haveReply, reply |-> reply]
<1>3. PICK n \in 1 .. Len(s) :
        LET r == FoldLeft(Taken, base, SubSeq(s, 1, n)) IN
        /\ toClient' = [toClient EXCEPT ![fd] = SubSeq(s, n + 1, Len(s))]
        /\ queue' = r.queue /\ haveReply' = r.have /\ reply' = r.reply
  BY DEF ReceiveStep, Receive
<1> DEFINE a == SubSeq(s, 1, n)
<1> DEFINE b == SubSeq(s, n + 1, Len(s))
<1> DEFINE r == FoldLeft(Taken, base, a)
<1>4. toClient' = [toClient EXCEPT ![fd] = b] /\ queue' = r.queue /\ haveReply' = r.have
      /\ reply' = r.reply
  BY <1>3
<1>5. base \in TakenType
  BY DEF TypeInv, RemoteTypes, TakenType
<1>6. n \in Nat /\ n \in 1 .. Len(s) /\ Len(s) \in Nat
  BY <1>2
<1> HIDE DEF s
<1>7. a \in Seq(Messages) /\ b \in Seq(Messages) /\ DOMAIN a = 1 .. Len(a)
  BY <1>2, <1>6
<1>8. a \o b = s
  <2>1. 1 \in 1 .. Len(s) + 1 /\ n \in 1 - 1 .. Len(s) /\ Len(s) \in n .. Len(s)
    BY <1>6
  <2>2. SubSeq(s, 1, n) \o SubSeq(s, n + 1, Len(s)) = SubSeq(s, 1, Len(s))
    BY <1>2, <2>1, ConcatAdjacentSubSeq
  <2> QED BY <1>2, <2>2, SubSeqFull
<1> DEFINE S == {v \in TakenType : \/ v.have = haveReply /\ v.reply = reply
                                   \/ v.have = TRUE /\ Brings(a, v.reply)}
<1>9. base \in S
  BY <1>5
<1> HIDE DEF a, b, base
<1>10. ASSUME NEW v \in S, NEW i \in 1 .. Len(a) PROVE Taken(v, a[i]) \in S
  <2>1. a[i] \in Messages /\ v \in TakenType
    BY <1>7
  <2>2. Taken(v, a[i]) \in TakenType
    BY <2>1, TakenIs
  <2>3. CASE a[i] \in Items
    <3>1. Taken(v, a[i]).have = v.have /\ Taken(v, a[i]).reply = v.reply
      BY <2>1, <2>3, TakenIs
    <3> QED BY <2>2, <3>1
  <2>4. CASE a[i] \notin Items
    <3>1. Taken(v, a[i]).have = TRUE /\ Taken(v, a[i]).reply = a[i]
      <4>1. Taken(v, a[i]).have /\ Taken(v, a[i]).reply = a[i]
        BY <2>1, <2>4, TakenIs
      <4>2. Taken(v, a[i]).have \in BOOLEAN
        BY <2>2 DEF TakenType
      <4> QED BY <4>1, <4>2
    <3>2. Brings(a, a[i])
      BY <1>7, <2>4 DEF Brings
    <3> QED BY <2>2, <3>1, <3>2
  <2> QED BY <2>3, <2>4
<1> HIDE DEF S
<1>11. TakenFold!Fold(base, a) \in S
  BY <1>7, <1>9, <1>10, TakenFold!FoldWithin
<1>12. r \in S
  BY <1>11 DEF TakenFold!Fold, TakenFold!MapThenFoldSet, TakenFold!Max,
               FoldLeft, MapThenFoldSet, Max
<1>b. r = TakenAll(a)
  BY DEF r, base, TakenAll
<1> HIDE DEF r
<1>13. r \in TakenType /\ \/ r.have = haveReply /\ r.reply = reply
                          \/ r.have = TRUE /\ Brings(a, r.reply)
  BY <1>12 DEF S
<1>14. queue' \in Seq(Items) /\ haveReply' \in BOOLEAN /\ reply' \in Answering \cup {NoReply}
  BY <1>4, <1>13 DEF TakenType
<1>15. \/ haveReply' = haveReply /\ reply' = reply
       \/ haveReply' /\ Brings(a, reply')
  BY <1>4, <1>13
<1>16. queue' = TakenAll(a).queue /\ haveReply' = TakenAll(a).have
  BY <1>4, <1>b
<1> QED BY <1>1, <1>4, <1>7, <1>8, <1>14, <1>15, <1>16 DEF ReceiveStep, s

LEMMA AcceptedRegsAre ==
    ASSUME NEW l \in Logs
    PROVE  AcceptedRegs(l) \in Seq(Regs)
<1> DEFINE S == Seq(Regs)
<1> DEFINE e == <<>>
<1> DEFINE X == Regs \X Verdicts
<1>1. e \in S /\ l \in Seq(X)
  BY DEF Logs
<1>2. ASSUME NEW v \in S, NEW i \in 1 .. Len(l) PROVE AddAccepted(v, l[i]) \in S
  <2>1. l[i] \in X
    BY <1>1
  <2>2. l[i][1] \in Regs
    BY <2>1
  <2>3. Append(v, l[i][1]) \in Seq(Regs)
    BY <2>2
  <2> QED BY <2>3 DEF AddAccepted
<1> HIDE DEF S, e, X
<1>3. RegsFold!Fold(e, l) \in S
  BY <1>1, <1>2, RegsFold!FoldWithin
<1>4. AcceptedRegs(l) \in S
  BY <1>3 DEF AcceptedRegs, e, RegsFold!Fold, RegsFold!MapThenFoldSet,
              RegsFold!Max, FoldLeft, MapThenFoldSet, Max
<1> QED BY <1>4 DEF S

LEMMA AcceptedNone == AcceptedRegs(<<>>) = <<>>
<1> DEFINE e == <<>>
<1>1. RegsFold!Fold(e, <<>>) = e
  BY RegsFold!FoldEmpty
<1>2. AcceptedRegs(<<>>) = e
  BY <1>1 DEF AcceptedRegs, RegsFold!Fold, RegsFold!MapThenFoldSet,
              RegsFold!Max, FoldLeft, MapThenFoldSet, Max
<1> QED BY <1>2

LEMMA AcceptedAppend ==
    ASSUME NEW l \in Logs, NEW g \in Regs, NEW t \in Verdicts
    PROVE  AcceptedRegs(Append(l, <<g, t>>))
               = IF t = "accepted" THEN Append(AcceptedRegs(l), g) ELSE AcceptedRegs(l)
<1> DEFINE e == <<>>
<1> DEFINE X == Regs \X Verdicts
<1> DEFINE x == <<g, t>>
<1> DEFINE a == Append(l, x)
<1>1. l \in Seq(X) /\ x \in X /\ x[1] = g /\ x[2] = t
  BY DEF Logs
<1> HIDE DEF e, X, x
<1>2. RegsFold!Fold(e, Append(l, x)) = AddAccepted(RegsFold!Fold(e, l), x)
  BY <1>1, RegsFold!FoldAppend
<1>3. RegsFold!Fold(e, l) = AcceptedRegs(l)
  BY DEF AcceptedRegs, e, RegsFold!Fold, RegsFold!MapThenFoldSet,
         RegsFold!Max, FoldLeft, MapThenFoldSet, Max
<1> HIDE DEF a
<1>4. RegsFold!Fold(e, a) = AcceptedRegs(a)
  BY DEF AcceptedRegs, e, RegsFold!Fold, RegsFold!MapThenFoldSet,
         RegsFold!Max, FoldLeft, MapThenFoldSet, Max
<1>5. AcceptedRegs(a) = AddAccepted(AcceptedRegs(l), x)
  BY <1>2, <1>3, <1>4 DEF a
<1> QED BY <1>1, <1>5 DEF a, x, AddAccepted

LEMMA ReplyParts ==
    ASSUME NEW m \in ReplyType
    PROVE  /\ m.type = "REPLY" /\ m.of \in RequestTypes /\ m.for \in Nat
           /\ m.status \in {"ok", "error"} /\ m.rest \in Verdicts /\ m.join \in Joins
           /\ m.join.log \in Logs
BY DEF ReplyType, Joins

LEMMA AnsweredIs ==
    ASSUME TypeInv, Answered
    PROVE  reply \in ReplyType /\ waiting \in RequestType
<1>1. reply.type = "REPLY"
  BY DEF Answered
<1>2. reply \in Answering
  BY <1>1 DEF TypeInv, RemoteTypes, NoReply
<1>3. reply \in ReplyType
  BY <1>1, <1>2, AnsweringAre
<1>4. reply.of \in RequestTypes
  BY <1>3, ReplyParts
<1> QED BY <1>3, <1>4 DEF Answered, TypeInv, RemoteTypes, None, Ask, RequestTypes

LEMMA ReturnKeepsTypes ==
    ASSUME TypeInv, Return
    PROVE  SockTypes' /\ RemoteTypes'
<1>1. /\ haveReply' = FALSE /\ waiting' = None /\ sess' = SessionAfter /\ reply' = NoReply
      /\ UNCHANGED <<sockVars, fd, conns, lastId, timeouts>>
  BY DEF Return
<1>2. SockTypes'
  BY <1>1 DEF TypeInv, SockTypes, sockVars
<1>3. waiting \in RequestType /\ sess \in Sessions
  BY DEF Return, TypeInv, RemoteTypes
<1>4. sess' \in Sessions
  BY <1>1, <1>3 DEF SessionAfter, Failed, Sessions
<1>5. linkRuns' \in BOOLEAN
  <2>1. (linkRuns \/ waiting.reg = "capture") \in BOOLEAN /\ linkRuns \in BOOLEAN
    BY DEF TypeInv, RemoteTypes
  <2>2. linkRuns' \in {FALSE, TRUE, linkRuns, linkRuns \/ waiting.reg = "capture"}
    BY DEF Return
  <2> QED BY <2>1, <2>2
<1>6. queue' \in Seq(Items)
  <2>1. <<>> \in Seq(Items)
    OBVIOUS
  <2> QED BY <2>1 DEF Return, TypeInv, RemoteTypes
<1>7. joined' \in Joins
  <2>1. CASE Accepted
    <3>1. reply.join \in Joins
      BY <2>1, AnsweredIs, ReplyParts DEF Accepted
    <3> QED BY <3>1 DEF Return, TypeInv, RemoteTypes
  <2>2. CASE ~Accepted
    BY <2>2 DEF Return, TypeInv, RemoteTypes
  <2> QED BY <2>1, <2>2
<1>8. setup' \in Seq(Regs)
  <2>1. <<>> \in Seq(Regs) /\ setup \in Seq(Regs)
    BY DEF TypeInv, RemoteTypes
  <2>2. Append(setup, waiting.reg) \in Seq(Regs)
    BY <1>3, <2>1, RequestsAre
  <2>3. CASE Accepted
    <3>1. AcceptedRegs(reply.join.log) \in Seq(Regs)
      BY <2>3, AnsweredIs, ReplyParts, AcceptedRegsAre DEF Accepted
    <3>2. setup' \in {<<>>, Append(setup, waiting.reg), AcceptedRegs(reply.join.log), setup}
      BY DEF Return
    <3> QED BY <2>1, <2>2, <3>1, <3>2
  <2>4. CASE ~Accepted
    BY <2>1, <2>4 DEF Return
  <2> QED BY <2>3, <2>4
<1>9. RemoteTypes'
  BY <1>1, <1>4, <1>5, <1>6, <1>7, <1>8 DEF TypeInv, RemoteTypes
<1> QED BY <1>2, <1>9

LEMMA TimeoutKeepsTypes ==
    ASSUME TypeInv, Timeout
    PROVE  SockTypes' /\ RemoteTypes'
<1>1. /\ timeouts' = timeouts \cup {<<fd, waiting.n>>} /\ waiting' = None
      /\ sess' = Failed(waiting) /\ linkRuns' = IF waiting.type = "STOP" THEN FALSE ELSE linkRuns
      /\ queue' = IF waiting.type = "STOP" THEN <<>> ELSE queue
      /\ UNCHANGED <<sockVars, fd, conns, lastId, haveReply, reply, joined, setup>>
  BY DEF Timeout
<1>2. SockTypes'
  BY <1>1 DEF TypeInv, SockTypes, sockVars
<1>3. waiting \in RequestType /\ fd \in Conns
  BY DEF Timeout, TypeInv, RemoteTypes
<1>4. waiting.n \in Nat
  BY <1>3, RequestsAre
<1>5. sess' \in Sessions
  BY <1>1 DEF Failed, Sessions
<1>6. queue' \in Seq(Items)
  <2>1. <<>> \in Seq(Items)
    OBVIOUS
  <2> QED BY <1>1, <2>1 DEF TypeInv, RemoteTypes
<1>7. linkRuns' \in BOOLEAN
  BY <1>1 DEF TypeInv, RemoteTypes
<1>8. timeouts' \in SUBSET (Conns \X Nat)
  BY <1>1, <1>3, <1>4 DEF TypeInv, RemoteTypes
<1>9. RemoteTypes'
  BY <1>1, <1>5, <1>6, <1>7, <1>8 DEF TypeInv, RemoteTypes
<1> QED BY <1>2, <1>9

LEMMA RemoteKeepsTypes ==
    ASSUME TypeInv, RemoteNext, UNCHANGED linkVars
    PROVE  TypeInv'
<1>1. LinkTypes'
  BY DEF TypeInv, LinkTypes, linkVars, captureVars
<1>2. CASE Connect
  BY <1>1, <1>2, ConnectKeepsTypes DEF TypeInv
<1>3. CASE Welcomed
  BY <1>1, <1>3, WelcomedKeepsTypes DEF TypeInv
<1>4. CASE Send
  BY <1>1, <1>4, SendKeepsTypes DEF TypeInv
<1>5. CASE ReceiveStep
  <2>1. RemoteTypes'
    BY <1>5, ReceiveIs DEF TypeInv, RemoteTypes
  <2>2. SockTypes'
    <3>1. PICK b \in Seq(Messages) : toClient' = [toClient EXCEPT ![fd] = b]
      BY <1>5, ReceiveIs
    <3>2. toClient' \in [Conns -> Seq(Messages)]
      BY <3>1 DEF TypeInv, SockTypes
    <3> QED BY <1>5, <3>2, ReceiveIs DEF TypeInv, SockTypes
  <2> QED BY <1>1, <2>1, <2>2 DEF TypeInv
<1>6. CASE Return
  BY <1>1, <1>6, ReturnKeepsTypes DEF TypeInv
<1>7. CASE Timeout
  BY <1>1, <1>7, TimeoutKeepsTypes DEF TypeInv
<1>8. CASE Read
  <2>1. SockTypes'
    BY <1>8 DEF Read, TypeInv, SockTypes, sockVars
  <2>2. queue' \in Seq(Items)
    BY <1>8 DEF Read, TypeInv, RemoteTypes
  <2>3. RemoteTypes'
    BY <1>8, <2>2 DEF Read, TypeInv, RemoteTypes
  <2> QED BY <1>1, <2>1, <2>3 DEF TypeInv
<1>9. CASE Close
  <2>1. CloseRemote /\ UNCHANGED timeouts
    BY <1>9 DEF Close
  <2> QED BY <1>1, <2>1, CloseKeepsTypes DEF TypeInv
<1> QED BY <1>2, <1>3, <1>4, <1>5, <1>6, <1>7, <1>8, <1>9 DEF RemoteNext

\* The steps of the two sides.
LEMMA StepsAre ==
    ASSUME [Next]_vars
    PROVE  \/ LinkNext /\ UNCHANGED <<remoteVars, expect>>
           \/ RemoteNext /\ UNCHANGED linkVars /\ (fd = 0 => up)
           \/ UNCHANGED vars
BY DEF Next, LinkStep, RemoteStep, RemoteNext

LEMMA TypeStep == TypeInv /\ [Next]_vars => TypeInv'
<1> SUFFICES ASSUME TypeInv, [Next]_vars PROVE TypeInv'
  OBVIOUS
<1>1. CASE UNCHANGED vars
  BY <1>1 DEF vars, sockVars, linkVars, captureVars, remoteVars, TypeInv, SockTypes, LinkTypes,
              RemoteTypes
<1>2. CASE LinkNext /\ UNCHANGED <<remoteVars, expect>>
  BY <1>2, LinkKeepsTypes
<1>3. CASE RemoteNext /\ UNCHANGED linkVars
  BY <1>3, RemoteKeepsTypes
<1> QED BY <1>1, <1>2, <1>3, StepsAre

\* Every part of the state is what the code can hold: messages, requests, replies, the log,
\* the client's counters, the device as the link knows it (link.c, remote.c).
THEOREM Types == Spec => []TypeInv
<1>1. SystemInit => TypeInv
  BY TypeInit
<1>2. TypeInv /\ [Next]_vars => TypeInv'
  BY TypeStep
<1> QED BY <1>1, <1>2, PTL DEF Spec

-----------------------------------------------------------------------------
(* What is said to the client: the messages that are no items, on their way or taken. *)

Coming == IF fd = 0 THEN <<>> ELSE toClient[fd] \o (IF cl.fd = fd THEN out ELSE <<>>)

Said(m) == Brings(Coming, m) \/ (haveReply /\ reply = m)

\* At most one of them.
Single == Lone(Coming) /\ (haveReply => \A m : ~Brings(Coming, m))

\* A step that says nothing more.
NoNews == (\A m : Said(m)' => Said(m)) /\ (Single => Single')

\* A step that says r, and to whom it says it gets it.
News(r) ==
    /\ \A m : Said(m)' <=> Said(m) \/ m = r
    /\ (\A m : ~Said(m)) => Single'

LEMMA ComingIs ==
    ASSUME TypeInv
    PROVE  /\ Coming \in Seq(Messages)
           /\ fd # 0 => toClient[fd] \in Seq(Messages)
           /\ out \in Seq(Messages)
<1>1. fd # 0 => toClient[fd] \in Seq(Messages)
  BY DEF TypeInv, RemoteTypes, SockTypes
<1>2. out \in Seq(Messages) /\ <<>> \in Seq(Messages)
  BY DEF TypeInv, LinkTypes
<1>3. fd # 0 => Coming \in Seq(Messages)
  BY <1>1, <1>2 DEF Coming
<1> QED BY <1>1, <1>2, <1>3 DEF Coming

LEMMA SameNews ==
    ASSUME Coming' = Coming, UNCHANGED <<haveReply, reply>>
    PROVE  NoNews /\ \A m : Said(m)' <=> Said(m)
BY DEF NoNews, Said, Single, Brings, Lone

\* The client has taken note of its reply, or starts anew with none.
LEMMA TakenNews ==
    ASSUME Coming' = Coming, haveReply' = FALSE
    PROVE  NoNews /\ (\A m : Said(m)' => Brings(Coming, m)) /\ (Lone(Coming) => Single')
BY DEF NoNews, Said, Single, Brings, Lone

\* What is queued is on its way behind the rest.
LEMMA ComingMore ==
    ASSUME TypeInv, UNCHANGED <<toClient, remoteVars>>, cl'.fd = cl.fd, fd # 0, cl.fd = fd,
           NEW x \in Seq(Messages), out' = out \o x
    PROVE  Coming \in Seq(Messages) /\ Coming' = Coming \o x
<1> DEFINE t == toClient[fd]
<1>1. fd' = fd
  BY DEF remoteVars
<1>2. t \in Seq(Messages) /\ out \in Seq(Messages) /\ Coming \in Seq(Messages)
  BY ComingIs
<1>3. Coming = t \o out /\ Coming' = t \o (out \o x)
  BY <1>1 DEF Coming
<1> HIDE DEF t
<1>4. (t \o out) \o x = t \o (out \o x)
  BY <1>2, ConcatAssociative
<1> QED BY <1>2, <1>3, <1>4

\* Items are queued behind it.
LEMMA ItemNews ==
    ASSUME TypeInv, UNCHANGED <<toClient, remoteVars>>, cl'.fd = cl.fd,
           \E x \in Seq(Items) : out' = out \o x
    PROVE  NoNews /\ \A m : Said(m)' <=> Said(m)
<1>1. UNCHANGED <<fd, haveReply, reply>>
  BY DEF remoteVars
<1>2. CASE fd # 0 /\ cl.fd = fd
  <2>1. PICK x \in Seq(Items) : out' = out \o x
    OBVIOUS
  <2>2. x \in Seq(Messages) /\ Lone(x) /\ \A m : ~Brings(x, m)
    BY ItemsBringNothing
  <2>3. Coming \in Seq(Messages) /\ Coming' = Coming \o x
    BY <1>2, <2>1, <2>2, ComingMore
  <2> DEFINE c == Coming
  <2>4. c \in Seq(Messages)
    BY <2>3
  <2> HIDE DEF c
  <2>5. \A m : Brings(c \o x, m) <=> Brings(c, m)
    BY <2>2, <2>4, ConcatBrings
  <2>6. Lone(c) => Lone(c \o x)
    BY <2>2, <2>4, ConcatLone
  <2>7. \A m : Brings(Coming', m) <=> Brings(Coming, m)
    BY <2>3, <2>5 DEF c
  <2>8. Lone(Coming) => Lone(Coming')
    BY <2>3, <2>6 DEF c
  <2>9. \A m : Said(m)' <=> Said(m)
    BY <1>1, <2>7 DEF Said
  <2>10. Single => Single'
    BY <1>1, <2>7, <2>8 DEF Single
  <2> QED BY <2>9, <2>10 DEF NoNews
<1>3. CASE fd = 0 \/ cl.fd # fd
  <2>1. Coming' = Coming
    BY <1>1, <1>3 DEF Coming
  <2> QED BY <1>1, <2>1, SameNews
<1> QED BY <1>2, <1>3

\* An answer is queued.
LEMMA AnswerNews ==
    ASSUME TypeInv, UNCHANGED <<toClient, remoteVars>>, cl'.fd = cl.fd,
           NEW r \in Messages, r \notin Items, out' = Append(out, r)
    PROVE  IF fd # 0 /\ cl.fd = fd THEN News(r) ELSE NoNews
<1>1. UNCHANGED <<fd, haveReply, reply>>
  BY DEF remoteVars
<1>2. CASE fd # 0 /\ cl.fd = fd
  <2> DEFINE x == <<r>>
  <2>1. out' = out \o x
    BY ComingIs
  <2>2. x \in Seq(Messages) /\ Lone(x) /\ \A m : Brings(x, m) <=> m = r
    BY OneBrings
  <2> HIDE DEF x
  <2>3. Coming \in Seq(Messages) /\ Coming' = Coming \o x
    BY <1>2, <2>1, <2>2, ComingMore
  <2> DEFINE c == Coming
  <2>4. c \in Seq(Messages)
    BY <2>3
  <2> HIDE DEF c
  <2>5. \A m : Brings(c \o x, m) <=> Brings(c, m) \/ m = r
    BY <2>2, <2>4, ConcatBrings
  <2>6. (\A m : ~Brings(c, m)) => Lone(c \o x)
    BY <2>2, <2>4, ConcatLone
  <2>7. \A m : Brings(Coming', m) <=> Brings(Coming, m) \/ m = r
    BY <2>3, <2>5 DEF c
  <2>8. (\A m : ~Brings(Coming, m)) => Lone(Coming')
    BY <2>3, <2>6 DEF c
  <2>9. \A m : Said(m)' <=> Said(m) \/ m = r
    BY <1>1, <2>7 DEF Said
  <2>10. (\A m : ~Said(m)) => Single'
    BY <1>1, <2>8 DEF Said, Single
  <2> QED BY <1>2, <2>9, <2>10 DEF News
<1>3. CASE ~(fd # 0 /\ cl.fd = fd)
  <2>1. Coming' = Coming
    BY <1>1, <1>3 DEF Coming
  <2>2. NoNews
    BY <1>1, <2>1, SameNews
  <2> QED BY <1>3, <2>2
<1> QED BY <1>2, <1>3

\* What one receive() takes is the first of what comes.
LEMMA ReceiveParts ==
    ASSUME TypeInv, ReceiveStep, UNCHANGED linkVars
    PROVE  \E a \in Seq(Messages) :
              /\ Coming' \in Seq(Messages) /\ Coming = a \o Coming'
              /\ \/ haveReply' = haveReply /\ reply' = reply
                 \/ haveReply' /\ Brings(a, reply')
              /\ queue' = TakenAll(a).queue /\ haveReply' = TakenAll(a).have
<1>1. fd \in Conns /\ fd # 0 /\ fd' = fd /\ cl' = cl /\ out' = out
  BY ReceiveIs DEF linkVars, ReceiveStep
<1>2. PICK a, b \in Seq(Messages) :
         /\ a \o b = toClient[fd]
         /\ toClient' = [toClient EXCEPT ![fd] = b]
         /\ \/ haveReply' = haveReply /\ reply' = reply
            \/ haveReply' /\ Brings(a, reply')
         /\ queue' = TakenAll(a).queue /\ haveReply' = TakenAll(a).have
  BY ReceiveIs
<1> DEFINE o == IF cl.fd = fd THEN out ELSE <<>>
<1>3. o \in Seq(Messages)
  BY ComingIs
<1>4. toClient'[fd] = b
  BY <1>1, <1>2 DEF TypeInv, SockTypes
<1>5. Coming = (a \o b) \o o /\ Coming' = b \o o
  BY <1>1, <1>2, <1>4 DEF Coming
<1> HIDE DEF o
<1>6. (a \o b) \o o = a \o (b \o o)
  BY <1>3, ConcatAssociative
<1>7. b \o o \in Seq(Messages)
  BY <1>3
<1>8. Coming' \in Seq(Messages) /\ Coming = a \o Coming'
  BY <1>5, <1>6, <1>7
<1> QED BY <1>2, <1>8

LEMMA ReceiveNews ==
    ASSUME TypeInv, ReceiveStep, UNCHANGED linkVars
    PROVE  NoNews
<1>1. PICK a \in Seq(Messages) :
         /\ Coming' \in Seq(Messages) /\ Coming = a \o Coming'
         /\ \/ haveReply' = haveReply /\ reply' = reply
            \/ haveReply' /\ Brings(a, reply')
  BY ReceiveParts
<1> DEFINE c == Coming'
<1>2. c \in Seq(Messages) /\ Coming = a \o c
  BY <1>1
<1> HIDE DEF c
<1>3. \A m : Brings(a \o c, m) <=> Brings(a, m) \/ Brings(c, m)
  BY <1>2, ConcatBrings
<1>4. Lone(a \o c) => Lone(c) /\ \A m, n : Brings(a, m) => ~Brings(c, n)
  BY <1>2, ConcatLone
<1>5. \A m : Brings(Coming, m) <=> Brings(a, m) \/ Brings(Coming', m)
  BY <1>2, <1>3 DEF c
<1>6. Lone(Coming) => Lone(Coming') /\ \A m, n : Brings(a, m) => ~Brings(Coming', n)
  BY <1>2, <1>4 DEF c
<1>7. \A m : Said(m)' => Said(m)
  BY <1>1, <1>5 DEF Said
<1>8. ASSUME Single PROVE Single'
  <2>1. CASE haveReply' = haveReply /\ reply' = reply
    BY <1>5, <1>6, <1>8, <2>1 DEF Single
  <2>2. CASE haveReply' /\ Brings(a, reply')
    BY <1>6, <1>8, <2>2 DEF Single
  <2> QED BY <1>1, <2>1, <2>2
<1> QED BY <1>7, <1>8 DEF NoNews

LEMMA WriteNews ==
    ASSUME TypeInv, ClientWrite, cl.fd \in clientEnd, UNCHANGED remoteVars
    PROVE  NoNews /\ Coming' = Coming
           /\ UNCHANGED <<cl, linkEnd, toLink, clientEnd, backlog, up, captureVars, dev>>
           /\ \A c \in Conns : c # cl.fd => toClient'[c] = toClient[c]
<1> DEFINE room == SockMax - Len(toClient[cl.fd])
<1> DEFINE n == IF Len(out) < room THEN Len(out) ELSE room
<1>1. /\ n > 0
      /\ toClient' = [toClient EXCEPT ![cl.fd] = @ \o SubSeq(out, 1, n)]
      /\ out' = SubSeq(out, n + 1, Len(out))
      /\ UNCHANGED <<cl, linkEnd, toLink, clientEnd, backlog, up, captureVars, dev>>
  BY DEF ClientWrite
<1>2. cl.fd \in Conns /\ SockTypes /\ LinkTypes /\ cl.fd # 0
  BY DEF ClientWrite, TypeInv, LinkTypes
<1>3. n \in 0 .. Len(out)
  <2>1. toClient[cl.fd] \in Seq(Messages) /\ out \in Seq(Messages)
    BY <1>2 DEF SockTypes, LinkTypes
  <2>2. Len(toClient[cl.fd]) \in Nat /\ Len(out) \in Nat /\ SockMax \in Nat
    BY <2>1, SizesAssumption
  <2> QED BY <1>1, <2>2
<1> HIDE DEF n
<1>4. (toClient[cl.fd] \o SubSeq(out, 1, n)) \o SubSeq(out, n + 1, Len(out))
          = toClient[cl.fd] \o out
  BY <1>2, <1>3, WriteMoves
<1>5. fd' = fd /\ haveReply' = haveReply /\ reply' = reply
  BY DEF remoteVars
<1>6. \A c \in Conns : c # cl.fd => toClient'[c] = toClient[c]
  BY <1>1, <1>2 DEF SockTypes
<1>7. toClient'[cl.fd] = toClient[cl.fd] \o SubSeq(out, 1, n)
  BY <1>1, <1>2 DEF SockTypes
<1>8. Coming' = Coming
  <2>1. CASE fd = 0
    BY <1>5, <2>1 DEF Coming
  <2>2. CASE fd # 0 /\ cl.fd = fd
    BY <1>1, <1>4, <1>5, <1>7, <2>2 DEF Coming
  <2>3. CASE fd # 0 /\ cl.fd # fd
    <3>1. fd \in Conns
      BY <2>3 DEF TypeInv, RemoteTypes
    <3> QED BY <1>1, <1>5, <1>6, <2>3, <3>1 DEF Coming
  <2> QED BY <2>1, <2>2, <2>3
<1> QED BY <1>1, <1>5, <1>6, <1>8, SameNews

-----------------------------------------------------------------------------
(* What the link's steps do to the rest. *)

Elems(s) == {s[i] : i \in DOMAIN s}
Distinct(s) == \A i, j \in DOMAIN s : s[i] = s[j] => i = j

LEMMA FirstElem ==
    ASSUME NEW S, NEW s \in Seq(S), s # <<>>
    PROVE  /\ Head(s) \in S /\ Tail(s) \in Seq(S)
           /\ Elems(s) = {Head(s)} \cup Elems(Tail(s))
           /\ Distinct(s) => Distinct(Tail(s)) /\ Head(s) \notin Elems(Tail(s))
<1> DEFINE t == Tail(s)
<1> DEFINE k == Len(t)
<1>1. /\ t \in Seq(S) /\ k \in Nat /\ Len(s) = k + 1 /\ DOMAIN s = 1 .. k + 1 /\ DOMAIN t = 1 .. k
      /\ Head(s) = s[1] /\ Head(s) \in S
  OBVIOUS
<1>2. \A i \in 1 .. k : t[i] = s[i + 1]
  OBVIOUS
<1> HIDE DEF t, k
<1>3. /\ 1 \in 1 .. k + 1
      /\ \A i \in 1 .. k : i + 1 \in 1 .. k + 1 /\ i + 1 # 1
      /\ \A i \in 1 .. k + 1 : i = 1 \/ \E j \in 1 .. k : i = j + 1
      /\ \A i, j \in 1 .. k : i + 1 = j + 1 => i = j
  <2> SUFFICES ASSUME NEW i \in 1 .. k + 1, i # 1 PROVE \E j \in 1 .. k : i = j + 1
    BY <1>1
  <2>1. i - 1 \in 1 .. k /\ i = (i - 1) + 1
    BY <1>1
  <2> QED BY <2>1
<1>4. Elems(s) = {Head(s)} \cup Elems(t)
  <2>1. ASSUME NEW x \in Elems(s) PROVE x = Head(s) \/ x \in Elems(t)
    <3>1. PICK i \in 1 .. k + 1 : x = s[i]
      BY <1>1, <2>1 DEF Elems
    <3>2. CASE i = 1
      BY <1>1, <3>1, <3>2
    <3>3. CASE i # 1
      <4>1. PICK j \in 1 .. k : i = j + 1
        BY <1>3, <3>3
      <4>2. x = t[j]
        BY <1>2, <3>1, <4>1
      <4> QED BY <1>1, <4>2 DEF Elems
    <3> QED BY <3>2, <3>3
  <2>2. ASSUME NEW x \in Elems(t) PROVE x \in Elems(s)
    <3>1. PICK j \in 1 .. k : x = t[j]
      BY <1>1, <2>2 DEF Elems
    <3>2. j + 1 \in 1 .. k + 1 /\ x = s[j + 1]
      BY <1>2, <1>3, <3>1
    <3> QED BY <1>1, <3>2 DEF Elems
  <2>3. Head(s) \in Elems(s)
    BY <1>1, <1>3 DEF Elems
  <2> QED BY <2>1, <2>2, <2>3
<1>5. ASSUME Distinct(s) PROVE Distinct(t) /\ Head(s) \notin Elems(t)
  <2>1. Distinct(t)
    <3> SUFFICES ASSUME NEW i \in 1 .. k, NEW j \in 1 .. k, t[i] = t[j] PROVE i = j
      BY <1>1 DEF Distinct
    <3>1. s[i + 1] = s[j + 1] /\ i + 1 \in DOMAIN s /\ j + 1 \in DOMAIN s
      BY <1>1, <1>2, <1>3
    <3>2. i + 1 = j + 1
      BY <1>5, <3>1 DEF Distinct
    <3> QED BY <1>3, <3>2
  <2>2. ASSUME NEW i \in 1 .. k, t[i] = Head(s) PROVE FALSE
    <3>1. s[i + 1] = s[1] /\ i + 1 \in DOMAIN s /\ 1 \in DOMAIN s
      BY <1>1, <1>2, <1>3, <2>2
    <3>2. i + 1 = 1
      BY <1>5, <3>1 DEF Distinct
    <3> QED BY <1>3, <3>2
  <2> QED BY <1>1, <2>1, <2>2 DEF Elems
<1> QED BY <1>1, <1>4, <1>5 DEF t

LEMMA NextElem ==
    ASSUME NEW S, NEW s \in Seq(S), NEW x \in S
    PROVE  /\ Append(s, x) \in Seq(S) /\ Append(s, x) # <<>>
           /\ Len(Append(s, x)) = Len(s) + 1
           /\ Elems(Append(s, x)) = Elems(s) \cup {x}
           /\ Distinct(s) /\ x \notin Elems(s) => Distinct(Append(s, x))
<1> DEFINE t == Append(s, x)
<1> DEFINE k == Len(s)
<1>1. /\ t \in Seq(S) /\ k \in Nat /\ Len(t) = k + 1 /\ DOMAIN t = 1 .. k + 1 /\ DOMAIN s = 1 .. k
      /\ t[k + 1] = x /\ t # <<>>
  OBVIOUS
<1>2. \A i \in 1 .. k : t[i] = s[i]
  OBVIOUS
<1> HIDE DEF t, k
<1>3. /\ k + 1 \in 1 .. k + 1
      /\ \A i \in 1 .. k : i \in 1 .. k + 1
      /\ \A i \in 1 .. k + 1 : i = k + 1 \/ i \in 1 .. k
  BY <1>1
<1>4. Elems(t) = Elems(s) \cup {x}
  <2>1. ASSUME NEW y \in Elems(t) PROVE y = x \/ y \in Elems(s)
    BY <1>1, <1>2, <1>3, <2>1 DEF Elems
  <2>2. ASSUME NEW y \in Elems(s) PROVE y \in Elems(t)
    BY <1>1, <1>2, <1>3, <2>2 DEF Elems
  <2>3. x \in Elems(t)
    BY <1>1, <1>3 DEF Elems
  <2> QED BY <2>1, <2>2, <2>3
<1>5. ASSUME Distinct(s), x \notin Elems(s) PROVE Distinct(t)
  <2> SUFFICES ASSUME NEW i \in 1 .. k + 1, NEW j \in 1 .. k + 1, t[i] = t[j] PROVE i = j
    BY <1>1 DEF Distinct
  <2>1. \A h \in 1 .. k : t[h] # x
    BY <1>1, <1>2, <1>5 DEF Elems
  <2>2. CASE i \in 1 .. k /\ j \in 1 .. k
    BY <1>1, <1>2, <1>5, <2>2 DEF Distinct
  <2>3. CASE i = k + 1 \/ j = k + 1
    BY <1>1, <1>3, <2>1, <2>3
  <2> QED BY <1>3, <2>2, <2>3
<1> QED BY <1>1, <1>4, <1>5 DEF t, k

\* A pull goes on with the capture, or ends it with a fault.
ItemsStep ==
    /\ UNCHANGED <<sockVars, up, log, remoteVars>> /\ cl'.fd = cl.fd
    /\ NoNews
    /\ running
    /\ \/ running' = running /\ SameSetup(dev, dev')
       \/ running' = FALSE /\ dev'.faults > 0

WriteStep ==
    /\ UNCHANGED <<cl, linkEnd, toLink, clientEnd, backlog, up, captureVars, dev, remoteVars>>
    /\ \A c \in Conns : c # cl.fd => toClient'[c] = toClient[c]
    /\ cl.fd # 0 /\ cl.fd \in clientEnd
    /\ NoNews

DropStep ==
    /\ UNCHANGED <<toClient, clientEnd, backlog, up, captureVars, dev, remoteVars>>
    /\ cl.fd # 0 /\ cl.fd \notin clientEnd /\ cl'.fd = 0
    /\ CloseLinkEnd(cl.fd)

BusyStep(c) ==
    /\ UNCHANGED <<clientEnd, up, captureVars, dev, cl, out, remoteVars>>
    /\ backlog # <<>> /\ c = Head(backlog) /\ backlog' = Tail(backlog)
    /\ cl.fd # 0
    /\ toClient' = [toClient EXCEPT ![c] = IF c \in clientEnd THEN Append(@, Busy) ELSE @]
    /\ CloseLinkEnd(c)

ServeStep(c) ==
    /\ UNCHANGED <<toLink, toClient, clientEnd, linkEnd, up, captureVars, dev, remoteVars>>
    /\ up
    /\ backlog # <<>> /\ c = Head(backlog) /\ backlog' = Tail(backlog)
    /\ cl.fd = 0 /\ cl'.fd = c
    /\ out' = <<Welcome>>

QuitStep ==
    /\ UNCHANGED <<toClient, clientEnd, remoteVars>>
    /\ up' = FALSE /\ running' = FALSE /\ cl'.fd = 0
    /\ linkEnd' = {} /\ backlog' = <<>> /\ toLink' = [c \in Conns |-> <<>>]
    /\ dev'.faults > 0

HelloDoes(r) ==
    /\ running' = FALSE /\ log' = <<>>
    /\ r.status = "ok" => dev'.on = FALSE /\ dev'.setup = <<>> /\ dev'.faults = dev.faults
    /\ r.status # "ok" => dev'.faults > 0

StopDoes ==
    /\ running' = FALSE /\ log' = log
    /\ dev'.faults = dev.faults
    /\ ~running => dev' = dev
    /\ running => dev'.on = FALSE

ConfigDoes(req, r) ==
    \/ /\ UNCHANGED <<running, log, dev>>
       /\ r.status = "error"
    \/ /\ running = FALSE /\ running' = FALSE
       /\ r.status = "error" /\ log' = log /\ dev'.faults > 0
    \/ /\ running = FALSE /\ running' = FALSE
       /\ r.rest = "rejected" /\ dev' = dev /\ AcceptedRegs(log') = AcceptedRegs(log)
    \/ /\ running = FALSE
       /\ r.rest = "accepted" /\ dev'.setup = Append(dev.setup, req.reg)
       /\ AcceptedRegs(log') = Append(AcceptedRegs(log), req.reg)
       /\ req.reg # "capture" => running' = FALSE
       /\ \/ dev'.faults > 0
          \/ /\ dev'.faults = dev.faults
             /\ dev'.on => dev.on \/ running'

AttachDoes(r) ==
    /\ UNCHANGED <<running, log, dev>>
    /\ IF running THEN r.join.log = log ELSE r.status = "error"

RequestStep(req, r) ==
    /\ UNCHANGED <<toClient, clientEnd, linkEnd, backlog, up, remoteVars>>
    /\ cl'.fd = cl.fd /\ cl.fd \in Conns
    /\ toLink[cl.fd] \in Seq(RequestType) /\ toLink[cl.fd] # <<>>
    /\ req = Head(toLink[cl.fd]) /\ req \in RequestType
    /\ toLink' = [toLink EXCEPT ![cl.fd] = Tail(@)]
    /\ r \in ReplyType /\ r.of = req.type /\ r.for = req.n
    /\ out' = Append(out, r)
    /\ \/ req.type = "HELLO" /\ HelloDoes(r)
       \/ req.type = "STOP" /\ StopDoes
       \/ req.type = "CONFIG" /\ ConfigDoes(req, r)
       \/ req.type = "ATTACH" /\ AttachDoes(r)

\* What all requests do.
LEMMA AskedIs ==
    ASSUME TypeInv, UNCHANGED remoteVars, NEW type, NEW req, Request(type, req), cl'.fd = cl.fd,
           NEW s \in {"ok", "error"}, NEW t \in Verdicts, NEW j \in Joins, Answer(req, s, t, j),
           \/ type = "HELLO" /\ HelloDoes(Reply(req, s, t, j))
           \/ type = "STOP" /\ StopDoes
           \/ type = "CONFIG" /\ ConfigDoes(req, Reply(req, s, t, j))
           \/ type = "ATTACH" /\ AttachDoes(Reply(req, s, t, j))
    PROVE  \E r \in ReplyType : RequestStep(req, r)
<1> DEFINE r == Reply(req, s, t, j)
<1>1. SockTypes /\ LinkTypes
  BY DEF TypeInv
<1>2. /\ req \in RequestType /\ req.type = type /\ cl.fd \in Conns
      /\ toLink[cl.fd] \in Seq(RequestType) /\ toLink[cl.fd] # <<>>
      /\ req = Head(toLink[cl.fd])
      /\ toLink' = [toLink EXCEPT ![cl.fd] = Tail(@)]
  BY <1>1, RequestIs
<1>3. UNCHANGED <<toClient, clientEnd, linkEnd, backlog, up>>
  BY DEF Request
<1>4. r \in ReplyType
  BY <1>2, ReplyIs
<1>5. r.of = req.type /\ r.for = req.n
  BY DEF Reply
<1>6. out' = Append(out, r)
  BY DEF Answer
<1> HIDE DEF r
<1>7. \/ type = "HELLO" /\ HelloDoes(r)
      \/ type = "STOP" /\ StopDoes
      \/ type = "CONFIG" /\ ConfigDoes(req, r)
      \/ type = "ATTACH" /\ AttachDoes(r)
  BY DEF r
<1>8. RequestStep(req, r)
  BY <1>2, <1>3, <1>4, <1>5, <1>6, <1>7 DEF RequestStep
<1> QED BY <1>4, <1>8

LEMMA ReplyTells ==
    ASSUME NEW q, NEW s, NEW t, NEW j
    PROVE  Reply(q, s, t, j).status = s /\ Reply(q, s, t, j).rest = t /\ Reply(q, s, t, j).join = j
BY DEF Reply

LEMMA HelloAsked ==
    ASSUME TypeInv, UNCHANGED remoteVars, NEW req, OnHello(req)
    PROVE  \E r \in ReplyType : RequestStep(req, r)
<1>1. SockTypes /\ LinkTypes /\ dev \in DevType
  BY DEF TypeInv, LinkTypes
<1>2. Request("HELLO", req) /\ EndIfRunning /\ log' = <<>>
  BY DEF OnHello
<1> DEFINE v == IF running THEN ResetDev(dev) ELSE dev
<1>3. v \in DevType /\ v.faults = dev.faults
  BY <1>1, ResetIs
<1>4. PICK h \in Hellos(v) : dev' = h[2] /\ Answer(req, h[1], "none", NoJoin)
  BY DEF OnHello
<1> HIDE DEF v
<1>5. h[1] \in {"ok", "error"} /\ (h[1] = "ok" => h[2] = ResetDev(v))
      /\ (h[1] = "error" => h[2].faults > 0)
  BY <1>3, HellosAre
<1>6. cl'.fd = cl.fd /\ running' = FALSE
  BY <1>1, <1>2, EndKeepsTypes
<1>7. h[1] = "ok" => dev'.on = FALSE /\ dev'.setup = <<>> /\ dev'.faults = dev.faults
  BY <1>3, <1>4, <1>5, ResetIs
<1>8. HelloDoes(Reply(req, h[1], "none", NoJoin))
  BY <1>2, <1>4, <1>5, <1>6, <1>7, ReplyTells DEF HelloDoes
<1> QED BY <1>2, <1>4, <1>5, <1>6, <1>8, NoJoinIs, AskedIs DEF Verdicts

LEMMA StopAsked ==
    ASSUME TypeInv, UNCHANGED remoteVars, NEW req, OnStop(req)
    PROVE  \E r \in ReplyType : RequestStep(req, r)
<1>1. SockTypes /\ LinkTypes /\ dev \in DevType
  BY DEF TypeInv, LinkTypes
<1>2. /\ Request("STOP", req) /\ EndIfRunning /\ log' = log
      /\ Answer(req, "ok", "none", NoJoin)
      /\ dev' = IF running THEN ResetDev(dev) ELSE dev
  BY DEF OnStop
<1>3. cl'.fd = cl.fd /\ running' = FALSE
  BY <1>1, <1>2, EndKeepsTypes
<1>4. StopDoes
  BY <1>1, <1>2, <1>3, ResetIs DEF StopDoes
<1> QED BY <1>2, <1>3, <1>4, NoJoinIs, AskedIs DEF Verdicts

LEMMA RefuseAsked ==
    ASSUME TypeInv, UNCHANGED remoteVars, NEW req, RefuseConfig(req)
    PROVE  \E r \in ReplyType : RequestStep(req, r)
<1>1. /\ Request("CONFIG", req) /\ Answer(req, "error", "none", NoJoin)
      /\ UNCHANGED <<running, log, cl, dev>>
  BY DEF RefuseConfig, captureVars
<1>2. ConfigDoes(req, Reply(req, "error", "none", NoJoin))
  BY <1>1, ReplyTells DEF ConfigDoes
<1> QED BY <1>1, <1>2, NoJoinIs, AskedIs DEF Verdicts

LEMMA AttachAsked ==
    ASSUME TypeInv, UNCHANGED remoteVars, NEW req, OnAttach(req)
    PROVE  \E r \in ReplyType : RequestStep(req, r)
<1>1. LinkTypes /\ Request("ATTACH", req) /\ UNCHANGED <<running, log, dev>>
  BY DEF OnAttach, TypeInv, captureVars
<1>2. CASE ~running
  <2>1. Answer(req, "error", "none", NoJoin) /\ UNCHANGED cl
    BY <1>2 DEF OnAttach
  <2>2. AttachDoes(Reply(req, "error", "none", NoJoin))
    BY <1>1, <1>2, ReplyTells DEF AttachDoes
  <2> QED BY <1>1, <2>1, <2>2, NoJoinIs, AskedIs DEF Verdicts
<1>3. CASE running
  <2> DEFINE g == JoinGrid
  <2> DEFINE j == [grid |-> g, log |-> log, base |-> lossBase]
  <2>1. /\ Answer(req, "ok", "none", j)
        /\ cl' = [cl EXCEPT !.streaming = FALSE, !.attaching = TRUE, !.grid = g, !.started = {}]
    BY <1>3 DEF OnAttach
  <2>2. g \in Nat
    BY <1>1, JoinGridIs DEF LinkTypes
  <2> HIDE DEF g
  <2>3. j \in Joins /\ j.log = log
    BY <1>1, <2>2 DEF LinkTypes, Joins
  <2> HIDE DEF j
  <2>4. cl'.fd = cl.fd
    BY <1>1, <2>1, <2>2, JoinedClientIs DEF LinkTypes
  <2>5. AttachDoes(Reply(req, "ok", "none", j))
    BY <1>1, <1>3, <2>3, ReplyTells DEF AttachDoes
  <2> QED BY <1>1, <2>1, <2>3, <2>4, <2>5, AskedIs DEF Verdicts
<1> QED BY <1>2, <1>3

LEMMA ConfigAsked ==
    ASSUME TypeInv, UNCHANGED remoteVars, NEW req, OnConfig(req)
    PROVE  \E r \in ReplyType : RequestStep(req, r)
<1>1. SockTypes /\ LinkTypes /\ dev \in DevType /\ log \in Logs /\ running = FALSE
  BY DEF TypeInv, LinkTypes, OnConfig
<1>2. Request("CONFIG", req)
  BY DEF OnConfig
<1>3. req \in RequestType
  BY <1>1, <1>2, RequestIs
<1>4. req.reg \in Regs
  BY <1>3, RequestsAre
<1>5. PICK c \in Configs(dev, req.reg) :
         /\ Answer(req, c[1], c[2], NoJoin)
         /\ log' = IF c[1] = "ok" THEN Append(log, <<req.reg, c[2]>>) ELSE log
         /\ IF req.reg = "capture" /\ c[2] = "accepted"
            THEN \/ CaptureBegin /\ dev' = c[3]
                 \/ BeginFails /\ dev' = FaultDev(c[3])
            ELSE /\ dev' = c[3]
                 /\ UNCHANGED <<running, lastGrid, pos, tail, lossBase, cl>>
  BY DEF OnConfig
<1>6. /\ c[1] \in {"ok", "error"} /\ c[2] \in Verdicts /\ c[3] \in DevType
      /\ c[1] = "ok" => \/ c[2] = "accepted" /\ c[3] = Applied(dev, req.reg)
                        \/ c[2] = "rejected" /\ c[3] = dev
      /\ c[1] = "error" => c[2] = "none" /\ c[3].faults > 0
  BY <1>1, <1>4, ConfigsAre
<1> DEFINE r == Reply(req, c[1], c[2], NoJoin)
<1>7. r.status = c[1] /\ r.rest = c[2]
  BY ReplyTells
<1> HIDE DEF r
<1>8. cl'.fd = cl.fd
  <2>1. CASE CaptureBegin
    BY <1>1, <2>1, BegunClientIs DEF CaptureBegin, LinkTypes
  <2>2. CASE UNCHANGED cl
    BY <2>2
  <2> QED BY <1>5, <2>1, <2>2 DEF BeginFails
<1>9. ASSUME c[1] = "error" PROVE ConfigDoes(req, r)
  <2>1. c[2] = "none" /\ c[3].faults > 0
    BY <1>6, <1>9
  <2>2. dev' = c[3] /\ running' = running /\ log' = log
    BY <1>5, <1>9, <2>1
  <2> QED BY <1>1, <1>7, <1>9, <2>1, <2>2 DEF ConfigDoes
<1>10. ASSUME c[1] = "ok" /\ c[2] = "rejected" PROVE ConfigDoes(req, r)
  <2>1. dev' = dev /\ running' = running /\ log' = Append(log, <<req.reg, "rejected">>)
    BY <1>5, <1>6, <1>10
  <2>2. AcceptedRegs(log') = AcceptedRegs(log)
    BY <1>1, <1>4, <2>1, AcceptedAppend DEF Verdicts
  <2> QED BY <1>1, <1>7, <1>10, <2>1, <2>2 DEF ConfigDoes
<1>11. ASSUME c[1] = "ok" /\ c[2] = "accepted" PROVE ConfigDoes(req, r)
  <2>1. c[3] = Applied(dev, req.reg) /\ log' = Append(log, <<req.reg, "accepted">>)
    BY <1>5, <1>6, <1>11
  <2>2. AcceptedRegs(log') = Append(AcceptedRegs(log), req.reg)
    BY <1>1, <1>4, <2>1, AcceptedAppend DEF Verdicts
  <2>3. /\ c[3].setup = Append(dev.setup, req.reg) /\ c[3].faults = dev.faults
        /\ c[3].on => dev.on \/ req.reg = "capture"
    BY <1>1, <1>4, <2>1, AppliedIs
  <2>4. CASE req.reg = "capture" /\ CaptureBegin /\ dev' = c[3]
    <3>1. running' = TRUE
      BY <2>4 DEF CaptureBegin
    <3> QED BY <1>1, <1>7, <1>11, <2>2, <2>3, <2>4, <3>1 DEF ConfigDoes
  <2>5. CASE req.reg = "capture" /\ dev' = FaultDev(c[3])
    <3>1. dev'.setup = c[3].setup /\ dev'.faults > 0
      BY <1>6, <2>5, FaultIs
    <3> QED BY <1>1, <1>7, <1>11, <2>2, <2>3, <2>5, <3>1 DEF ConfigDoes
  <2>6. CASE req.reg # "capture" /\ dev' = c[3] /\ running' = running
    BY <1>1, <1>7, <1>11, <2>2, <2>3, <2>6 DEF ConfigDoes
  <2> QED BY <1>5, <1>11, <2>4, <2>5, <2>6
<1>12. ConfigDoes(req, r)
  BY <1>6, <1>9, <1>10, <1>11
<1> QED BY <1>2, <1>5, <1>6, <1>8, <1>12, NoJoinIs, AskedIs DEF r

LEMMA PullDoes ==
    ASSUME TypeInv, Pull, UNCHANGED remoteVars
    PROVE  ItemsStep
<1>1. LinkTypes
  BY DEF TypeInv
<1>2. PICK p \in Pulls : dev' = p.dev /\ cl' = Forward(p).cl /\ out' = Forward(p).out
  BY DEF Pull
<1>3. running /\ UNCHANGED <<sockVars, up, log, running>>
  BY DEF Pull
<1>4. /\ SameSetup(dev, p.dev) /\ SamePlace(cl, Forward(p).cl)
      /\ \E x \in Seq(Items) : Forward(p).out = out \o x
  BY <1>1, ForwardIs
<1>5. cl'.fd = cl.fd
  BY <1>2, <1>4 DEF SamePlace
<1>6. NoNews
  <2>1. toClient' = toClient
    BY <1>3 DEF sockVars
  <2>2. \E x \in Seq(Items) : out' = out \o x
    BY <1>2, <1>4
  <2> QED BY <1>5, <2>1, <2>2, ItemNews
<1> QED BY <1>2, <1>3, <1>4, <1>5, <1>6 DEF ItemsStep

LEMMA PullFailsDoes ==
    ASSUME TypeInv, PullFails, UNCHANGED remoteVars
    PROVE  ItemsStep
<1>1. LinkTypes
  BY DEF TypeInv
<1>2. PICK p \in Pulls : /\ dev' = FaultDev(ResetDev(p.dev))
                         /\ cl' = [Forward(p).cl EXCEPT !.streaming = FALSE, !.attaching = FALSE]
                         /\ out' = Forward(p).out
  BY DEF PullFails
<1>3. running /\ running' = FALSE /\ UNCHANGED <<sockVars, up, log>>
  BY DEF PullFails
<1> DEFINE c == Forward(p).cl
<1>4. /\ p \in PullType /\ c \in ClientType /\ SamePlace(cl, c)
      /\ \E x \in Seq(Items) : Forward(p).out = out \o x
  BY <1>1, ForwardIs
<1>5. cl' = [c EXCEPT !.streaming = FALSE, !.attaching = FALSE]
  BY <1>2
<1> HIDE DEF c
<1>6. cl'.fd = cl.fd
  BY <1>4, <1>5, StoppedIs DEF SamePlace
<1>7. NoNews
  <2>1. toClient' = toClient
    BY <1>3 DEF sockVars
  <2>2. \E x \in Seq(Items) : out' = out \o x
    BY <1>2, <1>4
  <2> QED BY <1>6, <2>1, <2>2, ItemNews
<1>8. dev'.faults > 0
  <2>1. ResetDev(p.dev) \in DevType
    BY <1>4, PullParts, ResetIs
  <2> QED BY <1>2, <2>1, FaultIs
<1> QED BY <1>3, <1>6, <1>7, <1>8 DEF ItemsStep

LEMMA QuitDoes ==
    ASSUME TypeInv, Quit, UNCHANGED remoteVars
    PROVE  QuitStep
<1>1. dev'.faults > 0
  <2> DEFINE v == IF running THEN ResetDev(dev) ELSE dev
  <2>1. v \in DevType
    BY ResetIs DEF TypeInv, LinkTypes
  <2>2. dev' = FaultDev(v)
    BY DEF Quit
  <2> HIDE DEF v
  <2> QED BY <2>1, <2>2, FaultIs
<1>2. cl'.fd = 0
  BY NoClientIs DEF Quit
<1> QED BY <1>1, <1>2 DEF Quit, QuitStep

LEMMA DropDoes ==
    ASSUME DropClient, cl.fd # 0, cl.fd \notin clientEnd,
           UNCHANGED <<toClient, clientEnd, backlog, up, captureVars, dev, remoteVars>>
    PROVE  DropStep
BY NoClientIs DEF DropClient, DropStep

LEMMA AcceptDoes ==
    ASSUME TypeInv, AcceptClient, UNCHANGED remoteVars
    PROVE  \E c \in Conns : BusyStep(c) \/ ServeStep(c)
<1> DEFINE c == Head(backlog)
<1>1. c \in Conns
  BY DEF AcceptClient, TypeInv, SockTypes
<1>2. /\ UNCHANGED <<clientEnd, up, captureVars, dev, remoteVars>> /\ up
      /\ backlog # <<>> /\ backlog' = Tail(backlog)
  BY DEF AcceptClient
<1>3. CASE cl.fd # 0
  <2>1. /\ toClient' = [toClient EXCEPT ![c] = IF c \in clientEnd THEN Append(@, Busy) ELSE @]
        /\ CloseLinkEnd(c) /\ UNCHANGED <<cl, out>>
    BY <1>3 DEF AcceptClient
  <2>2. BusyStep(c)
    BY <1>2, <1>3, <2>1 DEF BusyStep
  <2> QED BY <1>1, <2>2
<1>4. CASE cl.fd = 0
  <2>1. /\ cl' = [NoClient EXCEPT !.fd = c] /\ out' = <<Welcome>>
        /\ UNCHANGED <<toLink, toClient, linkEnd>>
    BY <1>4 DEF AcceptClient
  <2>2. cl'.fd = c
    BY <1>1, <2>1, NewClientIs
  <2>3. ServeStep(c)
    BY <1>2, <1>4, <2>1, <2>2 DEF ServeStep
  <2> QED BY <1>1, <2>3
<1> QED BY <1>3, <1>4

LinkDoes ==
    \/ ItemsStep
    \/ WriteStep
    \/ DropStep
    \/ \E c \in Conns : BusyStep(c)
    \/ \E c \in Conns : ServeStep(c)
    \/ \E req \in RequestType, r \in ReplyType : RequestStep(req, r)
    \/ QuitStep

LEMMA LinkStepsDo ==
    ASSUME TypeInv, LinkNext, UNCHANGED remoteVars
    PROVE  LinkDoes
<1>1. CASE AcceptClient
  BY <1>1, AcceptDoes DEF LinkDoes
<1>2. CASE ClientGone
  <2>1. DropStep
    BY <1>2, DropDoes DEF ClientGone
  <2> QED BY <2>1 DEF LinkDoes
<1>3. CASE Requests
  <2>1. PICK req : OnHello(req) \/ OnStop(req) \/ RefuseConfig(req) \/ OnConfig(req)
                   \/ OnAttach(req)
    BY <1>3 DEF Requests
  <2>2. PICK r \in ReplyType : RequestStep(req, r)
    BY <2>1, HelloAsked, StopAsked, RefuseAsked, ConfigAsked, AttachAsked
  <2>3. req \in RequestType
    BY <2>2 DEF RequestStep
  <2> QED BY <2>2, <2>3 DEF LinkDoes
<1>4. CASE ClientWrite
  <2>1. CASE cl.fd \notin clientEnd
    <3>1. DropStep
      BY <1>4, <2>1, DropDoes DEF ClientWrite
    <3> QED BY <3>1 DEF LinkDoes
  <2>2. CASE cl.fd \in clientEnd
    <3>1. cl.fd # 0
      BY <1>4 DEF ClientWrite
    <3>2. WriteStep
      BY <1>4, <2>2, <3>1, WriteNews DEF WriteStep
    <3> QED BY <3>2 DEF LinkDoes
  <2> QED BY <2>1, <2>2
<1>5. CASE Pull \/ PullFails
  BY <1>5, PullDoes, PullFailsDoes DEF LinkDoes
<1>6. CASE Quit
  BY <1>6, QuitDoes DEF LinkDoes
<1> QED BY <1>1, <1>2, <1>3, <1>4, <1>5, <1>6 DEF LinkNext

-----------------------------------------------------------------------------
(* Where the connections are. *)

Queued == Elems(backlog)

\* The ends that are open, and the connections not accepted.
Ends ==
    /\ fd \in {0, conns}
    /\ clientEnd = {fd} \ {0}
    /\ linkEnd = Queued \cup ({cl.fd} \ {0})
    /\ \A c \in linkEnd : c <= conns
    /\ Distinct(backlog) /\ cl.fd \notin Queued
    /\ \A t \in timeouts : t[1] <= conns
    /\ ~up => linkEnd = {}

\* What is in the sockets.
Sockets ==
    /\ \A c \in Conns : toLink[c] # <<>> => c = cl.fd
    /\ \A c \in Conns : c # fd => toClient[c] = <<>>
    /\ fd \in Queued => sess = "opening" /\ toClient[fd] = <<>> /\ haveReply = FALSE

\* How far the session is.
Waits ==
    /\ fd = 0 <=> sess = "closed"
    /\ fd = 0 => waiting = None /\ haveReply = FALSE
    /\ sess \in {"opening", "greeted"} => ~Late
    /\ waiting.type = "CONFIG" => sess \in {"ready", "set"}
    /\ waiting.type = "HELLO" => sess \in {"greeted", "open"}
    /\ waiting.type = "ATTACH" => sess = "greeted"
    /\ waiting.type = "STOP" => sess = "running"

ConnInv == Ends /\ Sockets /\ Waits

LEMMA ConnsAre == \A c \in Conns : c \in Nat /\ c # 0 /\ c <= MaxConns
BY SizesAssumption DEF Conns

LEMMA QueuedAre ==
    ASSUME TypeInv
    PROVE  /\ Queued \in SUBSET Conns /\ 0 \notin Queued
           /\ backlog # <<>> => /\ Head(backlog) \in Conns
                                /\ Queued = {Head(backlog)} \cup Elems(Tail(backlog))
                                /\ Distinct(backlog) => /\ Distinct(Tail(backlog))
                                                        /\ Head(backlog) \notin Elems(Tail(backlog))
<1>1. backlog \in Seq(Conns)
  BY DEF TypeInv, SockTypes
<1>2. \A i \in DOMAIN backlog : backlog[i] \in Conns
  BY <1>1
<1>3. Queued \in SUBSET Conns
  BY <1>2 DEF Queued, Elems
<1> QED BY <1>1, <1>3, FirstElem, ConnsAre DEF Queued

LEMMA LinkLeavesRemote ==
    ASSUME LinkDoes
    PROVE  /\ UNCHANGED remoteVars
           /\ UNCHANGED <<fd, conns, sess, waiting, lastId, haveReply, reply, queue, linkRuns,
                          timeouts, joined, setup>>
           /\ clientEnd' = clientEnd
           /\ up' => up
<1>1. UNCHANGED remoteVars /\ clientEnd' = clientEnd /\ (up' => up)
  BY DEF LinkDoes, ItemsStep, WriteStep, DropStep, BusyStep, ServeStep, RequestStep, QuitStep,
         sockVars
<1> QED BY <1>1 DEF remoteVars

LEMMA LinkEnds ==
    ASSUME TypeInv, Ends, LinkDoes
    PROVE  Ends'
<1> USE LinkLeavesRemote
<1>1. CASE UNCHANGED <<linkEnd, backlog, up>> /\ cl'.fd = cl.fd
  BY <1>1 DEF Ends, Queued, Elems, Distinct
<1>2. CASE DropStep
  <2>1. linkEnd' = linkEnd \ {cl.fd} /\ cl'.fd = 0 /\ backlog' = backlog /\ up' = up
    BY <1>2 DEF DropStep, CloseLinkEnd
  <2>2. Queued' = Queued /\ Distinct(backlog)' = Distinct(backlog)
    BY <2>1 DEF Queued, Elems, Distinct
  <2> QED BY <2>1, <2>2, QueuedAre DEF Ends
<1>3. ASSUME NEW c \in Conns, BusyStep(c) PROVE Ends'
  <2>1. /\ linkEnd' = linkEnd \ {c} /\ cl' = cl /\ backlog' = Tail(backlog) /\ up' = up
        /\ c = Head(backlog) /\ backlog # <<>>
    BY <1>3 DEF BusyStep, CloseLinkEnd, captureVars
  <2>2. Queued' = Elems(Tail(backlog)) /\ Distinct(backlog)' = Distinct(Tail(backlog))
    BY <2>1 DEF Queued, Elems, Distinct
  <2>3. Queued = {c} \cup Queued' /\ c \notin Queued' /\ Distinct(backlog)'
    BY <2>1, <2>2, QueuedAre DEF Ends
  <2> QED BY <2>1, <2>3 DEF Ends
<1>4. ASSUME NEW c \in Conns, ServeStep(c) PROVE Ends'
  <2>1. /\ linkEnd' = linkEnd /\ cl.fd = 0 /\ cl'.fd = c /\ backlog' = Tail(backlog) /\ up' = up
        /\ c = Head(backlog) /\ backlog # <<>>
    BY <1>4 DEF ServeStep
  <2>2. Queued' = Elems(Tail(backlog)) /\ Distinct(backlog)' = Distinct(Tail(backlog))
    BY <2>1 DEF Queued, Elems, Distinct
  <2>3. Queued = {c} \cup Queued' /\ c \notin Queued' /\ Distinct(backlog)'
    BY <2>1, <2>2, QueuedAre DEF Ends
  <2> QED BY <2>1, <2>3, ConnsAre DEF Ends
<1>5. CASE QuitStep
  <2>1. linkEnd' = {} /\ backlog' = <<>> /\ cl'.fd = 0
    BY <1>5 DEF QuitStep
  <2>2. Queued' = {} /\ Distinct(backlog)'
    BY <2>1 DEF Queued, Elems, Distinct
  <2> QED BY <2>1, <2>2 DEF Ends
<1>6. CASE ItemsStep
  BY <1>1, <1>6 DEF ItemsStep, sockVars
<1>7. CASE WriteStep
  BY <1>1, <1>7 DEF WriteStep
<1>8. ASSUME NEW req, NEW r, RequestStep(req, r) PROVE Ends'
  BY <1>1, <1>8 DEF RequestStep
<1> QED BY <1>2, <1>3, <1>4, <1>5, <1>6, <1>7, <1>8 DEF LinkDoes

\* Closing the link's end forgets what was unread on it.
LEMMA CloseEndIs ==
    ASSUME TypeInv, NEW c \in Conns, CloseLinkEnd(c)
    PROVE  toLink'[c] = <<>> /\ \A d \in Conns : d # c => toLink'[d] = toLink[d]
BY DEF CloseLinkEnd, TypeInv, SockTypes

LEMMA LinkSockets ==
    ASSUME TypeInv, ConnInv, LinkDoes
    PROVE  Sockets'
<1> USE LinkLeavesRemote
<1>1. ASSUME UNCHANGED <<toLink, toClient, backlog>>, cl'.fd = cl.fd PROVE Sockets'
  <2>1. Queued' = Queued
    BY <1>1 DEF Queued, Elems
  <2> QED BY <1>1, <2>1 DEF ConnInv, Sockets
<1>2. CASE DropStep
  <2>1. cl.fd \in Conns /\ CloseLinkEnd(cl.fd) /\ UNCHANGED <<toClient, backlog>>
    BY <1>2 DEF DropStep, TypeInv, LinkTypes
  <2>2. Queued' = Queued
    BY <2>1 DEF Queued, Elems
  <2>3. \A c \in Conns : toLink'[c] = <<>>
    BY <2>1, CloseEndIs DEF ConnInv, Sockets
  <2> QED BY <2>1, <2>2, <2>3 DEF ConnInv, Sockets
<1>3. ASSUME NEW c \in Conns, BusyStep(c) PROVE Sockets'
  <2>1. /\ CloseLinkEnd(c) /\ cl' = cl /\ backlog' = Tail(backlog)
        /\ c = Head(backlog) /\ backlog # <<>>
        /\ toClient' = [toClient EXCEPT ![c] = IF c \in clientEnd THEN Append(@, Busy) ELSE @]
    BY <1>3 DEF BusyStep
  <2>2. Queued' = Elems(Tail(backlog))
    BY <2>1 DEF Queued, Elems
  <2>3. Queued = {c} \cup Queued' /\ c \notin Queued'
    BY <2>1, <2>2, QueuedAre DEF Ends, ConnInv
  <2>4. \A e \in Conns : e # c => toClient'[e] = toClient[e]
    BY <2>1 DEF TypeInv, SockTypes
  <2>5. c # fd => toClient'[c] = toClient[c]
    BY <2>1 DEF TypeInv, SockTypes, ConnInv, Ends
  <2>6. \A e \in Conns : toLink'[e] # <<>> => toLink[e] # <<>>
    BY <2>1, CloseEndIs
  <2>7. fd \in Queued' => fd \in Conns /\ fd \in Queued /\ fd # c
    BY <2>3, QueuedAre
  <2> QED BY <2>1, <2>4, <2>5, <2>6, <2>7 DEF ConnInv, Sockets
<1>4. ASSUME NEW c \in Conns, ServeStep(c) PROVE Sockets'
  <2>1. /\ UNCHANGED <<toLink, toClient>> /\ cl.fd = 0 /\ backlog' = Tail(backlog)
        /\ backlog # <<>>
    BY <1>4 DEF ServeStep
  <2>2. Queued' = Elems(Tail(backlog))
    BY <2>1 DEF Queued, Elems
  <2>3. fd \in Queued' => fd \in Queued
    BY <2>1, <2>2, QueuedAre
  <2>4. \A e \in Conns : toLink[e] = <<>>
    BY <2>1, ConnsAre DEF ConnInv, Sockets
  <2> QED BY <2>1, <2>3, <2>4 DEF ConnInv, Sockets
<1>5. CASE QuitStep
  <2>1. backlog' = <<>> /\ toLink' = [c \in Conns |-> <<>>] /\ toClient' = toClient
    BY <1>5 DEF QuitStep
  <2>2. Queued' = {}
    BY <2>1 DEF Queued, Elems
  <2> QED BY <2>1, <2>2 DEF ConnInv, Sockets
<1>6. CASE ItemsStep
  BY <1>1, <1>6 DEF ItemsStep, sockVars
<1>7. CASE WriteStep
  <2>1. /\ UNCHANGED <<cl, toLink, backlog>> /\ cl.fd \in clientEnd
        /\ \A c \in Conns : c # cl.fd => toClient'[c] = toClient[c]
    BY <1>7 DEF WriteStep
  <2>2. Queued' = Queued /\ cl.fd = fd /\ fd \notin Queued
    BY <2>1 DEF Queued, Elems, ConnInv, Ends
  <2> QED BY <2>1, <2>2 DEF ConnInv, Sockets
<1>8. ASSUME NEW req, NEW r, RequestStep(req, r) PROVE Sockets'
  <2>1. /\ UNCHANGED <<toClient, backlog>> /\ cl'.fd = cl.fd /\ cl.fd \in Conns
        /\ toLink' = [toLink EXCEPT ![cl.fd] = Tail(@)]
    BY <1>8 DEF RequestStep
  <2>2. Queued' = Queued
    BY <2>1 DEF Queued, Elems
  <2>3. \A e \in Conns : e # cl.fd => toLink'[e] = toLink[e]
    BY <2>1 DEF TypeInv, SockTypes
  <2> QED BY <2>1, <2>2, <2>3 DEF ConnInv, Sockets
<1> QED BY <1>2, <1>3, <1>4, <1>5, <1>6, <1>7, <1>8 DEF LinkDoes

LEMMA LinkWaits ==
    ASSUME Waits, LinkDoes
    PROVE  Waits'
BY LinkLeavesRemote DEF Waits, Late

LEMMA ConnectConn ==
    ASSUME TypeInv, ConnInv, Connect, UNCHANGED linkVars, fd = 0 => up
    PROVE  ConnInv'
<1> DEFINE c == conns + 1
<1>1. /\ fd = 0 /\ fd' = c /\ conns' = c /\ sess' = "opening" /\ backlog' = Append(backlog, c)
      /\ clientEnd' = clientEnd \cup {c} /\ linkEnd' = linkEnd \cup {c}
      /\ haveReply' = FALSE
      /\ UNCHANGED <<toLink, toClient, waiting, timeouts>>
  BY DEF Connect
<1>2. c \in Conns /\ conns \in Nat /\ c = conns + 1
  BY SizesAssumption DEF Connect, TypeInv, RemoteTypes, Conns
<1>3. cl' = cl /\ up' = up
  BY DEF linkVars
<1> HIDE DEF c
<1>4. c \notin linkEnd /\ c \notin Queued /\ cl.fd # c /\ c # 0
  <2>1. \A e \in linkEnd : e <= conns
    BY DEF ConnInv, Ends
  <2>2. c \notin linkEnd /\ c # 0
    BY <1>2, <2>1
  <2> QED BY <2>2 DEF ConnInv, Ends
<1>5. Queued' = Queued \cup {c} /\ Distinct(backlog)'
  <2>1. backlog \in Seq(Conns)
    BY DEF TypeInv, SockTypes
  <2>2. /\ Elems(Append(backlog, c)) = Elems(backlog) \cup {c}
        /\ Distinct(backlog) /\ c \notin Elems(backlog) => Distinct(Append(backlog, c))
    BY <1>2, <2>1, NextElem
  <2>3. Queued' = Elems(backlog') /\ (Distinct(backlog)' <=> Distinct(backlog'))
    BY DEF Queued, Elems, Distinct
  <2> QED BY <1>1, <1>4, <2>2, <2>3 DEF Queued, ConnInv, Ends
<1>6. \A t \in timeouts : t[1] <= conns /\ t[1] \in Conns
  BY DEF ConnInv, Ends, TypeInv, RemoteTypes
<1>7. \A t \in timeouts : t[1] <= c /\ t[1] # c
  <2>1. \A n \in Conns : n <= conns => n <= c /\ n # c
    BY <1>2, ConnsAre
  <2> QED BY <1>6, <2>1
<1>8. \A e \in linkEnd' : e <= c
  <2>1. \A e \in linkEnd : e \in Conns /\ e <= conns
    BY QueuedAre DEF ConnInv, Ends, TypeInv, LinkTypes
  <2>2. \A n \in Conns : n <= conns => n <= c
    BY <1>2, ConnsAre
  <2>3. c <= c
    BY <1>2, ConnsAre
  <2>4. \A e \in linkEnd : e <= c
    BY <2>1, <2>2
  <2> QED BY <1>1, <2>3, <2>4
<1>9. up /\ up'
  BY <1>1, <1>3
<1>10. Ends'
  <2>1. clientEnd' = {c} /\ c # 0
    BY <1>1, <1>4 DEF ConnInv, Ends
  <2>2. linkEnd' = Queued' \cup ({cl.fd} \ {0})
    BY <1>1, <1>5 DEF ConnInv, Ends
  <2>3. cl.fd \notin Queued'
    BY <1>4, <1>5 DEF ConnInv, Ends
  <2> QED BY <1>1, <1>3, <1>5, <1>7, <1>8, <1>9, <2>1, <2>2, <2>3 DEF Ends
<1>11. Sockets'
  <2>1. toClient[c] = <<>> /\ \A e \in Conns : toClient[e] = <<>>
    BY <1>1, <1>2, ConnsAre DEF ConnInv, Sockets
  <2> QED BY <1>1, <1>3, <2>1 DEF ConnInv, Sockets
<1>12. Waits'
  <2>1. waiting = None
    BY <1>1 DEF ConnInv, Waits
  <2>2. ~Late'
    BY <1>1, <1>7 DEF Late
  <2> QED BY <1>1, <1>4, <2>1, <2>2 DEF Waits, None, Ask
<1> QED BY <1>10, <1>11, <1>12 DEF ConnInv

LEMMA CloseConn ==
    ASSUME TypeInv, ConnInv, CloseRemote, UNCHANGED <<linkVars, timeouts>>
    PROVE  ConnInv'
<1>1. /\ fd' = 0 /\ sess' = "closed" /\ waiting' = None /\ haveReply' = FALSE
      /\ clientEnd' = clientEnd \ {fd} /\ toClient' = [toClient EXCEPT ![fd] = <<>>]
      /\ UNCHANGED <<toLink, linkEnd, backlog, conns, cl, up, timeouts>>
  BY DEF CloseRemote, linkVars
<1>2. Queued' = Queued /\ (Distinct(backlog)' <=> Distinct(backlog))
  BY <1>1 DEF Queued, Elems, Distinct
<1>3. Ends'
  BY <1>1, <1>2 DEF ConnInv, Ends
<1>4. Sockets'
  <2>1. \A e \in Conns : toClient'[e] = <<>>
    BY <1>1 DEF ConnInv, Sockets, TypeInv, SockTypes
  <2>2. 0 \notin Queued'
    BY <1>2, QueuedAre
  <2> QED BY <1>1, <2>1, <2>2 DEF ConnInv, Sockets
<1>5. Waits'
  BY <1>1 DEF Waits, None, Ask
<1> QED BY <1>3, <1>4, <1>5 DEF ConnInv

\* The rest of the steps leave the connections as they are.
LEMMA SameEnds ==
    ASSUME Ends, UNCHANGED <<linkVars, fd, conns, clientEnd, linkEnd, backlog>>,
           \A t \in timeouts' : t[1] <= conns
    PROVE  Ends' /\ Queued' = Queued
<1>1. cl' = cl /\ up' = up
  BY DEF linkVars
<1>2. Queued' = Queued /\ (Distinct(backlog)' <=> Distinct(backlog))
  BY DEF Queued, Elems, Distinct
<1> QED BY <1>1, <1>2 DEF Ends

LEMMA WelcomeConn ==
    ASSUME TypeInv, ConnInv, Welcomed, reply.type = "WELCOME", UNCHANGED linkVars
    PROVE  ConnInv'
<1>1. /\ sess = "opening" /\ haveReply /\ haveReply' = FALSE /\ sess' = "greeted"
      /\ UNCHANGED <<fd, conns, waiting, sockVars, timeouts>>
  BY DEF Welcomed
<1>2. UNCHANGED <<toLink, toClient, clientEnd, linkEnd, backlog>> /\ cl' = cl
  BY <1>1 DEF sockVars, linkVars
<1>3. Ends' /\ Queued' = Queued
  BY <1>1, <1>2, SameEnds DEF ConnInv, Ends
<1>4. fd \notin Queued
  BY <1>1 DEF ConnInv, Sockets
<1>5. Sockets'
  BY <1>1, <1>2, <1>3, <1>4 DEF ConnInv, Sockets
<1>6. Waits'
  BY <1>1 DEF ConnInv, Waits, Late
<1> QED BY <1>3, <1>5, <1>6 DEF ConnInv

LEMMA SendConn ==
    ASSUME TypeInv, ConnInv, Send, UNCHANGED linkVars
    PROVE  ConnInv' /\ fd \in Conns /\ (fd \in linkEnd => cl.fd = fd)
<1>1. /\ lastId' \in Nat /\ waiting' \in NextRequests(lastId') /\ fd \in Conns
      /\ toLink' = [toLink EXCEPT ![fd] = IF fd \in linkEnd THEN Append(toLink[fd], waiting')
                                          ELSE toLink[fd]]
      /\ UNCHANGED <<toClient, clientEnd, linkEnd, backlog, fd, conns, sess, timeouts>>
      /\ haveReply' = FALSE
  BY SendIs
<1>2. /\ \/ waiting'.type = "ATTACH" /\ sess = "greeted"
         \/ waiting'.type = "HELLO" /\ sess \in {"greeted", "open"}
         \/ waiting'.type = "CONFIG" /\ sess = "ready"
         \/ waiting'.type = "CONFIG" /\ sess = "set"
         \/ waiting'.type = "STOP" /\ sess = "running"
  BY <1>1, NextRequestsAre
<1>3. fd \notin Queued
  BY <1>2 DEF ConnInv, Sockets
<1>4. fd \in linkEnd => cl.fd = fd
  BY <1>3 DEF ConnInv, Ends
<1>5. cl' = cl
  BY DEF linkVars
<1>6. Ends' /\ Queued' = Queued
  BY <1>1, SameEnds DEF ConnInv, Ends
<1>7. Sockets'
  <2>1. \A c \in Conns : c # fd => toLink'[c] = toLink[c]
    BY <1>1 DEF TypeInv, SockTypes
  <2>2. fd \notin linkEnd => toLink'[fd] = toLink[fd]
    BY <1>1 DEF TypeInv, SockTypes
  <2> QED BY <1>1, <1>3, <1>4, <1>5, <1>6, <2>1, <2>2 DEF ConnInv, Sockets
<1>8. Waits'
  BY <1>1, <1>2, ConnsAre DEF ConnInv, Waits, Late
<1> QED BY <1>1, <1>4, <1>6, <1>7, <1>8 DEF ConnInv

LEMMA ReceiveConn ==
    ASSUME TypeInv, ConnInv, ReceiveStep, UNCHANGED linkVars
    PROVE  ConnInv'
<1>1. /\ fd \in Conns
      /\ UNCHANGED <<toLink, clientEnd, linkEnd, backlog, fd, conns, sess, waiting, timeouts>>
      /\ \E b \in Seq(Messages) : toClient' = [toClient EXCEPT ![fd] = b]
  BY ReceiveIs
<1>2. toClient[fd] # <<>>
  <2>1. 1 .. Len(toClient[fd]) # {}
    BY DEF ReceiveStep, Receive
  <2> QED BY <2>1
<1>3. fd \notin Queued
  BY <1>2 DEF ConnInv, Sockets
<1>4. Ends' /\ Queued' = Queued
  BY <1>1, SameEnds DEF ConnInv, Ends
<1>5. Sockets'
  <2>1. \A c \in Conns : c # fd => toClient'[c] = toClient[c]
    BY <1>1 DEF TypeInv, SockTypes
  <2>2. cl' = cl
    BY DEF linkVars
  <2> QED BY <1>1, <1>3, <1>4, <2>1, <2>2 DEF ConnInv, Sockets
<1>6. Waits'
  BY <1>1, ConnsAre DEF ConnInv, Waits, Late
<1> QED BY <1>4, <1>5, <1>6 DEF ConnInv

\* A session that waits is past its opening.
LEMMA WaitingIs ==
    ASSUME TypeInv, ConnInv, waiting # None
    PROVE  /\ waiting \in RequestType /\ fd \in Conns /\ fd \notin Queued
           /\ \/ waiting.type = "ATTACH" /\ sess = "greeted"
              \/ waiting.type = "HELLO" /\ sess \in {"greeted", "open"}
              \/ waiting.type = "CONFIG" /\ sess \in {"ready", "set"}
              \/ waiting.type = "STOP" /\ sess = "running"
<1>1. waiting \in RequestType /\ fd \in Conns
  BY DEF TypeInv, RemoteTypes, ConnInv, Waits
<1>2. waiting.type \in RequestTypes
  BY <1>1, RequestsAre
<1>3. \/ waiting.type = "ATTACH" /\ sess = "greeted"
      \/ waiting.type = "HELLO" /\ sess \in {"greeted", "open"}
      \/ waiting.type = "CONFIG" /\ sess \in {"ready", "set"}
      \/ waiting.type = "STOP" /\ sess = "running"
  BY <1>2 DEF ConnInv, Waits, RequestTypes
<1>4. fd \notin Queued
  BY <1>3 DEF ConnInv, Sockets
<1> QED BY <1>1, <1>3, <1>4

LEMMA DoneConn ==
    ASSUME TypeInv, ConnInv, waiting # None, waiting' = None,
           UNCHANGED <<linkVars, sockVars, fd, conns>>,
           \A t \in timeouts' : t[1] <= conns,
           sess' \in {"open", "ready", "set", "running", "over"}
    PROVE  ConnInv'
<1>1. UNCHANGED <<toLink, toClient, clientEnd, linkEnd, backlog>> /\ cl' = cl
  BY DEF sockVars, linkVars
<1>2. Ends' /\ Queued' = Queued
  BY <1>1, SameEnds DEF ConnInv
<1>3. fd \notin Queued /\ fd # 0
  BY WaitingIs, ConnsAre
<1>4. Sockets'
  BY <1>1, <1>2, <1>3 DEF ConnInv, Sockets
<1>5. Waits'
  BY <1>3 DEF Waits, None, Ask
<1> QED BY <1>2, <1>4, <1>5 DEF ConnInv

LEMMA ReturnConn ==
    ASSUME TypeInv, ConnInv, Return, UNCHANGED linkVars
    PROVE  ConnInv'
<1>1. /\ waiting # None /\ waiting' = None /\ sess' = SessionAfter
      /\ UNCHANGED <<sockVars, fd, conns, timeouts>>
  BY DEF Return
<1>2. sess' \in {"open", "ready", "set", "running", "over"}
  BY <1>1, WaitingIs DEF SessionAfter, Failed
<1> QED BY <1>1, <1>2, DoneConn DEF ConnInv, Ends

LEMMA TimeoutConn ==
    ASSUME TypeInv, ConnInv, Timeout, UNCHANGED linkVars
    PROVE  ConnInv' /\ Late'
<1>1. /\ waiting # None /\ waiting' = None /\ sess' = Failed(waiting)
      /\ timeouts' = timeouts \cup {<<fd, waiting.n>>}
      /\ UNCHANGED <<sockVars, fd, conns>>
  BY DEF Timeout
<1>2. sess' \in {"open", "ready", "set", "running", "over"}
  BY <1>1, WaitingIs DEF Failed
<1>3. fd <= conns
  <2>1. fd \in Conns
    BY <1>1, WaitingIs
  <2>2. fd = conns
    BY <2>1, ConnsAre DEF ConnInv, Ends
  <2> QED BY <2>1, <2>2, ConnsAre
<1>4. \A t \in timeouts' : t[1] <= conns
  BY <1>1, <1>3 DEF ConnInv, Ends
<1>5. Late'
  <2> DEFINE t == <<fd, waiting.n>>
  <2>1. t \in timeouts' /\ t[1] = fd'
    BY <1>1
  <2> QED BY <2>1 DEF Late
<1>6. ConnInv'
  BY <1>1, <1>2, <1>4, DoneConn
<1> QED BY <1>5, <1>6

LEMMA ReadConn ==
    ASSUME TypeInv, ConnInv, Read, UNCHANGED linkVars
    PROVE  ConnInv'
<1>1. UNCHANGED <<fd, conns, sess, waiting, haveReply, timeouts, toLink, toClient, clientEnd,
                  linkEnd, backlog>> /\ cl' = cl
  BY DEF Read, sockVars, linkVars
<1>2. Ends' /\ Queued' = Queued
  BY <1>1, SameEnds DEF ConnInv, Ends
<1>3. Sockets'
  BY <1>1, <1>2 DEF ConnInv, Sockets
<1>4. Waits'
  BY <1>1 DEF ConnInv, Waits, Late
<1> QED BY <1>2, <1>3, <1>4 DEF ConnInv

\* The session ends, or its link has welcomed it.
CloseStep == CloseRemote /\ UNCHANGED timeouts
WelcomeStep == Welcomed /\ reply.type = "WELCOME"

RemoteDoes ==
    \/ Connect
    \/ WelcomeStep
    \/ Send
    \/ ReceiveStep
    \/ Return
    \/ Timeout
    \/ Read
    \/ CloseStep

LEMMA RemoteStepsDo == RemoteNext => RemoteDoes
BY DEF RemoteNext, RemoteDoes, WelcomeStep, CloseStep, Welcomed, Close

\* The steps as what they do.
LEMMA StepsDo ==
    ASSUME TypeInv, [Next]_vars
    PROVE  \/ LinkDoes
           \/ RemoteDoes /\ UNCHANGED linkVars /\ (fd = 0 => up)
           \/ UNCHANGED vars
<1>1. CASE LinkNext /\ UNCHANGED <<remoteVars, expect>>
  BY <1>1, LinkStepsDo
<1> QED BY <1>1, StepsAre, RemoteStepsDo

LEMMA ConnInit == SystemInit => ConnInv
<1> SUFFICES ASSUME SystemInit PROVE ConnInv
  OBVIOUS
<1>1. backlog = <<>> /\ linkEnd = {} /\ clientEnd = {} /\ toLink = [c \in Conns |-> <<>>]
      /\ toClient = [c \in Conns |-> <<>>]
  BY DEF SystemInit, SockInit
<1>2. cl.fd = 0 /\ up = TRUE
  BY NoClientIs DEF SystemInit, LinkInit
<1>3. fd = 0 /\ conns = 0 /\ sess = "closed" /\ waiting = None /\ haveReply = FALSE /\ timeouts = {}
  BY DEF SystemInit, RemoteInit
<1>4. Queued = {} /\ Distinct(backlog)
  BY <1>1 DEF Queued, Elems, Distinct
<1>5. Ends
  BY <1>1, <1>2, <1>3, <1>4 DEF Ends
<1>6. Sockets
  BY <1>1, <1>4 DEF Sockets
<1>7. Waits
  BY <1>3 DEF Waits, None, Ask
<1> QED BY <1>5, <1>6, <1>7 DEF ConnInv

LEMMA ConnStep == TypeInv /\ ConnInv /\ [Next]_vars => ConnInv'
<1> SUFFICES ASSUME TypeInv, ConnInv, [Next]_vars PROVE ConnInv'
  OBVIOUS
<1>1. CASE LinkDoes
  BY <1>1, LinkEnds, LinkSockets, LinkWaits DEF ConnInv
<1>2. CASE RemoteDoes /\ UNCHANGED linkVars /\ (fd = 0 => up)
  <2>1. CASE CloseStep
    BY <1>2, <2>1, CloseConn DEF CloseStep
  <2>2. CASE WelcomeStep
    BY <1>2, <2>2, WelcomeConn DEF WelcomeStep
  <2>3. CASE Connect \/ Send \/ ReceiveStep
    BY <1>2, <2>3, ConnectConn, SendConn, ReceiveConn
  <2>4. CASE Return \/ Timeout \/ Read
    BY <1>2, <2>4, ReturnConn, TimeoutConn, ReadConn
  <2> QED BY <1>2, <2>1, <2>2, <2>3, <2>4 DEF RemoteDoes
<1>3. CASE UNCHANGED vars
  <2>1. UNCHANGED <<backlog, linkEnd, clientEnd, toLink, toClient, cl, up, fd, conns, sess,
                    waiting, haveReply, timeouts>>
    BY <1>3 DEF vars, sockVars, linkVars, remoteVars
  <2> QED BY <2>1 DEF ConnInv, Ends, Sockets, Waits, Queued, Elems, Distinct, Late
<1> QED BY <1>1, <1>2, <1>3, StepsDo

-----------------------------------------------------------------------------
(* What a step says to the client. *)

Quiet == NoNews /\ (fd # 0 => toLink'[fd] \in {toLink[fd], <<>>})

Greets ==
    /\ fd # 0 /\ sess = "opening"
    /\ Single' /\ toLink'[fd] = <<>>
    /\ \A m : Said(m)' => m.type \in {"WELCOME", "BUSY"}

\* Nothing is on its way, or one message.
LEMMA NothingComes ==
    /\ Lone(<<>>) /\ \A m : ~Brings(<<>>, m)
    /\ \A r \in Messages : r \notin Items => /\ Lone(<<r>>)
                                             /\ \A m : Brings(<<r>>, m) <=> m = r
<1>1. Lone(<<>>) /\ \A m : ~Brings(<<>>, m)
  BY DEF Lone, Brings
<1> QED BY <1>1, OneBrings

LEMMA ItemsSay ==
    ASSUME ItemsStep
    PROVE  Quiet
BY DEF ItemsStep, Quiet, sockVars

LEMMA WriteSays ==
    ASSUME WriteStep
    PROVE  Quiet
BY DEF WriteStep, Quiet

LEMMA DropSays ==
    ASSUME TypeInv, ConnInv, DropStep
    PROVE  Quiet
<1>1. UNCHANGED <<toClient, fd, haveReply, reply>> /\ cl.fd # 0 /\ cl'.fd = 0
      /\ CloseLinkEnd(cl.fd)
  BY DEF DropStep, remoteVars
<1>2. fd # 0 => cl.fd # fd
  BY DEF DropStep, ConnInv, Ends
<1>3. Coming' = Coming
  BY <1>1, <1>2 DEF Coming
<1>4. NoNews
  BY <1>1, <1>3, SameNews
<1>5. fd # 0 => toLink'[fd] = toLink[fd]
  <2>1. cl.fd \in Conns
    BY <1>1 DEF TypeInv, LinkTypes
  <2>2. fd # 0 => fd \in Conns
    BY DEF TypeInv, RemoteTypes
  <2> QED BY <1>1, <1>2, <2>1, <2>2, CloseEndIs
<1> QED BY <1>4, <1>5 DEF Quiet

LEMMA BusySays ==
    ASSUME TypeInv, ConnInv, NEW c \in Conns, BusyStep(c)
    PROVE  IF c = fd THEN Greets ELSE Quiet
<1>1. /\ UNCHANGED <<cl, out, fd, haveReply, reply>> /\ CloseLinkEnd(c)
      /\ toClient' = [toClient EXCEPT ![c] = IF c \in clientEnd THEN Append(@, Busy) ELSE @]
      /\ c = Head(backlog) /\ backlog # <<>>
  BY DEF BusyStep, remoteVars
<1>2. c \in Queued
  BY <1>1, QueuedAre
<1>3. CASE c # fd
  <2>1. fd # 0 => fd \in Conns
    BY DEF TypeInv, RemoteTypes
  <2>2. fd # 0 => toClient'[fd] = toClient[fd] /\ toLink'[fd] = toLink[fd]
    BY <1>1, <1>3, <2>1, CloseEndIs DEF TypeInv, SockTypes
  <2>3. Coming' = Coming
    BY <1>1, <2>2 DEF Coming
  <2> QED BY <1>1, <1>3, <2>2, <2>3, SameNews DEF Quiet
<1>4. CASE c = fd
  <2>1. sess = "opening" /\ toClient[fd] = <<>> /\ haveReply = FALSE /\ fd # 0 /\ cl.fd # fd
        /\ fd \in clientEnd
    BY <1>2, <1>4, ConnsAre DEF ConnInv, Sockets, Ends
  <2>2. toClient'[fd] = Append(<<>>, Busy)
    BY <1>1, <1>4, <2>1 DEF TypeInv, SockTypes
  <2>3. Coming' = <<Busy>>
    BY <1>1, <2>1, <2>2 DEF Coming
  <2>4. Busy \in Messages /\ Busy \notin Items /\ Busy.type = "BUSY"
    BY GreetingsAre DEF TypeInv, LinkTypes, Busy
  <2>5. Lone(Coming)' /\ \A m : Brings(Coming, m)' <=> m = Busy
    BY <2>3, <2>4, NothingComes DEF Lone, Brings
  <2>6. Single' /\ \A m : Said(m)' => m.type = "BUSY"
    BY <1>1, <2>1, <2>4, <2>5 DEF Single, Said
  <2>7. toLink'[fd] = <<>>
    BY <1>1, <1>4, CloseEndIs
  <2> QED BY <1>4, <2>1, <2>6, <2>7 DEF Greets
<1> QED BY <1>3, <1>4

LEMMA ServeSays ==
    ASSUME TypeInv, ConnInv, NEW c \in Conns, ServeStep(c)
    PROVE  IF c = fd THEN Greets ELSE Quiet
<1>1. /\ UNCHANGED <<toLink, toClient, fd, haveReply, reply>> /\ cl.fd = 0 /\ cl'.fd = c
      /\ out' = <<Welcome>> /\ c = Head(backlog) /\ backlog # <<>>
  BY DEF ServeStep, remoteVars
<1>2. c \in Queued
  BY <1>1, QueuedAre
<1>3. CASE c # fd
  <2>1. Coming' = Coming
    BY <1>1, <1>3 DEF Coming
  <2> QED BY <1>1, <1>3, <2>1, SameNews DEF Quiet
<1>4. CASE c = fd
  <2>1. sess = "opening" /\ toClient[fd] = <<>> /\ haveReply = FALSE /\ fd # 0
    BY <1>2, <1>4, ConnsAre DEF ConnInv, Sockets
  <2>2. Coming' = <<>> \o <<Welcome>>
    BY <1>1, <1>4, <2>1 DEF Coming
  <2>3. Welcome \in Messages /\ Welcome \notin Items /\ Welcome.type = "WELCOME"
    BY GreetingsAre DEF TypeInv, LinkTypes, Welcome
  <2> DEFINE w == Welcome
  <2>4. Coming' = <<w>> /\ w \in Messages /\ w \notin Items /\ w.type = "WELCOME"
    BY <2>2, <2>3
  <2> HIDE DEF w
  <2>5. Lone(Coming)' /\ \A m : Brings(Coming, m)' <=> m = w
    BY <2>4, NothingComes DEF Lone, Brings
  <2>6. Single' /\ \A m : Said(m)' => m.type = "WELCOME"
    BY <1>1, <2>1, <2>4, <2>5 DEF Single, Said
  <2>7. toLink'[fd] = <<>>
    BY <1>1, <1>4, <2>1 DEF ConnInv, Sockets
  <2> QED BY <1>4, <2>1, <2>6, <2>7 DEF Greets
<1> QED BY <1>3, <1>4

LEMMA QuitSays ==
    ASSUME TypeInv, ConnInv, QuitStep
    PROVE  Quiet
<1>1. UNCHANGED <<toClient, fd, haveReply, reply>> /\ cl'.fd = 0
      /\ toLink' = [c \in Conns |-> <<>>]
  BY DEF QuitStep, remoteVars
<1>2. fd # 0 => fd \in Conns /\ toLink'[fd] = <<>>
  BY <1>1 DEF TypeInv, RemoteTypes
<1>3. CASE fd # 0 /\ cl.fd = fd
  <2> DEFINE t == toClient[fd]
  <2>1. t \in Seq(Messages) /\ out \in Seq(Messages)
    BY <1>3, ComingIs
  <2>2. Coming = t \o out /\ Coming' = t \o <<>>
    BY <1>1, <1>3 DEF Coming
  <2> HIDE DEF t
  <2>3. t \o <<>> = t
    BY <2>1
  <2>4. \A m : Brings(Coming, m)' => Brings(Coming, m)
    <3>1. \A m : Brings(t \o out, m) <=> Brings(t, m) \/ Brings(out, m)
      BY <2>1, ConcatBrings
    <3>2. \A m : Brings(Coming', m) => Brings(Coming, m)
      BY <2>2, <2>3, <3>1
    <3> QED BY <3>2 DEF Brings
  <2>5. Lone(Coming) => Lone(Coming)'
    <3>1. Lone(t \o out) => Lone(t)
      BY <2>1, ConcatLone
    <3>2. Lone(Coming) => Lone(Coming')
      BY <2>2, <2>3, <3>1
    <3> QED BY <3>2 DEF Lone
  <2>6. \A m : Said(m)' => Said(m)
    BY <1>1, <2>4 DEF Said
  <2>7. Single => Single'
    BY <1>1, <2>4, <2>5 DEF Single
  <2> QED BY <1>2, <2>6, <2>7 DEF NoNews, Quiet
<1>4. CASE ~(fd # 0 /\ cl.fd = fd)
  <2>1. Coming' = Coming
    BY <1>1, <1>4 DEF Coming
  <2> QED BY <1>1, <1>2, <2>1, SameNews DEF Quiet
<1> QED BY <1>3, <1>4

LEMMA RequestSays ==
    ASSUME TypeInv, ConnInv, NEW req \in RequestType, NEW r \in ReplyType, RequestStep(req, r)
    PROVE  IF fd # 0 /\ cl.fd = fd THEN News(r) ELSE Quiet
<1>1. /\ UNCHANGED <<toClient, remoteVars>> /\ cl'.fd = cl.fd /\ out' = Append(out, r)
      /\ toLink' = [toLink EXCEPT ![cl.fd] = Tail(@)]
  BY DEF RequestStep
<1>2. r \in Messages /\ r \notin Items
  <2>1. r \in Answering
    BY DEF Answering
  <2>2. ~IsItem(r)
    BY <2>1, AnsweringAre
  <2> QED BY <2>1, <2>2, ItemsAre DEF Messages
<1>3. IF fd # 0 /\ cl.fd = fd THEN News(r) ELSE NoNews
  BY <1>1, <1>2, AnswerNews
<1>4. ASSUME fd # 0, cl.fd # fd PROVE toLink'[fd] = toLink[fd]
  BY <1>1, <1>4 DEF TypeInv, SockTypes, RemoteTypes
<1> QED BY <1>3, <1>4 DEF Quiet

Silent == Single' /\ \A m : ~Said(m)'

\* The one reply is taken note of.
LEMMA LastTaken ==
    ASSUME Single, haveReply, Coming' = Coming, haveReply' = FALSE
    PROVE  Silent
<1>1. \A m : ~Brings(Coming, m)
  BY DEF Single
<1> QED BY <1>1, TakenNews DEF Silent, Single

LEMMA ConnectSays ==
    ASSUME TypeInv, ConnInv, Connect, UNCHANGED linkVars
    PROVE  Silent /\ fd' # 0 /\ toLink'[fd'] = <<>> /\ ~Late' /\ waiting' = None
           /\ cl'.fd # fd' /\ sess' = "opening" /\ fd = 0 /\ UNCHANGED <<toLink, timeouts, setup>>
<1>1. /\ fd = 0 /\ fd' = conns + 1 /\ haveReply' = FALSE /\ sess' = "opening"
      /\ UNCHANGED <<toLink, toClient, waiting, timeouts, setup>>
  BY DEF Connect
<1>2. fd' \in Conns /\ conns \in Nat
  BY <1>1, SizesAssumption DEF Connect, TypeInv, RemoteTypes, Conns
<1>3. cl' = cl
  BY DEF linkVars
<1>4. cl.fd # fd'
  <2>1. cl.fd = 0 \/ cl.fd <= conns
    BY DEF ConnInv, Ends
  <2>2. ~(fd' <= conns) /\ fd' # 0
    BY <1>1, <1>2
  <2> QED BY <2>1, <2>2
<1>5. toClient[fd'] = <<>> /\ toLink[fd'] = <<>>
  BY <1>1, <1>2, <1>4, ConnsAre DEF ConnInv, Sockets
<1>6. Coming' = <<>>
  <2>1. fd' # 0 /\ toClient'[fd'] = <<>> /\ cl'.fd # fd'
    BY <1>1, <1>2, <1>3, <1>4, <1>5, ConnsAre
  <2>2. Coming' = <<>> \o <<>>
    BY <2>1 DEF Coming
  <2> QED BY <2>2
<1>7. Silent
  BY <1>1, <1>6, NothingComes DEF Silent, Single, Said, Lone, Brings
<1>8. ~Late' /\ waiting' = None
  <2>1. \A t \in timeouts : t[1] <= conns
    BY DEF ConnInv, Ends
  <2>2. ~(fd' <= conns)
    BY <1>1, <1>2
  <2>3. ~Late'
    BY <1>1, <2>1, <2>2 DEF Late
  <2> QED BY <1>1, <2>3 DEF ConnInv, Waits
<1> QED BY <1>1, <1>2, <1>3, <1>4, <1>5, <1>7, <1>8, ConnsAre

LEMMA CloseSays ==
    ASSUME CloseStep
    PROVE  Silent /\ fd' = 0 /\ waiting' = None
<1>1. fd' = 0 /\ haveReply' = FALSE /\ waiting' = None
  BY DEF CloseStep, CloseRemote
<1>2. Coming' = <<>>
  BY <1>1 DEF Coming
<1> QED BY <1>1, <1>2, NothingComes DEF Silent, Single, Said, Lone, Brings

LEMMA SendSays ==
    ASSUME TypeInv, Send, UNCHANGED linkVars
    PROVE  NoNews
<1>1. UNCHANGED <<toClient, fd, cl, out>> /\ haveReply' = FALSE
  BY DEF Send, linkVars
<1>2. Coming' = Coming
  BY <1>1 DEF Coming
<1> QED BY <1>1, <1>2, TakenNews

LEMMA TimeoutSays ==
    ASSUME Timeout \/ Read, UNCHANGED linkVars
    PROVE  NoNews
<1>1. UNCHANGED <<toClient, fd, cl, out, haveReply, reply>>
  BY DEF Timeout, Read, linkVars, sockVars
<1>2. Coming' = Coming
  BY <1>1 DEF Coming
<1> QED BY <1>1, <1>2, SameNews

LEMMA ReturnSays ==
    ASSUME Return \/ WelcomeStep, UNCHANGED linkVars
    PROVE  NoNews /\ (Single => Silent)
<1>1. UNCHANGED <<toClient, fd, cl, out, toLink, timeouts>> /\ haveReply /\ haveReply' = FALSE
  BY DEF Return, Welcomed, WelcomeStep, linkVars, sockVars
<1>2. Coming' = Coming
  BY <1>1 DEF Coming
<1> QED BY <1>1, <1>2, LastTaken, TakenNews

-----------------------------------------------------------------------------
(* On a connection no request of which was given up at most one answer is under way, to *)
(* the request that waits. *)

\* What the session expects to be said.
Due(m) ==
    IF sess = "opening" THEN m.type \in {"WELCOME", "BUSY"}
    ELSE m.type = "REPLY" /\ waiting # None /\ m.of = waiting.type /\ m.for = waiting.n

OneAnswer ==
    (fd # 0 /\ ~Late) =>
        /\ Single
        /\ \A m : Said(m) => Due(m) /\ toLink[fd] = <<>>
        /\ toLink[fd] # <<>> => waiting # None /\ toLink[fd] = <<waiting>>

LEMMA AnswerInit == SystemInit => OneAnswer
BY DEF SystemInit, RemoteInit, OneAnswer

LEMMA LinkAnswers ==
    ASSUME TypeInv, ConnInv, OneAnswer, LinkDoes
    PROVE  OneAnswer'
<1>1. UNCHANGED <<fd, sess, waiting, timeouts>>
  BY LinkLeavesRemote
<1>2. SUFFICES ASSUME fd # 0, ~Late PROVE OneAnswer'
  BY <1>1 DEF OneAnswer, Late
<1>3. Late' = Late /\ \A m : Due(m)' <=> Due(m)
  BY <1>1 DEF Late, Due
<1>4. ASSUME Quiet PROVE OneAnswer'
  BY <1>1, <1>2, <1>3, <1>4 DEF Quiet, NoNews, OneAnswer
<1>5. ASSUME Greets PROVE OneAnswer'
  BY <1>1, <1>2, <1>3, <1>5 DEF Greets, OneAnswer, Due
<1>6. ASSUME NEW req \in RequestType, NEW r \in ReplyType, RequestStep(req, r) PROVE OneAnswer'
  <2>1. CASE cl.fd # fd
    BY <1>2, <1>4, <1>6, <2>1, RequestSays
  <2>2. CASE cl.fd = fd
    <3>1. /\ toLink[fd] # <<>> /\ req = Head(toLink[fd]) /\ r.of = req.type /\ r.for = req.n
          /\ toLink' = [toLink EXCEPT ![fd] = Tail(@)] /\ fd \in Conns
      BY <1>6, <2>2 DEF RequestStep
    <3>2. waiting # None /\ toLink[fd] = <<waiting>> /\ (\A m : ~Said(m))
      BY <1>2, <3>1 DEF OneAnswer
    <3>3. req = waiting /\ toLink'[fd] = <<>>
      BY <3>1, <3>2 DEF TypeInv, SockTypes
    <3>4. Single' /\ \A m : Said(m)' => m = r
      BY <1>2, <1>6, <2>2, <3>2, RequestSays DEF News
    <3>5. r.type = "REPLY" /\ sess # "opening"
      BY <3>2, ReplyParts, WaitingIs
    <3>6. Due(r)
      BY <3>1, <3>2, <3>3, <3>5 DEF Due
    <3> QED BY <1>1, <1>3, <3>3, <3>4, <3>6 DEF OneAnswer
  <2> QED BY <2>1, <2>2
<1> QED BY <1>4, <1>5, <1>6, ItemsSay, WriteSays, DropSays, BusySays, ServeSays, QuitSays
        DEF LinkDoes

LEMMA RemoteAnswers ==
    ASSUME TypeInv, ConnInv, OneAnswer, RemoteDoes, UNCHANGED linkVars
    PROVE  OneAnswer'
<1>1. CASE Connect
  BY <1>1, ConnectSays DEF OneAnswer, Silent
<1>2. CASE CloseStep
  BY <1>2, CloseSays DEF OneAnswer
<1>3. CASE WelcomeStep
  <2>1. UNCHANGED <<fd, toLink, timeouts>> /\ sess = "opening"
    BY <1>3 DEF WelcomeStep, Welcomed, sockVars
  <2>2. waiting = None
    BY <2>1, WaitingIs
  <2>3. NoNews /\ (Single => Silent)
    BY <1>3, ReturnSays
  <2> QED BY <2>1, <2>2, <2>3 DEF OneAnswer, Late, Silent
<1>4. CASE Send
  <2>1. /\ waiting = None /\ waiting' \in RequestType /\ fd \in Conns
        /\ toLink' = [toLink EXCEPT ![fd] = IF fd \in linkEnd THEN Append(toLink[fd], waiting')
                                            ELSE toLink[fd]]
        /\ UNCHANGED <<fd, sess, timeouts>>
        /\ waiting' \in NextRequests(lastId') /\ lastId' \in Nat
    BY <1>4, SendIs
  <2>2. sess # "opening" /\ waiting' # None
    BY <2>1, NextRequestsAre, RequestsAre
  <2>3. SUFFICES ASSUME fd # 0, ~Late PROVE OneAnswer'
    BY <2>1 DEF OneAnswer, Late
  <2>4. toLink[fd] = <<>> /\ Single /\ \A m : ~Said(m)
    BY <2>1, <2>2, <2>3 DEF OneAnswer, Due
  <2>5. Single' /\ \A m : ~Said(m)'
    BY <1>4, <2>4, SendSays DEF NoNews
  <2>6. toLink'[fd] \in {<<>>, <<waiting'>>}
    BY <2>1, <2>4 DEF TypeInv, SockTypes
  <2> QED BY <2>1, <2>2, <2>5, <2>6 DEF OneAnswer
<1>5. CASE ReceiveStep
  <2>1. UNCHANGED <<fd, toLink, timeouts, waiting, sess>>
    BY <1>5, ReceiveIs
  <2>2. NoNews
    BY <1>5, ReceiveNews
  <2> QED BY <2>1, <2>2 DEF OneAnswer, NoNews, Due, Late
<1>6. CASE Return
  <2>1. UNCHANGED <<fd, toLink, timeouts>> /\ haveReply
    BY <1>6 DEF Return, sockVars
  <2>2. Said(reply)
    BY <2>1 DEF Said
  <2>3. NoNews /\ (Single => Silent)
    BY <1>6, ReturnSays
  <2> QED BY <2>1, <2>2, <2>3 DEF OneAnswer, Late, Silent
<1>7. CASE Timeout
  <2>1. Late'
    BY <1>7, TimeoutConn
  <2> QED BY <2>1 DEF OneAnswer
<1>8. CASE Read
  <2>1. UNCHANGED <<fd, toLink, timeouts, waiting, sess>>
    BY <1>8 DEF Read, sockVars
  <2>2. NoNews
    BY <1>8, TimeoutSays
  <2> QED BY <2>1, <2>2 DEF OneAnswer, NoNews, Due, Late
<1> QED BY <1>1, <1>2, <1>3, <1>4, <1>5, <1>6, <1>7, <1>8 DEF RemoteDoes

\* A step that changes nothing says nothing.
LEMMA StutterSays ==
    ASSUME UNCHANGED vars
    PROVE  /\ UNCHANGED <<fd, conns, sess, waiting, haveReply, reply, timeouts, setup, toLink, cl,
                          running, log, dev>>
           /\ \A m : Said(m)' <=> Said(m)
           /\ Single' <=> Single
<1>1. UNCHANGED <<fd, conns, sess, waiting, haveReply, reply, timeouts, setup, toLink, toClient,
                  cl, out, running, log, dev>>
  BY DEF vars, sockVars, linkVars, captureVars, remoteVars
<1>2. Coming' = Coming
  BY <1>1 DEF Coming
<1> QED BY <1>1, <1>2 DEF Said, Single, Brings, Lone

LEMMA AnswerStep == TypeInv /\ ConnInv /\ OneAnswer /\ [Next]_vars => OneAnswer'
<1> SUFFICES ASSUME TypeInv, ConnInv, OneAnswer, [Next]_vars PROVE OneAnswer'
  OBVIOUS
<1>1. CASE UNCHANGED vars
  <2>1. /\ UNCHANGED <<fd, sess, waiting, timeouts, toLink>>
        /\ \A m : Said(m)' <=> Said(m)
        /\ Single' <=> Single
    BY <1>1, StutterSays
  <2> QED BY <2>1 DEF OneAnswer, Due, Late
<1> QED BY <1>1, StepsDo, LinkAnswers, RemoteAnswers

LEMMA AnswerHolds == Spec => [](TypeInv /\ ConnInv /\ OneAnswer)
<1>1. SystemInit => TypeInv /\ ConnInv /\ OneAnswer
  BY TypeInit, ConnInit, AnswerInit
<1>2. TypeInv /\ ConnInv /\ OneAnswer /\ [Next]_vars => (TypeInv /\ ConnInv /\ OneAnswer)'
  BY TypeStep, ConnStep, AnswerStep
<1> QED BY <1>1, <1>2, PTL DEF Spec

\* What a request takes for its answer is the answer to it, on a connection no request of
\* which was given up before (remote.c request()).
THEOREM RepliesAnswer == Spec => []ReplyAnswers
<1>1. TypeInv /\ ConnInv /\ OneAnswer => ReplyAnswers
  <2> SUFFICES ASSUME TypeInv, ConnInv, OneAnswer, Answers, ~Late
               PROVE  reply.for = waiting.n
    BY DEF ReplyAnswers
  <2>1. waiting # None /\ haveReply
    BY DEF Answers
  <2>2. fd # 0 /\ sess # "opening"
    BY <2>1, WaitingIs, ConnsAre
  <2>3. Said(reply)
    BY <2>1 DEF Said
  <2> QED BY <2>2, <2>3 DEF OneAnswer, Due
<1> QED BY <1>1, AnswerHolds, PTL

-----------------------------------------------------------------------------
(* What STOP leaves. *)

Has(s, type) == \E i \in DOMAIN s : s[i].type = type

\* A STOP is the last request on its connection.
StopLast(s) == \A i \in DOMAIN s : s[i].type = "STOP" => i = Len(s)

LEMMA NoRequests == StopLast(<<>>) /\ \A t : ~Has(<<>>, t)
BY DEF StopLast, Has

LEMMA RequestsLeft ==
    ASSUME NEW s \in Seq(RequestType), s # <<>>
    PROVE  /\ StopLast(s) => StopLast(Tail(s)) /\ (Head(s).type = "STOP" => Tail(s) = <<>>)
           /\ \A t : Has(Tail(s), t) => Has(s, t)
           /\ Has(s, Head(s).type)
           /\ Len(Tail(s)) + 1 = Len(s)
<1> DEFINE u == Tail(s)
<1> DEFINE k == Len(u)
<1>1. /\ u \in Seq(RequestType) /\ k \in Nat /\ Len(s) = k + 1 /\ DOMAIN s = 1 .. k + 1
      /\ DOMAIN u = 1 .. k /\ Head(s) = s[1]
  OBVIOUS
<1>2. \A i \in 1 .. k : u[i] = s[i + 1]
  OBVIOUS
<1> HIDE DEF u, k
<1>3. /\ 1 \in 1 .. k + 1
      /\ \A i \in 1 .. k : i + 1 \in 1 .. k + 1
      /\ \A i \in 1 .. k : i + 1 = k + 1 => i = k
      /\ 1 = k + 1 => k = 0
  BY <1>1
<1>4. StopLast(s) => StopLast(u)
  <2> SUFFICES ASSUME StopLast(s), NEW i \in 1 .. k, u[i].type = "STOP" PROVE i = k
    BY <1>1 DEF StopLast
  <2>1. i + 1 \in DOMAIN s /\ s[i + 1].type = "STOP"
    BY <1>1, <1>2, <1>3
  <2>2. i + 1 = k + 1
    BY <1>1, <2>1 DEF StopLast
  <2> QED BY <1>3, <2>2
<1>5. ASSUME StopLast(s), Head(s).type = "STOP" PROVE u = <<>>
  <2>1. 1 = k + 1
    BY <1>1, <1>3, <1>5 DEF StopLast
  <2>2. Len(u) = 0
    BY <1>3, <2>1 DEF k
  <2> QED BY <1>1, <2>2, EmptySeq
<1>6. \A t : Has(u, t) => Has(s, t)
  BY <1>1, <1>2, <1>3 DEF Has
<1>7. Has(s, Head(s).type)
  BY <1>1, <1>3 DEF Has
<1> QED BY <1>1, <1>4, <1>5, <1>6, <1>7 DEF u, k

LEMMA RequestsMore ==
    ASSUME NEW s \in Seq(RequestType), NEW q \in RequestType
    PROVE  /\ \A t : Has(Append(s, q), t) => Has(s, t) \/ q.type = t
           /\ ~Has(s, "STOP") => StopLast(Append(s, q))
<1> DEFINE u == Append(s, q)
<1> DEFINE k == Len(s)
<1>1. /\ u \in Seq(RequestType) /\ k \in Nat /\ Len(u) = k + 1 /\ DOMAIN u = 1 .. k + 1
      /\ DOMAIN s = 1 .. k /\ u[k + 1] = q
  OBVIOUS
<1>2. \A i \in 1 .. k : u[i] = s[i]
  OBVIOUS
<1> HIDE DEF u, k
<1>3. \A i \in 1 .. k + 1 : i = k + 1 \/ i \in 1 .. k
  BY <1>1
<1>4. \A t : Has(u, t) => Has(s, t) \/ q.type = t
  BY <1>1, <1>2, <1>3 DEF Has
<1>5. ~Has(s, "STOP") => StopLast(u)
  BY <1>1, <1>2, <1>3 DEF Has, StopLast
<1> QED BY <1>4, <1>5 DEF u

\* A connection's requests after a step of the link.
LEMMA LinkTakes ==
    ASSUME TypeInv, ConnInv, LinkDoes, NEW c \in Conns
    PROVE  \/ toLink'[c] = toLink[c]
           \/ toLink'[c] = <<>>
           \/ toLink[c] # <<>> /\ toLink'[c] = Tail(toLink[c])
<1>1. CASE UNCHANGED toLink
  BY <1>1
<1>2. ASSUME NEW e \in Conns, CloseLinkEnd(e)
      PROVE  toLink'[c] = toLink[c] \/ toLink'[c] = <<>>
  BY <1>2, CloseEndIs
<1>3. CASE DropStep
  <2>1. cl.fd \in Conns /\ CloseLinkEnd(cl.fd)
    BY <1>3 DEF DropStep, TypeInv, LinkTypes
  <2> QED BY <1>2, <2>1
<1>4. ASSUME NEW e \in Conns, BusyStep(e) PROVE toLink'[c] = toLink[c] \/ toLink'[c] = <<>>
  BY <1>2, <1>4 DEF BusyStep
<1>5. CASE QuitStep
  BY <1>5 DEF QuitStep
<1>6. ASSUME NEW req, NEW r, RequestStep(req, r)
      PROVE  toLink'[c] = toLink[c] \/ (toLink[c] # <<>> /\ toLink'[c] = Tail(toLink[c]))
  BY <1>6 DEF RequestStep, TypeInv, SockTypes
<1>7. CASE ItemsStep \/ WriteStep \/ \E e \in Conns : ServeStep(e)
  BY <1>1, <1>7 DEF ItemsStep, WriteStep, ServeStep, sockVars
<1> QED BY <1>3, <1>4, <1>5, <1>6, <1>7 DEF LinkDoes

Stopping == waiting.type = "STOP" \/ sess = "over"

StopReply(m) == m.type = "REPLY" /\ m.of = "STOP"

\* The device captures for the link only; nothing is asked after a STOP.
StopInv ==
    /\ dev.faults = 0 => (dev.on => running)
    /\ \A c \in Conns : StopLast(toLink[c])
    /\ fd # 0 /\ Has(toLink[fd], "STOP") => Stopping
    /\ \A m : Said(m) /\ StopReply(m) =>
                 Stopping /\ running = FALSE /\ \A c \in Conns : toLink[c] = <<>>

LEMMA StopInit == SystemInit => StopInv
<1> SUFFICES ASSUME SystemInit PROVE StopInv
  OBVIOUS
<1>1. dev.on = FALSE /\ toLink = [c \in Conns |-> <<>>] /\ fd = 0 /\ haveReply = FALSE
  BY DEF SystemInit, LinkInit, SockInit, RemoteInit
<1>2. \A m : ~Said(m)
  BY <1>1, NothingComes DEF Said, Coming
<1> QED BY <1>1, <1>2, NoRequests DEF StopInv

LEMMA LinkOn ==
    ASSUME TypeInv, StopInv, LinkDoes
    PROVE  dev'.faults = 0 => (dev'.on => running')
<1>1. dev.faults \in Nat /\ running \in BOOLEAN
  BY DevParts DEF TypeInv, LinkTypes
<1>2. CASE UNCHANGED <<dev, running>>
  BY <1>2 DEF StopInv
<1>3. CASE ItemsStep
  BY <1>3 DEF ItemsStep, SameSetup, StopInv
<1>4. CASE QuitStep
  BY <1>4 DEF QuitStep
<1>5. ASSUME NEW req, NEW r, RequestStep(req, r) PROVE dev'.faults = 0 => (dev'.on => running')
  <2>1. CASE HelloDoes(r)
    BY <2>1 DEF HelloDoes
  <2>2. CASE StopDoes
    BY <2>2 DEF StopDoes, StopInv
  <2>3. CASE ConfigDoes(req, r)
    BY <2>3 DEF ConfigDoes, StopInv
  <2>4. CASE AttachDoes(r)
    BY <1>2, <2>4 DEF AttachDoes
  <2> QED BY <1>5, <2>1, <2>2, <2>3, <2>4 DEF RequestStep
<1>6. CASE WriteStep \/ DropStep \/ \E e \in Conns : BusyStep(e) \/ ServeStep(e)
  BY <1>2, <1>6 DEF WriteStep, DropStep, BusyStep, ServeStep, captureVars
<1> QED BY <1>3, <1>4, <1>5, <1>6 DEF LinkDoes

LEMMA LinkStops ==
    ASSUME TypeInv, ConnInv, StopInv, LinkDoes
    PROVE  StopInv'
<1>1. UNCHANGED <<fd, sess, waiting>>
  BY LinkLeavesRemote
<1>2. Stopping' = Stopping
  BY <1>1 DEF Stopping
<1>3. \A c \in Conns : StopLast(toLink'[c]) /\ \A t : Has(toLink'[c], t) => Has(toLink[c], t)
  <2> SUFFICES ASSUME NEW c \in Conns
               PROVE  StopLast(toLink'[c]) /\ \A t : Has(toLink'[c], t) => Has(toLink[c], t)
    OBVIOUS
  <2>1. toLink[c] \in Seq(RequestType) /\ StopLast(toLink[c])
    BY DEF TypeInv, SockTypes, StopInv
  <2> QED BY <2>1, LinkTakes, RequestsLeft, NoRequests
<1>4. fd # 0 /\ Has(toLink'[fd], "STOP") => Stopping
  BY <1>3 DEF StopInv, TypeInv, RemoteTypes
<1> DEFINE Ended == running' = FALSE /\ \A c \in Conns : toLink'[c] = <<>>
<1>5. ASSUME NEW m, Said(m)', StopReply(m) PROVE Stopping /\ Ended
  <2>1. m.type = "REPLY" /\ m.of = "STOP"
    BY <1>5 DEF StopReply
  <2>2. ASSUME Greets PROVE FALSE
    BY <1>5, <2>1, <2>2 DEF Greets
  <2>3. ASSUME Said(m) PROVE Stopping /\ running = FALSE /\ \A c \in Conns : toLink[c] = <<>>
    BY <1>5, <2>3 DEF StopInv
  <2>4. ASSUME Quiet PROVE Said(m)
    BY <1>5, <2>4 DEF Quiet, NoNews
  <2>5. ASSUME Said(m), UNCHANGED running PROVE Stopping /\ Ended
    <3>1. \A c \in Conns : toLink'[c] = <<>>
      BY <2>3, <2>5, LinkTakes
    <3> QED BY <2>3, <2>5, <3>1
  <2>6. CASE ItemsStep
    BY <2>3, <2>4, <2>6, ItemsSay DEF ItemsStep
  <2>7. CASE WriteStep
    BY <2>4, <2>5, <2>7, WriteSays DEF WriteStep, captureVars
  <2>8. CASE DropStep
    BY <2>4, <2>5, <2>8, DropSays DEF DropStep, captureVars
  <2>9. ASSUME NEW c \in Conns, BusyStep(c) PROVE Stopping /\ Ended
    BY <2>2, <2>4, <2>5, <2>9, BusySays DEF BusyStep, captureVars
  <2>10. ASSUME NEW c \in Conns, ServeStep(c) PROVE Stopping /\ Ended
    BY <2>2, <2>4, <2>5, <2>10, ServeSays DEF ServeStep, captureVars
  <2>11. CASE QuitStep
    <3>1. Ended
      BY <2>11 DEF QuitStep
    <3> QED BY <2>3, <2>4, <2>11, <3>1, QuitSays
  <2>12. ASSUME NEW req \in RequestType, NEW r \in ReplyType, RequestStep(req, r)
         PROVE  Stopping /\ Ended
    <3>1. cl.fd \in Conns /\ toLink[cl.fd] # <<>> /\ toLink[cl.fd] \in Seq(RequestType)
          /\ req = Head(toLink[cl.fd]) /\ r.of = req.type
      BY <2>12 DEF RequestStep
    <3>2. ~Said(m)
      BY <2>3, <3>1
    <3>3. fd # 0 /\ cl.fd = fd /\ m = r
      BY <1>5, <2>4, <2>12, <3>2, RequestSays DEF News
    <3>4. req.type = "STOP"
      BY <2>1, <3>1, <3>3
    <3>5. Has(toLink[fd], "STOP") /\ Tail(toLink[fd]) = <<>>
      BY <3>1, <3>3, <3>4, RequestsLeft DEF StopInv
    <3>6. running' = FALSE
      BY <2>12, <3>4 DEF RequestStep, StopDoes
    <3>7. toLink' = [toLink EXCEPT ![fd] = Tail(@)]
      BY <2>12, <3>3 DEF RequestStep
    <3>8. \A c \in Conns : toLink'[c] = <<>>
      BY <3>3, <3>5, <3>7 DEF ConnInv, Sockets, TypeInv, SockTypes
    <3> QED BY <3>3, <3>5, <3>6, <3>8 DEF StopInv
  <2> QED BY <2>6, <2>7, <2>8, <2>9, <2>10, <2>11, <2>12 DEF LinkDoes
<1> QED BY <1>1, <1>2, <1>3, <1>4, <1>5, LinkOn DEF StopInv

LEMMA RemoteStops ==
    ASSUME TypeInv, ConnInv, StopInv, RemoteDoes, UNCHANGED linkVars
    PROVE  StopInv'
<1>1. UNCHANGED <<dev, running>>
  BY DEF linkVars, captureVars
<1>2. ASSUME UNCHANGED toLink, Silent, fd' = 0 \/ toLink'[fd'] = <<>> PROVE StopInv'
  BY <1>1, <1>2, NoRequests DEF StopInv, Silent
<1>3. ASSUME UNCHANGED <<toLink, fd>>, NoNews, Stopping => Stopping' PROVE StopInv'
  BY <1>1, <1>3 DEF StopInv, NoNews
<1>4. CASE Connect
  BY <1>2, <1>4, ConnectSays
<1>5. CASE CloseStep
  BY <1>2, <1>5, CloseSays DEF CloseStep, CloseRemote
<1>6. CASE WelcomeStep
  <2>1. UNCHANGED <<fd, toLink>> /\ sess = "opening"
    BY <1>6 DEF WelcomeStep, Welcomed, sockVars
  <2>2. ~Stopping
    BY <2>1, WaitingIs DEF Stopping, None, Ask
  <2> QED BY <1>3, <1>6, <2>1, <2>2, ReturnSays
<1>7. CASE Send
  <2>1. /\ waiting = None /\ waiting' \in RequestType /\ fd \in Conns
        /\ toLink' = [toLink EXCEPT ![fd] = IF fd \in linkEnd THEN Append(toLink[fd], waiting')
                                            ELSE toLink[fd]]
        /\ UNCHANGED <<fd, sess>>
        /\ waiting' \in NextRequests(lastId') /\ lastId' \in Nat
    BY <1>7, SendIs
  <2>2. ~Stopping
    <3>1. sess # "over"
      BY <2>1, NextRequestsAre
    <3> QED BY <2>1, <3>1 DEF Stopping, None, Ask
  <2>3. ~Has(toLink[fd], "STOP") /\ \A m : ~(Said(m) /\ StopReply(m))
    BY <2>1, <2>2, ConnsAre DEF StopInv
  <2>4. \A m : ~(Said(m)' /\ StopReply(m))
    BY <1>7, <2>3, SendSays DEF NoNews
  <2>5. toLink[fd] \in Seq(RequestType)
    BY <2>1 DEF TypeInv, SockTypes
  <2>6. StopLast(toLink'[fd]) /\ (Has(toLink'[fd], "STOP") => waiting'.type = "STOP")
    <3>1. toLink'[fd] = toLink[fd] \/ toLink'[fd] = Append(toLink[fd], waiting')
      BY <2>1 DEF TypeInv, SockTypes
    <3>2. StopLast(toLink[fd])
      BY <2>1 DEF StopInv
    <3> QED BY <2>1, <2>3, <2>5, <3>1, <3>2, RequestsMore
  <2>7. \A c \in Conns : c # fd => toLink'[c] = toLink[c]
    BY <2>1 DEF TypeInv, SockTypes
  <2> QED BY <1>1, <2>1, <2>4, <2>6, <2>7 DEF StopInv, Stopping
<1>8. CASE ReceiveStep
  <2>1. UNCHANGED <<fd, toLink, waiting, sess>> /\ NoNews
    BY <1>8, ReceiveIs, ReceiveNews
  <2> QED BY <1>3, <2>1 DEF Stopping
<1>9. CASE Return \/ Timeout
  <2>1. UNCHANGED <<fd, toLink>> /\ waiting # None /\ sess' \in {SessionAfter, Failed(waiting)}
        /\ (Return => sess' = SessionAfter) /\ (Timeout => sess' = Failed(waiting))
    BY <1>9 DEF Return, Timeout, sockVars
  <2>2. NoNews
    BY <1>9, ReturnSays, TimeoutSays
  <2>3. Stopping => Stopping'
    BY <2>1, WaitingIs DEF Stopping, SessionAfter, Failed
  <2> QED BY <1>3, <2>1, <2>2, <2>3
<1>10. CASE Read
  <2>1. UNCHANGED <<fd, toLink, waiting, sess>> /\ NoNews
    BY <1>10, TimeoutSays DEF Read, sockVars
  <2> QED BY <1>3, <2>1 DEF Stopping
<1> QED BY <1>4, <1>5, <1>6, <1>7, <1>8, <1>9, <1>10 DEF RemoteDoes

LEMMA StopStep == TypeInv /\ ConnInv /\ StopInv /\ [Next]_vars => StopInv'
<1> SUFFICES ASSUME TypeInv, ConnInv, StopInv, [Next]_vars PROVE StopInv'
  OBVIOUS
<1>1. CASE UNCHANGED vars
  <2>1. /\ UNCHANGED <<fd, sess, waiting, toLink, dev, running>>
        /\ \A m : Said(m)' <=> Said(m)
    BY <1>1, StutterSays
  <2> QED BY <2>1 DEF StopInv, Stopping
<1> QED BY <1>1, StepsDo, LinkStops, RemoteStops

LEMMA StopHolds == Spec => [](TypeInv /\ ConnInv /\ StopInv)
<1>1. SystemInit => TypeInv /\ ConnInv /\ StopInv
  BY TypeInit, ConnInit, StopInit
<1>2. TypeInv /\ ConnInv /\ StopInv /\ [Next]_vars => (TypeInv /\ ConnInv /\ StopInv)'
  BY TypeStep, ConnStep, StopStep
<1> QED BY <1>1, <1>2, PTL DEF Spec

\* When the link has said that STOP was done the device does not capture, whoever started
\* the capture, if no source operation has failed (link.c on_stop()).
THEOREM StopEnds == Spec => []StopStops
<1>1. TypeInv /\ ConnInv /\ StopInv => StopStops
  <2> SUFFICES ASSUME TypeInv, ConnInv, StopInv, Answers, waiting.type = "STOP", dev.faults = 0
               PROVE  ~dev.on
    BY DEF StopStops
  <2>1. haveReply /\ reply.type = "REPLY" /\ reply.of = "STOP"
    BY DEF Answers, Answered
  <2>2. Said(reply) /\ StopReply(reply)
    BY <2>1 DEF Said, StopReply
  <2>3. running = FALSE
    BY <2>2 DEF StopInv
  <2> QED BY <2>3 DEF StopInv
<1> QED BY <1>1, StopHolds, PTL

-----------------------------------------------------------------------------
(* Whose configuration the device has. *)

Served == fd # 0 /\ cl.fd = fd

\* The log is the device's configuration.
Clean == AcceptedRegs(log) = dev.setup

Calm == timeouts = {} \/ dev.faults = 0
Trust == timeouts = {} \/ (dev.faults = 0 /\ ~Late)

HelloDone(m) == m.type = "REPLY" /\ m.of = "HELLO" /\ m.status = "ok"
ConfigDone(m) == m.type = "REPLY" /\ m.of = "CONFIG" /\ m.status = "ok" /\ m.rest = "accepted"
AttachDone(m) == m.type = "REPLY" /\ m.of = "ATTACH" /\ m.status = "ok"

OneAsked == timeouts = {} => \A c \in Conns : Len(toLink[c]) <= 1

\* The log is true while a capture runs, and as long as more is to be configured.
LogTrue ==
    Calm => /\ running => Clean
            /\ \A c \in Conns : Has(toLink[c], "CONFIG") =>
                                   Clean /\ (timeouts = {} => running = FALSE)

\* So it is while a session configures.
SessTrue ==
    (Served /\ dev.faults = 0 /\ sess \in {"open", "ready", "set"}) => Clean

\* What a request that configures, and the reply to it, say of the device.
AskTrue ==
    (Served /\ ~Late) =>
        /\ (sess \in {"ready", "set"} /\ (waiting = None \/ toLink[fd] # <<>>)) =>
               Clean /\ running = FALSE /\ dev.setup = setup
        /\ \A m : Said(m) /\ HelloDone(m) => running = FALSE /\ log = <<>> /\ dev.setup = <<>>
        /\ \A m : Said(m) /\ ConfigDone(m) =>
               IF waiting.reg = "capture" THEN running => dev.setup = Append(setup, "capture")
               ELSE running = FALSE /\ Clean /\ dev.setup = Append(setup, waiting.reg)

\* What the reply to an ATTACH says, and what a session knows.
JoinTrue ==
    (Served /\ Trust) =>
        /\ \A m : Said(m) /\ AttachDone(m) => (running => AcceptedRegs(m.join.log) = dev.setup)
        /\ sess = "running" /\ running => setup = dev.setup

SetupInv == OneAsked /\ LogTrue /\ SessTrue /\ AskTrue /\ JoinTrue

AllInv == TypeInv /\ ConnInv /\ OneAnswer /\ StopInv

LEMMA SetupInit == SystemInit => SetupInv
<1> SUFFICES ASSUME SystemInit PROVE SetupInv
  OBVIOUS
<1>1. running = FALSE /\ toLink = [c \in Conns |-> <<>>] /\ fd = 0
  BY DEF SystemInit, LinkInit, SockInit, RemoteInit
<1>2. Len(<<>>) <= 1
  OBVIOUS
<1> QED BY <1>1, <1>2, NoRequests DEF SetupInv, OneAsked, LogTrue, SessTrue, AskTrue, JoinTrue, Served

LEMMA FaultsKept ==
    ASSUME TypeInv, LinkDoes
    PROVE  dev'.faults = 0 => dev.faults = 0
<1>1. CASE UNCHANGED dev
  BY <1>1
<1>2. CASE ItemsStep \/ QuitStep
  BY <1>2 DEF ItemsStep, QuitStep, SameSetup
<1>3. ASSUME NEW req, NEW r, RequestStep(req, r) PROVE dev'.faults = 0 => dev.faults = 0
  <2>1. CASE HelloDoes(r)
    BY <2>1 DEF HelloDoes
  <2>2. CASE ConfigDoes(req, r)
    BY <2>2 DEF ConfigDoes
  <2> QED BY <1>3, <2>1, <2>2 DEF RequestStep, StopDoes, AttachDoes
<1>4. CASE WriteStep \/ DropStep \/ \E e \in Conns : BusyStep(e) \/ ServeStep(e)
  BY <1>1, <1>4 DEF WriteStep, DropStep, BusyStep, ServeStep
<1> QED BY <1>2, <1>3, <1>4 DEF LinkDoes

\* A link's step that leaves the capture and its configuration.
LEMMA SameSetups ==
    ASSUME TypeInv, SetupInv, LinkDoes, UNCHANGED <<running, log>>,
           dev'.setup = dev.setup, dev'.faults = dev.faults,
           \A c \in Conns : toLink'[c] = toLink[c] \/ toLink'[c] = <<>>,
           Greets \/ (NoNews /\ (Served' => Served))
    PROVE  SetupInv'
<1>1. UNCHANGED <<fd, sess, waiting, setup, timeouts>>
  BY LinkLeavesRemote
<1>2. /\ Calm' <=> Calm
      /\ Trust' <=> Trust
      /\ Late' <=> Late
      /\ Clean' <=> Clean
  BY <1>1 DEF Calm, Trust, Late, Clean
<1>3. Len(<<>>) <= 1
  OBVIOUS
<1>4. OneAsked'
  BY <1>1, <1>3 DEF OneAsked, SetupInv
<1>5. LogTrue'
  BY <1>1, <1>2, NoRequests DEF LogTrue, SetupInv
<1>6. CASE Greets
  BY <1>1, <1>2, <1>4, <1>5, <1>6
     DEF Greets, SetupInv, SessTrue, AskTrue, JoinTrue, HelloDone, ConfigDone, AttachDone
<1>7. CASE NoNews /\ (Served' => Served)
  <2>1. fd # 0 => (toLink'[fd] # <<>> => toLink[fd] # <<>>)
    BY DEF TypeInv, RemoteTypes
  <2>2. SessTrue'
    BY <1>1, <1>2, <1>7 DEF SessTrue, SetupInv
  <2>3. AskTrue'
    <3> SUFFICES ASSUME Served', ~Late' PROVE AskTrue'
      BY DEF AskTrue
    <3>1. Served /\ ~Late /\ fd # 0
      BY <1>2, <1>7 DEF Served
    <3> QED BY <1>1, <1>2, <1>7, <2>1, <3>1 DEF AskTrue, SetupInv, NoNews
  <2>4. JoinTrue'
    BY <1>1, <1>2, <1>7 DEF JoinTrue, SetupInv, NoNews
  <2> QED BY <1>4, <1>5, <2>2, <2>3, <2>4 DEF SetupInv
<1> QED BY <1>6, <1>7

LEMMA ItemsSetup ==
    ASSUME AllInv, SetupInv, ItemsStep
    PROVE  SetupInv'
<1>1. LinkDoes /\ UNCHANGED <<fd, sess, waiting, setup, timeouts>>
  BY LinkLeavesRemote DEF LinkDoes
<1>2. /\ UNCHANGED <<toLink, log>> /\ cl'.fd = cl.fd /\ NoNews /\ running
      /\ \/ running' = running /\ SameSetup(dev, dev')
         \/ running' = FALSE /\ dev'.faults > 0
  BY DEF ItemsStep, sockVars
<1>3. running = TRUE
  BY <1>2 DEF AllInv, TypeInv, LinkTypes
<1>4. Served' <=> Served
  BY <1>1, <1>2 DEF Served
<1>5. CASE running' = running /\ SameSetup(dev, dev')
  BY <1>1, <1>2, <1>4, <1>5, SameSetups DEF AllInv, SameSetup
<1>6. CASE running' = FALSE /\ dev'.faults > 0
  <2>1. Late' <=> Late
    BY <1>1 DEF Late
  <2>2. ~(dev'.faults = 0)
    BY <1>6
  <2>3. OneAsked'
    BY <1>1, <1>2 DEF OneAsked, SetupInv
  <2>4. LogTrue'
    <3> SUFFICES ASSUME Calm' PROVE LogTrue'
      BY DEF LogTrue
    <3>1. timeouts = {} /\ Calm
      BY <1>1, <2>2 DEF Calm
    <3>2. \A c \in Conns : ~Has(toLink[c], "CONFIG")
      BY <1>3, <3>1 DEF LogTrue, SetupInv
    <3> QED BY <1>2, <1>6, <3>2 DEF LogTrue
  <2>5. SessTrue'
    BY <2>2 DEF SessTrue
  <2>6. AskTrue'
    <3> SUFFICES ASSUME Served, ~Late PROVE AskTrue'
      BY <1>4, <2>1 DEF AskTrue
    <3>1. ~(sess \in {"ready", "set"} /\ (waiting = None \/ toLink[fd] # <<>>))
      BY <1>3 DEF AskTrue, SetupInv
    <3>2. \A m : ~(Said(m) /\ HelloDone(m))
      BY <1>3 DEF AskTrue, SetupInv
    <3>3. \A m : Said(m) /\ ConfigDone(m) => waiting.reg = "capture"
      BY <1>3 DEF AskTrue, SetupInv
    <3>4. \A m : Said(m)' => Said(m)
      BY <1>2 DEF NoNews
    <3> QED BY <1>1, <1>2, <1>6, <3>1, <3>2, <3>3, <3>4 DEF AskTrue
  <2>7. JoinTrue'
    BY <1>6 DEF JoinTrue
  <2> QED BY <2>3, <2>4, <2>5, <2>6, <2>7 DEF SetupInv
<1> QED BY <1>2, <1>5, <1>6

LEMMA OtherSetup ==
    ASSUME AllInv, SetupInv,
           WriteStep \/ DropStep \/ \E c \in Conns : BusyStep(c) \/ ServeStep(c)
    PROVE  SetupInv'
<1>1. LinkDoes /\ UNCHANGED <<fd, sess, waiting, setup, timeouts>>
  <2>1. LinkDoes
    BY DEF LinkDoes
  <2> QED BY <2>1, LinkLeavesRemote
<1>2. UNCHANGED <<running, log, dev>>
  BY DEF WriteStep, DropStep, BusyStep, ServeStep, captureVars
<1>3. TypeInv /\ ConnInv
  BY DEF AllInv
<1>4. \A c \in Conns : toLink'[c] = toLink[c] \/ toLink'[c] = <<>>
  <2>1. CASE UNCHANGED toLink
    BY <2>1
  <2>2. ASSUME NEW e \in Conns, CloseLinkEnd(e)
        PROVE  \A c \in Conns : toLink'[c] = toLink[c] \/ toLink'[c] = <<>>
    BY <1>3, <2>2, CloseEndIs
  <2>3. DropStep => cl.fd \in Conns /\ CloseLinkEnd(cl.fd)
    BY <1>3 DEF DropStep, TypeInv, LinkTypes
  <2> QED BY <2>1, <2>2, <2>3 DEF WriteStep, BusyStep, ServeStep
<1>5. Greets \/ (NoNews /\ (Served' => Served))
  <2>1. CASE WriteStep
    BY <1>1, <2>1 DEF WriteStep, Served
  <2>2. CASE DropStep
    <3>1. Quiet
      BY <1>3, <2>2, DropSays
    <3> QED BY <1>1, <2>2, <3>1 DEF DropStep, Served, Quiet
  <2>3. ASSUME NEW c \in Conns, BusyStep(c) PROVE Greets \/ (NoNews /\ (Served' => Served))
    <3>1. Greets \/ Quiet
      BY <1>3, <2>3, BusySays
    <3> QED BY <1>1, <2>3, <3>1 DEF BusyStep, Served, Quiet
  <2>4. ASSUME NEW c \in Conns, ServeStep(c) PROVE Greets \/ (NoNews /\ (Served' => Served))
    <3>1. CASE c = fd
      BY <1>3, <2>4, <3>1, ServeSays
    <3>2. CASE c # fd
      <4>1. Quiet
        BY <1>3, <2>4, <3>2, ServeSays
      <4> QED BY <1>1, <2>4, <3>2, <4>1 DEF ServeStep, Served, Quiet
    <3> QED BY <3>1, <3>2
  <2> QED BY <2>1, <2>2, <2>3, <2>4
<1> QED BY <1>1, <1>2, <1>3, <1>4, <1>5, SameSetups

LEMMA QuitSetup ==
    ASSUME AllInv, SetupInv, QuitStep
    PROVE  SetupInv'
<1>1. LinkDoes /\ fd' = fd
  BY LinkLeavesRemote DEF LinkDoes
<1>2. running' = FALSE /\ cl'.fd = 0 /\ toLink' = [c \in Conns |-> <<>>]
  BY DEF QuitStep
<1>3. ~Served'
  BY <1>1, <1>2 DEF Served
<1>4. Len(<<>>) <= 1
  OBVIOUS
<1> QED BY <1>2, <1>3, <1>4, NoRequests
        DEF SetupInv, OneAsked, LogTrue, SessTrue, AskTrue, JoinTrue

\* A request keeps the log true, unless it ends a capture or fails.
LEMMA RequestClean ==
    ASSUME NEW req, NEW r, RequestStep(req, r), req.type # "STOP", Clean, dev'.faults = 0
    PROVE  Clean'
<1>1. CASE HelloDoes(r)
  BY <1>1, AcceptedNone DEF HelloDoes, Clean
<1>2. CASE ConfigDoes(req, r)
  BY <1>2 DEF ConfigDoes, Clean
<1>3. CASE AttachDoes(r)
  BY <1>3 DEF AttachDoes, Clean
<1> QED BY <1>1, <1>2, <1>3 DEF RequestStep

LEMMA RequestLog ==
    ASSUME AllInv, SetupInv, NEW req \in RequestType, NEW r \in ReplyType, RequestStep(req, r)
    PROVE  OneAsked' /\ LogTrue'
<1> DEFINE s == toLink[cl.fd]
<1>1. /\ cl.fd \in Conns /\ s \in Seq(RequestType) /\ s # <<>> /\ req = Head(s)
      /\ toLink' = [toLink EXCEPT ![cl.fd] = Tail(s)]
  BY DEF RequestStep
<1>2. LinkDoes
  BY DEF LinkDoes
<1>3. timeouts' = timeouts /\ cl'.fd = cl.fd
  BY <1>2, LinkLeavesRemote DEF RequestStep
<1>4. TypeInv /\ ConnInv
  BY DEF AllInv
<1>5. dev'.faults = 0 => dev.faults = 0
  BY <1>2, <1>4, FaultsKept
<1>6. /\ toLink'[cl.fd] = Tail(s)
      /\ \A c \in Conns : c # cl.fd => toLink'[c] = <<>>
  BY <1>1, <1>4 DEF TypeInv, SockTypes, ConnInv, Sockets
<1> HIDE DEF s
<1>7. /\ StopLast(s) => (Head(s).type = "STOP" => Tail(s) = <<>>)
      /\ \A t : Has(Tail(s), t) => Has(s, t)
      /\ Has(s, Head(s).type)
      /\ Len(Tail(s)) + 1 = Len(s) /\ Tail(s) \in Seq(RequestType) /\ Len(s) \in Nat
  BY <1>1, RequestsLeft
<1>8. OneAsked'
  <2> SUFFICES ASSUME timeouts = {}, NEW c \in Conns PROVE Len(toLink'[c]) <= 1
    BY <1>3 DEF OneAsked
  <2>1. Len(s) <= 1
    BY <1>1 DEF SetupInv, OneAsked, s
  <2>2. Len(Tail(s)) <= 1
    <3>1. Len(Tail(s)) \in Nat
      BY <1>7
    <3> QED BY <1>7, <2>1, <3>1
  <2>3. Len(<<>>) <= 1
    OBVIOUS
  <2> QED BY <1>6, <2>2, <2>3
<1>9. Calm' => Calm
  BY <1>3, <1>5 DEF Calm
<1>10. ASSUME Calm, req.type = "CONFIG" PROVE Clean
  <2>1. Has(toLink[cl.fd], "CONFIG")
    BY <1>1, <1>7, <1>10 DEF s
  <2> QED BY <1>1, <1>10, <2>1 DEF SetupInv, LogTrue
<1>11. ASSUME Calm', running' PROVE Clean'
  <2>1. CASE HelloDoes(r) \/ StopDoes
    BY <1>11, <2>1 DEF HelloDoes, StopDoes
  <2>2. CASE req.type = "CONFIG" /\ ConfigDoes(req, r)
    <3>1. Clean
      BY <1>9, <1>10, <1>11, <2>2
    <3> QED BY <1>11, <2>2, <3>1 DEF ConfigDoes, Clean
  <2>3. CASE AttachDoes(r)
    BY <1>9, <1>11, <2>3 DEF AttachDoes, Clean, SetupInv, LogTrue
  <2> QED BY <2>1, <2>2, <2>3 DEF RequestStep
<1>12. ASSUME Calm', NEW c \in Conns, Has(toLink'[c], "CONFIG")
       PROVE  Clean' /\ (timeouts = {} => running' = FALSE)
  <2>1. c = cl.fd /\ Has(Tail(s), "CONFIG") /\ Tail(s) # <<>>
    BY <1>6, <1>12, NoRequests
  <2>2. timeouts # {}
    <3> SUFFICES ASSUME timeouts = {} PROVE FALSE
      OBVIOUS
    <3>1. Len(s) <= 1
      BY <1>1 DEF SetupInv, OneAsked, s
    <3>2. Len(Tail(s)) # 0
      BY <1>7, <2>1, EmptySeq
    <3>3. Len(Tail(s)) \in Nat
      BY <1>7
    <3> QED BY <1>7, <3>1, <3>2, <3>3
  <2>3. dev'.faults = 0
    BY <1>3, <1>12, <2>2 DEF Calm
  <2>4. Clean
    <3>1. Has(toLink[cl.fd], "CONFIG")
      BY <1>7, <2>1 DEF s
    <3> QED BY <1>1, <1>9, <1>12, <3>1 DEF SetupInv, LogTrue
  <2>5. req.type # "STOP"
    BY <1>1, <1>7, <2>1 DEF AllInv, StopInv, s
  <2> QED BY <2>2, <2>3, <2>4, <2>5, RequestClean
<1>13. LogTrue'
  BY <1>3, <1>11, <1>12 DEF LogTrue
<1> QED BY <1>8, <1>13

LEMMA RequestSetup ==
    ASSUME AllInv, SetupInv, NEW req \in RequestType, NEW r \in ReplyType, RequestStep(req, r)
    PROVE  SetupInv'
<1>1. LinkDoes
  BY DEF LinkDoes
<1>2. UNCHANGED <<fd, sess, waiting, setup, timeouts>> /\ cl'.fd = cl.fd
  BY <1>1, LinkLeavesRemote DEF RequestStep
<1>3. TypeInv /\ ConnInv /\ OneAnswer /\ StopInv
  BY DEF AllInv
<1>4. dev'.faults = 0 => dev.faults = 0
  BY <1>1, <1>3, FaultsKept
<1>5. /\ Served' <=> Served
      /\ Late' <=> Late
      /\ Calm' => Calm
      /\ Trust' => Trust
      /\ Trust => Calm /\ ~Late
  BY <1>2, <1>4 DEF Served, Late, Calm, Trust
<1>6. Served => /\ fd # 0 /\ fd \in Conns /\ toLink[fd] # <<>> /\ req = Head(toLink[fd])
                /\ toLink' = [toLink EXCEPT ![fd] = Tail(@)]
                /\ toLink[fd] \in Seq(RequestType)
  BY DEF RequestStep, Served
<1>7. Served => Has(toLink[fd], req.type)
  BY <1>6, RequestsLeft
<1>8. ASSUME Served, ~Late
      PROVE  /\ waiting # None /\ req = waiting /\ toLink'[fd] = <<>>
             /\ \A m : Said(m)' => m = r
  <2>1. waiting # None /\ toLink[fd] = <<waiting>> /\ \A m : ~Said(m)
    BY <1>3, <1>6, <1>8 DEF OneAnswer
  <2>2. req = waiting /\ toLink'[fd] = <<>>
    BY <1>3, <1>6, <1>8, <2>1 DEF TypeInv, SockTypes
  <2>3. News(r)
    BY <1>3, <1>8, RequestSays DEF Served
  <2> QED BY <2>1, <2>2, <2>3 DEF News
<1>9. r.of = req.type
  BY DEF RequestStep
<1>10. SessTrue'
  <2> SUFFICES ASSUME Served, dev'.faults = 0, sess \in {"open", "ready", "set"} PROVE Clean'
    BY <1>2, <1>5 DEF SessTrue
  <2>1. Clean
    BY <1>4 DEF SetupInv, SessTrue
  <2>2. req.type # "STOP"
    <3> SUFFICES ASSUME req.type = "STOP" PROVE FALSE
      OBVIOUS
    <3>1. Stopping
      BY <1>3, <1>6, <1>7 DEF StopInv
    <3> QED BY <1>3, <3>1 DEF Stopping, ConnInv, Waits
  <2> QED BY <2>1, <2>2, RequestClean
<1>11. AskTrue'
  <2> SUFFICES ASSUME Served, ~Late PROVE AskTrue'
    BY <1>5 DEF AskTrue
  <2>1. ASSUME HelloDone(r) PROVE running' = FALSE /\ log' = <<>> /\ dev'.setup = <<>>
    BY <1>9, <2>1 DEF HelloDone, RequestStep, HelloDoes
  <2>2. ASSUME ConfigDone(r)
        PROVE  IF waiting.reg = "capture" THEN running' => dev'.setup = Append(setup, "capture")
               ELSE running' = FALSE /\ Clean' /\ dev'.setup = Append(setup, waiting.reg)
    <3>1. ConfigDoes(req, r) /\ waiting.type = "CONFIG"
      BY <1>8, <1>9, <2>2 DEF ConfigDone, RequestStep
    <3>2. sess \in {"ready", "set"}
      BY <1>3, <3>1 DEF ConnInv, Waits
    <3>3. Clean /\ running = FALSE /\ dev.setup = setup
      BY <1>6, <3>2 DEF SetupInv, AskTrue
    <3>4. /\ dev'.setup = Append(dev.setup, req.reg)
          /\ AcceptedRegs(log') = Append(AcceptedRegs(log), req.reg)
          /\ req.reg # "capture" => running' = FALSE
      BY <2>2, <3>1 DEF ConfigDone, ConfigDoes
    <3> QED BY <1>8, <3>3, <3>4 DEF Clean
  <2> QED BY <1>2, <1>8, <2>1, <2>2 DEF AskTrue
<1>12. JoinTrue'
  <2> SUFFICES ASSUME Served, Trust' PROVE JoinTrue'
    BY <1>5 DEF JoinTrue
  <2>1. ~Late /\ Calm
    BY <1>5
  <2>2. ASSUME AttachDone(r), running' PROVE AcceptedRegs(r.join.log) = dev'.setup
    <3>1. AttachDoes(r)
      BY <1>9, <2>2 DEF AttachDone, RequestStep
    <3>2. running /\ r.join.log = log /\ dev' = dev
      BY <2>2, <3>1 DEF AttachDone, AttachDoes
    <3> QED BY <2>1, <3>2 DEF SetupInv, LogTrue, Clean
  <2>3. ASSUME sess = "running" PROVE running' = FALSE
    <3>1. waiting.type = "STOP"
      BY <1>3, <1>8, <2>1, <2>3, WaitingIs
    <3> QED BY <1>8, <2>1, <3>1 DEF RequestStep, StopDoes
  <2> QED BY <1>2, <1>8, <2>1, <2>2, <2>3 DEF JoinTrue
<1> QED BY <1>10, <1>11, <1>12, RequestLog DEF SetupInv

LEMMA LinkSetup ==
    ASSUME AllInv, SetupInv, LinkDoes
    PROVE  SetupInv'
BY ItemsSetup, OtherSetup, QuitSetup, RequestSetup DEF LinkDoes

\* A client's step that sends nothing.
LEMMA AskedSame ==
    ASSUME SetupInv, UNCHANGED <<linkVars, toLink>>, timeouts \subseteq timeouts'
    PROVE  OneAsked' /\ LogTrue'
<1>1. UNCHANGED <<running, log, dev>>
  BY DEF linkVars, captureVars
<1>2. timeouts' = {} => timeouts = {}
  OBVIOUS
<1>3. Clean' <=> Clean
  BY <1>1 DEF Clean
<1>4. Calm' => Calm
  BY <1>1, <1>2 DEF Calm
<1>5. OneAsked'
  BY <1>2 DEF OneAsked, SetupInv
<1>6. LogTrue'
  BY <1>1, <1>2, <1>3, <1>4 DEF LogTrue, SetupInv
<1> QED BY <1>5, <1>6

\* One that leaves the session where it is.
LEMMA SessionSame ==
    ASSUME SetupInv, UNCHANGED <<linkVars, toLink, fd, sess, waiting, setup, timeouts>>, NoNews
    PROVE  SetupInv'
<1>1. UNCHANGED <<running, log, dev, cl>>
  BY DEF linkVars, captureVars
<1>2. /\ Clean' <=> Clean
      /\ Served' <=> Served
      /\ Trust' <=> Trust
      /\ Late' <=> Late
  BY <1>1 DEF Clean, Served, Trust, Late
<1>3. \A m : Said(m)' => Said(m)
  BY DEF NoNews
<1>4. OneAsked' /\ LogTrue'
  BY AskedSame
<1>5. SessTrue'
  BY <1>1, <1>2 DEF SessTrue, SetupInv
<1>6. AskTrue'
  BY <1>1, <1>2, <1>3 DEF AskTrue, SetupInv
<1>7. JoinTrue'
  BY <1>1, <1>2, <1>3 DEF JoinTrue, SetupInv
<1> QED BY <1>4, <1>5, <1>6, <1>7 DEF SetupInv

LEMMA SendSetup ==
    ASSUME AllInv, SetupInv, Send, UNCHANGED linkVars
    PROVE  SetupInv'
<1>1. TypeInv /\ ConnInv /\ OneAnswer
  BY DEF AllInv
<1>2. /\ waiting = None /\ waiting' \in RequestType /\ fd \in Conns
      /\ toLink' = [toLink EXCEPT ![fd] = IF fd \in linkEnd THEN Append(toLink[fd], waiting')
                                          ELSE toLink[fd]]
      /\ UNCHANGED <<fd, sess, setup, timeouts>>
      /\ waiting' \in NextRequests(lastId') /\ lastId' \in Nat
  BY <1>1, SendIs
<1>3. fd # 0 /\ (fd \in linkEnd => Served)
  BY <1>1, <1>2, SendConn, ConnsAre DEF Served
<1>4. sess # "opening" /\ (waiting'.type = "CONFIG" => sess \in {"ready", "set"})
  BY <1>2, NextRequestsAre
<1>5. UNCHANGED <<running, log, dev, cl>>
  BY DEF linkVars, captureVars
<1>6. /\ Clean' <=> Clean
      /\ Served' <=> Served
      /\ Trust' <=> Trust
      /\ Calm' <=> Calm
      /\ Late' <=> Late
      /\ Trust => ~Late
      /\ timeouts = {} => ~Late
  BY <1>2, <1>5 DEF Clean, Served, Trust, Late, Calm
<1>7. ~Late => toLink[fd] = <<>> /\ \A m : ~Said(m)
  BY <1>1, <1>2, <1>3, <1>4 DEF OneAnswer, Due
<1>8. NoNews
  BY <1>1, SendSays
<1>9. /\ \A c \in Conns : c # fd => toLink'[c] = toLink[c]
      /\ toLink'[fd] = toLink[fd]
         \/ (fd \in linkEnd /\ toLink'[fd] = Append(toLink[fd], waiting'))
      /\ toLink[fd] \in Seq(RequestType)
  BY <1>1, <1>2 DEF TypeInv, SockTypes
<1>10. OneAsked'
  <2> SUFFICES ASSUME timeouts = {}, NEW c \in Conns PROVE Len(toLink'[c]) <= 1
    BY <1>2 DEF OneAsked
  <2>1. Len(toLink[c]) <= 1
    BY DEF OneAsked, SetupInv
  <2>2. toLink[fd] = <<>>
    BY <1>6, <1>7
  <2>3. Len(<<waiting'>>) <= 1 /\ Append(<<>>, waiting') = <<waiting'>>
    OBVIOUS
  <2> QED BY <1>9, <2>1, <2>2, <2>3
<1>11. LogTrue'
  <2> SUFFICES ASSUME Calm, NEW c \in Conns, Has(toLink'[c], "CONFIG")
               PROVE  Clean /\ (timeouts = {} => running = FALSE)
    BY <1>2, <1>5, <1>6 DEF LogTrue, SetupInv
  <2>1. CASE Has(toLink[c], "CONFIG")
    BY <2>1 DEF LogTrue, SetupInv
  <2>2. CASE ~Has(toLink[c], "CONFIG")
    <3>1. c = fd /\ fd \in linkEnd /\ waiting'.type = "CONFIG"
      BY <1>2, <1>9, <2>2, RequestsMore
    <3>2. Served /\ sess \in {"ready", "set"}
      BY <1>3, <1>4, <3>1
    <3>3. ~Late => Clean /\ running = FALSE
      BY <1>2, <3>2 DEF AskTrue, SetupInv
    <3>4. dev.faults = 0 => Clean
      BY <3>2 DEF SessTrue, SetupInv
    <3> QED BY <1>6, <3>3, <3>4 DEF Calm
  <2> QED BY <2>1, <2>2
<1>12. SessTrue'
  BY <1>2, <1>5, <1>6 DEF SessTrue, SetupInv
<1>13. AskTrue'
  <2> SUFFICES ASSUME Served, ~Late PROVE AskTrue'
    BY <1>6 DEF AskTrue
  <2>1. \A m : ~Said(m)'
    BY <1>7, <1>8 DEF NoNews
  <2>2. sess \in {"ready", "set"} => Clean /\ running = FALSE /\ dev.setup = setup
    BY <1>2 DEF AskTrue, SetupInv
  <2> QED BY <1>2, <1>5, <1>6, <2>1, <2>2 DEF AskTrue
<1>14. JoinTrue'
  <2>1. \A m : Said(m)' => Said(m)
    BY <1>8 DEF NoNews
  <2> QED BY <1>2, <1>5, <1>6, <2>1 DEF JoinTrue, SetupInv
<1> QED BY <1>10, <1>11, <1>12, <1>13, <1>14 DEF SetupInv

\* What the session's next state tells of the answer.
LEMMA AfterIs ==
    ASSUME waiting \in RequestType,
           \/ waiting.type = "ATTACH" /\ sess = "greeted"
           \/ waiting.type = "HELLO" /\ sess \in {"greeted", "open"}
           \/ waiting.type = "CONFIG" /\ sess \in {"ready", "set"}
           \/ waiting.type = "STOP" /\ sess = "running"
    PROVE  /\ SessionAfter \in {"ready", "set"} =>
                /\ Accepted
                /\ \/ waiting.type = "HELLO"
                   \/ waiting.type = "CONFIG" /\ waiting.reg # "capture"
           /\ SessionAfter \in {"open", "ready", "set"} /\ sess = "greeted" =>
                Accepted /\ waiting.type = "HELLO"
           /\ SessionAfter = "running" =>
                /\ Accepted
                /\ \/ waiting.type = "ATTACH"
                   \/ waiting.type = "CONFIG" /\ waiting.reg = "capture"
<1>1. CASE ~Accepted
  <2>1. SessionAfter = Failed(waiting)
    BY <1>1 DEF SessionAfter
  <2>2. Failed(waiting) \in {"over", "open"}
    BY DEF Failed
  <2>3. sess = "greeted" => Failed(waiting) = "over"
    BY DEF Failed
  <2> QED BY <2>1, <2>2, <2>3
<1>2. CASE Accepted /\ waiting.type = "ATTACH"
  <2>1. SessionAfter = "running"
    BY <1>2 DEF SessionAfter
  <2> QED BY <1>2, <2>1
<1>3. CASE Accepted /\ waiting.type = "HELLO"
  <2>1. SessionAfter = IF sess = "greeted" THEN "open" ELSE "ready"
    BY <1>3 DEF SessionAfter
  <2> QED BY <1>3, <2>1
<1>4. CASE Accepted /\ waiting.type = "CONFIG"
  <2>1. SessionAfter = IF waiting.reg = "capture" THEN "running" ELSE "set"
    BY <1>4 DEF SessionAfter
  <2>2. sess # "greeted"
    BY <1>4
  <2> QED BY <1>4, <2>1, <2>2
<1>5. CASE Accepted /\ waiting.type = "STOP"
  <2>1. SessionAfter = "over"
    BY <1>5 DEF SessionAfter
  <2> QED BY <2>1
<1> QED BY <1>1, <1>2, <1>3, <1>4, <1>5

LEMMA ReturnSetup ==
    ASSUME AllInv, SetupInv, Return, UNCHANGED linkVars
    PROVE  SetupInv'
<1>1. TypeInv /\ ConnInv /\ OneAnswer
  BY DEF AllInv
<1>2. /\ waiting # None /\ haveReply /\ sess' = SessionAfter
      /\ UNCHANGED <<fd, timeouts, toLink>>
      /\ setup' = CASE Accepted /\ waiting.type = "HELLO" -> <<>>
                    [] Accepted /\ waiting.type = "CONFIG" -> Append(setup, waiting.reg)
                    [] Accepted /\ waiting.type = "ATTACH" -> AcceptedRegs(reply.join.log)
                    [] OTHER -> setup
  BY DEF Return, sockVars
<1>3. UNCHANGED <<running, log, dev, cl>>
  BY DEF linkVars, captureVars
<1>4. /\ Clean' <=> Clean
      /\ Served' <=> Served
      /\ Trust' <=> Trust
      /\ Late' <=> Late
      /\ Trust => ~Late
  BY <1>2, <1>3 DEF Clean, Served, Trust, Late
<1>5. Said(reply)
  BY <1>2 DEF Said
<1>6. \/ waiting.type = "ATTACH" /\ sess = "greeted"
      \/ waiting.type = "HELLO" /\ sess \in {"greeted", "open"}
      \/ waiting.type = "CONFIG" /\ sess \in {"ready", "set"}
      \/ waiting.type = "STOP" /\ sess = "running"
  BY <1>1, <1>2, WaitingIs
<1>a. waiting \in RequestType
  BY <1>1, <1>2, WaitingIs
<1>7. sess = "greeted" => ~Late
  BY <1>1 DEF ConnInv, Waits
<1>8. ASSUME Served, ~Late PROVE \A m : ~Said(m)'
  <2>1. Single
    BY <1>1, <1>8 DEF OneAnswer, Served
  <2> QED BY <2>1, ReturnSays DEF Silent
<1>9. Accepted => reply.type = "REPLY" /\ reply.of = waiting.type /\ reply.status = "ok"
                  /\ (waiting.type = "CONFIG" => reply.rest = "accepted")
  BY DEF Accepted, Answered
<1>10. ASSUME Served, ~Late, Accepted, waiting.type = "HELLO"
       PROVE  running = FALSE /\ Clean /\ dev.setup = setup'
  <2>1. HelloDone(reply)
    BY <1>9, <1>10 DEF HelloDone
  <2>2. running = FALSE /\ log = <<>> /\ dev.setup = <<>>
    BY <1>5, <1>10, <2>1 DEF SetupInv, AskTrue
  <2> QED BY <1>2, <1>10, <2>2, AcceptedNone DEF Clean
<1>11. ASSUME Served, ~Late, Accepted, waiting.type = "CONFIG"
       PROVE  IF waiting.reg = "capture" THEN running => dev.setup = setup'
              ELSE running = FALSE /\ Clean /\ dev.setup = setup'
  <2>1. ConfigDone(reply)
    BY <1>9, <1>11 DEF ConfigDone
  <2>2. setup' = Append(setup, waiting.reg)
    BY <1>2, <1>11
  <2> QED BY <1>5, <1>11, <2>1, <2>2 DEF SetupInv, AskTrue
<1>12. OneAsked' /\ LogTrue'
  BY <1>2, AskedSame
<1>13. SessTrue'
  <2> SUFFICES ASSUME Served, dev.faults = 0, sess' \in {"open", "ready", "set"} PROVE Clean
    BY <1>3, <1>4 DEF SessTrue
  <2>1. CASE sess = "greeted"
    <3>1. Accepted /\ waiting.type = "HELLO"
      BY <1>2, <1>6, <1>a, <2>1, AfterIs
    <3> QED BY <1>7, <1>10, <2>1, <3>1
  <2>2. CASE sess \in {"open", "ready", "set"}
    BY <2>2 DEF SessTrue, SetupInv
  <2>3. CASE sess = "running"
    <3>1. waiting.type = "STOP"
      BY <1>6, <2>3
    <3>2. sess' \in {"open", "ready", "set"} => FALSE
      BY <1>2, <2>3, <3>1 DEF SessionAfter, Failed
    <3> QED BY <3>2
  <2> QED BY <1>6, <2>1, <2>2, <2>3
<1>14. AskTrue'
  <2> SUFFICES ASSUME Served, ~Late PROVE AskTrue'
    BY <1>4 DEF AskTrue
  <2>1. ASSUME sess' \in {"ready", "set"}
        PROVE  Clean /\ running = FALSE /\ dev.setup = setup'
    <3>1. /\ Accepted
          /\ \/ waiting.type = "HELLO"
             \/ waiting.type = "CONFIG" /\ waiting.reg # "capture"
      BY <1>2, <1>6, <1>a, <2>1, AfterIs
    <3> QED BY <1>10, <1>11, <3>1
  <2> QED BY <1>3, <1>4, <1>8, <2>1 DEF AskTrue
<1>15. JoinTrue'
  <2> SUFFICES ASSUME Served, Trust PROVE JoinTrue'
    BY <1>4 DEF JoinTrue
  <2>1. ASSUME sess' = "running", running PROVE setup' = dev.setup
    <3>1. /\ Accepted
          /\ \/ waiting.type = "ATTACH"
             \/ waiting.type = "CONFIG" /\ waiting.reg = "capture"
      BY <1>2, <1>6, <1>a, <2>1, AfterIs
    <3>2. CASE waiting.type = "CONFIG"
      BY <1>4, <1>11, <2>1, <3>1, <3>2
    <3>3. CASE waiting.type = "ATTACH"
      <4>1. AttachDone(reply)
        BY <1>9, <3>1, <3>3 DEF AttachDone
      <4>2. AcceptedRegs(reply.join.log) = dev.setup
        BY <1>5, <2>1, <4>1 DEF SetupInv, JoinTrue
      <4> QED BY <1>2, <3>1, <3>3, <4>2
    <3> QED BY <3>1, <3>2, <3>3
  <2> QED BY <1>3, <1>4, <1>8, <2>1 DEF JoinTrue
<1> QED BY <1>12, <1>13, <1>14, <1>15 DEF SetupInv

LEMMA TimeoutSetup ==
    ASSUME AllInv, SetupInv, Timeout, UNCHANGED linkVars
    PROVE  SetupInv'
<1>1. TypeInv /\ ConnInv
  BY DEF AllInv
<1>2. /\ waiting # None /\ sess' = Failed(waiting) /\ UNCHANGED <<fd, toLink>>
      /\ timeouts \subseteq timeouts'
  BY DEF Timeout, sockVars
<1>3. UNCHANGED <<running, log, dev, cl>>
  BY DEF linkVars, captureVars
<1>4. Late'
  BY <1>1, TimeoutConn
<1>5. ~Trust'
  BY <1>4 DEF Trust, Late
<1>6. OneAsked' /\ LogTrue'
  BY <1>2, AskedSame
<1>7. SessTrue'
  <2> SUFFICES ASSUME Served, dev.faults = 0, sess' \in {"open", "ready", "set"} PROVE Clean
    BY <1>2, <1>3 DEF SessTrue, Served, Clean
  <2>1. sess \in {"open", "ready", "set"}
    BY <1>1, <1>2, WaitingIs DEF Failed
  <2> QED BY <2>1 DEF SessTrue, SetupInv
<1>8. AskTrue' /\ JoinTrue'
  BY <1>4, <1>5 DEF AskTrue, JoinTrue
<1> QED BY <1>6, <1>7, <1>8 DEF SetupInv

LEMMA RemoteSetup ==
    ASSUME AllInv, SetupInv, RemoteDoes, UNCHANGED linkVars
    PROVE  SetupInv'
<1>1. TypeInv /\ ConnInv /\ OneAnswer
  BY DEF AllInv
<1>2. CASE Connect
  <2>1. cl'.fd # fd' /\ UNCHANGED <<toLink, timeouts>>
    BY <1>1, <1>2, ConnectSays
  <2>2. ~Served'
    BY <2>1 DEF Served
  <2>3. OneAsked' /\ LogTrue'
    BY <2>1, AskedSame
  <2> QED BY <2>2, <2>3 DEF SetupInv, SessTrue, AskTrue, JoinTrue
<1>3. CASE CloseStep
  <2>1. fd' = 0 /\ UNCHANGED <<toLink, timeouts>>
    BY <1>3 DEF CloseStep, CloseRemote
  <2>2. ~Served'
    BY <2>1 DEF Served
  <2>3. OneAsked' /\ LogTrue'
    BY <2>1, AskedSame
  <2> QED BY <2>2, <2>3 DEF SetupInv, SessTrue, AskTrue, JoinTrue
<1>4. CASE WelcomeStep
  <2>1. UNCHANGED <<fd, toLink, timeouts>> /\ sess' = "greeted"
    BY <1>4 DEF WelcomeStep, Welcomed, sockVars
  <2>2. OneAsked' /\ LogTrue'
    BY <2>1, AskedSame
  <2>3. ASSUME fd # 0, ~Late PROVE \A m : ~Said(m)'
    <3>1. Single
      BY <1>1, <2>3 DEF OneAnswer
    <3> QED BY <1>4, <3>1, ReturnSays DEF Silent
  <2>4. Served' => fd # 0
    BY <2>1 DEF Served
  <2>5. Trust' => ~Late'
    BY DEF Trust, Late
  <2>6. Late' <=> Late
    BY <2>1 DEF Late
  <2> QED BY <2>1, <2>2, <2>3, <2>4, <2>5, <2>6 DEF SetupInv, SessTrue, AskTrue, JoinTrue
<1>5. CASE ReceiveStep
  <2>1. UNCHANGED <<toLink, fd, sess, waiting, setup, timeouts>> /\ NoNews
    BY <1>1, <1>5, ReceiveIs, ReceiveNews
  <2> QED BY <2>1, SessionSame
<1>6. CASE Read
  <2>1. UNCHANGED <<toLink, fd, sess, waiting, setup, timeouts>> /\ NoNews
    BY <1>6, TimeoutSays DEF Read, sockVars
  <2> QED BY <2>1, SessionSame
<1> QED BY <1>2, <1>3, <1>4, <1>5, <1>6, SendSetup, ReturnSetup, TimeoutSetup DEF RemoteDoes

LEMMA SetupStep == AllInv /\ SetupInv /\ [Next]_vars => SetupInv'
<1> SUFFICES ASSUME AllInv, SetupInv, [Next]_vars PROVE SetupInv'
  OBVIOUS
<1>1. CASE UNCHANGED vars
  <2>1. /\ UNCHANGED <<linkVars, toLink, fd, sess, waiting, setup, timeouts>>
        /\ \A m : Said(m)' <=> Said(m)
        /\ Single' <=> Single
    BY <1>1, StutterSays DEF vars
  <2>2. NoNews
    BY <2>1 DEF NoNews
  <2> QED BY <2>1, <2>2, SessionSame
<1>2. TypeInv
  BY DEF AllInv
<1> QED BY <1>1, <1>2, StepsDo, LinkSetup, RemoteSetup

LEMMA AllHolds == Spec => []AllInv
BY AnswerHolds, StopHolds, PTL DEF AllInv

\* The configuration a session has is the one the device captures with, whether it started
\* the capture or joined it, if no request ever ran into its timeout, or none on this
\* connection and no source operation has failed (link.c on_hello(), on_config(),
\* on_attach(); capture.c capture_start()).
THEOREM SetupsComplete == Spec => []SetupComplete
<1>1. SystemInit => SetupInv
  BY SetupInit
<1>2. AllInv /\ SetupInv /\ [Next]_vars => SetupInv'
  BY SetupStep
<1>3. SetupInv => SetupComplete
  BY DEF SetupInv, JoinTrue, Served, Trust, SetupComplete, Follows
<1> QED BY <1>1, <1>2, <1>3, AllHolds, PTL DEF Spec

-----------------------------------------------------------------------------
(* Where the streams are. *)

Place == Nat \cup {Unknown, Skipped, Broken}
Places == [Dcs -> Place]
Nowhere == [d \in Dcs |-> Unknown]

LEMMA AfterAllIs == \A at, ms : AfterAll(at, ms) = AfterFold!Fold(at, ms)
BY DEF AfterAll, AfterFold!Fold, AfterFold!MapThenFoldSet, AfterFold!Max,
       FoldLeft, MapThenFoldSet, Max

UnitsAfter(p, u) == FoldLeft(UnitAfter, p, u)

LEMMA UnitsAre == \A p, u : UnitsAfter(p, u) = UnitsFold!Fold(p, u)
BY DEF UnitsAfter, UnitsFold!Fold, UnitsFold!MapThenFoldSet, UnitsFold!Max,
       FoldLeft, MapThenFoldSet, Max

LEMMA UnitIs ==
    ASSUME NEW u \in Seq(UnitType), NEW i \in 1 .. Len(u)
    PROVE  u[i] \in UnitType /\ u[i].p \in Nat /\ u[i].hb \in Nat
<1>1. u[i] \in UnitType
  OBVIOUS
<1> QED BY <1>1 DEF UnitType

LEMMA StreamItemIs ==
    ASSUME NEW m \in Messages
    PROVE  /\ m.type = "DATA" => m.ch \in Dcs /\ m.data \in Seq(UnitType)
           /\ m.type = "EVENT" => m.bytes \in Nat
<1>1. CASE m.type = "DATA"
  <2>1. m \in Items
    BY <1>1, MessagesAre DEF IsItem
  <2> QED BY <1>1, <2>1, ItemsAre
<1>2. CASE m.type = "EVENT"
  <2>1. m \in Items
    BY <1>2, MessagesAre DEF IsItem
  <2>2. m \notin DataType /\ m \notin ControlType
    BY <1>2 DEF DataType, ControlType
  <2>3. m \in EventType
    BY <2>1, <2>2 DEF Items
  <2> QED BY <1>2, <2>3 DEF EventType
<1> QED BY <1>1, <1>2

LEMMA UnitsStay ==
    ASSUME NEW p \in Place, NEW u \in Seq(UnitType)
    PROVE  UnitsAfter(p, u) \in Place
<1>1. ASSUME NEW v \in Place, NEW i \in 1 .. Len(u) PROVE UnitAfter(v, u[i]) \in Place
  <2>1. u[i].p \in Nat
    BY UnitIs
  <2>2. u[i].p + 1 \in Nat
    BY <2>1
  <2> QED BY <2>2 DEF UnitAfter, Place, Broken
<1> QED BY <1>1, UnitsAre, UnitsFold!FoldWithin

LEMMA AfterPlace ==
    ASSUME NEW d, NEW p \in Place, NEW m \in Messages
    PROVE  After(d, p, m) \in Place
<1>1. CASE m.type = "DATA"
  <2>1. m.data \in Seq(UnitType)
    BY <1>1, StreamItemIs
  <2> QED BY <1>1, <2>1, UnitsStay DEF After, UnitsAfter
<1>2. CASE m.type = "EVENT"
  <2>1. m.bytes \in Nat
    BY <1>2, StreamItemIs
  <2>2. p \notin {Unknown, Skipped, Broken} => p + m.bytes \in Place
    <3>1. p \notin {Unknown, Skipped, Broken} => p \in Nat
      BY DEF Place
    <3> QED BY <2>1, <3>1 DEF Place
  <2> QED BY <1>2, <2>2 DEF After, Place
<1>3. CASE m.type \notin {"DATA", "EVENT"}
  BY <1>3 DEF After
<1> QED BY <1>1, <1>2, <1>3

LEMMA ItemPlaces ==
    ASSUME NEW at \in Places, NEW m \in Messages
    PROVE  /\ AfterItem(at, m) \in Places
           /\ \A d \in Dcs : AfterItem(at, m)[d] = After(d, at[d], m) /\ at[d] \in Place
BY AfterPlace DEF AfterItem, Places

LEMMA AllPlaces ==
    ASSUME NEW at \in Places, NEW ms \in Seq(Messages)
    PROVE  AfterAll(at, ms) \in Places
<1>1. ASSUME NEW v \in Places, NEW i \in 1 .. Len(ms) PROVE AfterItem(v, ms[i]) \in Places
  BY ItemPlaces
<1> QED BY <1>1, AfterAllIs, AfterFold!FoldWithin

LEMMA AfterNone == \A at : AfterAll(at, <<>>) = at
BY AfterAllIs, AfterFold!FoldEmpty

LEMMA AfterAppend ==
    ASSUME NEW at, NEW ms \in Seq(Messages), NEW m \in Messages
    PROVE  AfterAll(at, Append(ms, m)) = AfterItem(AfterAll(at, ms), m)
BY AfterAllIs, AfterFold!FoldAppend

LEMMA AfterConcat ==
    ASSUME NEW at, NEW ms \in Seq(Messages), NEW ns \in Seq(Messages)
    PROVE  AfterAll(at, ms \o ns) = AfterAll(AfterAll(at, ms), ns)
BY AfterAllIs, AfterFold!FoldConcat

\* What is no item leaves the streams where they are.
LEMMA AnswerStays ==
    ASSUME NEW at \in Places, NEW m, ~IsItem(m)
    PROVE  AfterItem(at, m) = at
<1>1. m.type \notin {"DATA", "EVENT"}
  BY DEF IsItem
<1>2. \A d \in Dcs : After(d, at[d], m) = at[d]
  BY <1>1 DEF After
<1> QED BY <1>2 DEF AfterItem, Places

Itemless(ms) == \A i \in DOMAIN ms : ~IsItem(ms[i])

LEMMA AnswersStay ==
    ASSUME NEW at \in Places, NEW ms \in Seq(Messages), Itemless(ms)
    PROVE  AfterAll(at, ms) = at
<1> DEFINE S == {at}
<1>1. ASSUME NEW v \in S, NEW i \in 1 .. Len(ms) PROVE AfterItem(v, ms[i]) \in S
  <2>1. v = at /\ ~IsItem(ms[i])
    BY DEF Itemless
  <2> QED BY <2>1, AnswerStays
<1>2. at \in S
  OBVIOUS
<1> HIDE DEF S
<1>3. AfterFold!Fold(at, ms) \in S
  BY <1>1, <1>2, AfterFold!FoldWithin
<1> QED BY <1>3, AfterAllIs DEF S

\* Units that follow one another from v on.
Run(u, v) == \A i \in 1 .. Len(u) : u[i].p = v + i - 1

LEMMA UnitsRun ==
    ASSUME NEW u \in Seq(UnitType), NEW v \in Int, Run(u, v), NEW x \in {v, Unknown, Skipped}
    PROVE  UnitsAfter(x, u) = IF u = <<>> THEN x ELSE v + Len(u)
<1> DEFINE n == Len(u)
<1>1. n \in Nat /\ DOMAIN u = 1 .. n /\ (u = <<>> <=> n = 0)
  OBVIOUS
<1>2. \A i \in 1 .. n : u[i].p = v + i - 1
  BY DEF Run
<1> HIDE DEF n
<1>3. PICK t : UnitsFold!Chain(t, x, u, n) /\ UnitsFold!Fold(x, u) = t[n]
  BY <1>1, UnitsFold!FoldChain
<1>4. t[0] = x /\ \A i \in 1 .. n : t[i] = UnitAfter(t[i - 1], u[i])
  BY <1>3 DEF UnitsFold!Chain
<1> DEFINE T == {i \in Nat : i < n => t[i + 1] = v + (i + 1)}
<1>5. 0 \in T
  <2> SUFFICES ASSUME 0 < n PROVE t[1] = v + 1
    OBVIOUS
  <2>1. 1 \in 1 .. n /\ 1 - 1 = 0
    BY <1>1
  <2>2. t[1] = UnitAfter(x, u[1]) /\ u[1].p = v + 1 - 1
    BY <1>2, <1>4, <2>1
  <2>3. u[1].p = v
    BY <2>2
  <2> QED BY <2>2, <2>3 DEF UnitAfter
<1>6. ASSUME NEW i \in T PROVE i + 1 \in T
  <2> SUFFICES ASSUME i + 1 < n PROVE t[(i + 1) + 1] = v + ((i + 1) + 1)
    OBVIOUS
  <2>1. i \in Nat /\ (i + 1) + 1 \in 1 .. n /\ ((i + 1) + 1) - 1 = i + 1 /\ i < n
    BY <1>1
  <2>2. t[i + 1] = v + (i + 1)
    BY <2>1
  <2>3. u[(i + 1) + 1].p = v + (i + 1)
    BY <1>2, <2>1
  <2>4. t[(i + 1) + 1] = UnitAfter(t[i + 1], u[(i + 1) + 1])
    BY <1>4, <2>1
  <2> HIDE DEF T
  <2>5. t[(i + 1) + 1] = (v + (i + 1)) + 1
    BY <2>2, <2>3, <2>4 DEF UnitAfter
  <2> QED BY <2>1, <2>5
<1> HIDE DEF T
<1>7. \A i \in Nat : i \in T
  BY <1>5, <1>6, InductiveSet DEF T
<1>8. CASE n = 0
  BY <1>1, <1>3, <1>4, <1>8, UnitsAre
<1>9. CASE n # 0
  <2>1. n - 1 \in Nat /\ n - 1 < n /\ (n - 1) + 1 = n
    BY <1>1, <1>9
  <2>2. t[n] = v + n
    BY <1>7, <2>1 DEF T
  <2> QED BY <1>1, <1>3, <1>9, <2>2, UnitsAre DEF n
<1> QED BY <1>8, <1>9

-----------------------------------------------------------------------------
(* What enqueue() keeps of a stream: items, or units that are owed. *)

\* A stream is at a, n units are owed of it, and e is where it ends.
Owes(a, n, e) == a # Broken /\ (a \notin {Unknown, Skipped} => a + n = e)

\* Where the streams are at the end of q's queue, from at.
Where(at, q) == AfterAll(at, q.out)

LEMMA DataOwes ==
    ASSUME NEW m \in DataType, NEW v \in Int, Run(m.data, v), NEW a \in Place, Owes(a, 0, v)
    PROVE  Owes(After(m.ch, a, m), 0, v + Len(m.data))
<1> DEFINE u == m.data
<1>1. m.type = "DATA" /\ u \in Seq(UnitType)
  BY DEF DataType
<1>2. After(m.ch, a, m) = UnitsAfter(a, u)
  BY <1>1 DEF After, UnitsAfter
<1>3. Len(u) \in Nat /\ (u # <<>> => 1 \in 1 .. Len(u)) /\ (u = <<>> => Len(u) = 0)
  BY <1>1
<1>4. Run(u, v)
  OBVIOUS
<1> HIDE DEF u
<1>5. a \in {v, Unknown, Skipped}
  <2>1. a \notin {Unknown, Skipped} => a \in Nat /\ a + 0 = v
    BY DEF Owes, Place
  <2> QED BY <2>1
<1>6. UnitsAfter(a, u) = IF u = <<>> THEN a ELSE v + Len(u)
  BY <1>1, <1>4, <1>5, UnitsRun
<1>7. CASE u = <<>>
  BY <1>2, <1>3, <1>6, <1>7 DEF Owes, u
<1>8. CASE u # <<>>
  <2>1. u[1].p = v + 1 - 1 /\ u[1].p \in Nat
    BY <1>1, <1>3, <1>4, <1>8, UnitIs DEF Run
  <2>2. v + Len(u) \in Nat
    BY <1>3, <2>1
  <2>3. After(m.ch, a, m) = v + Len(u)
    BY <1>2, <1>6, <1>8
  <2> QED BY <2>2, <2>3 DEF Owes, Broken, u
<1> QED BY <1>7, <1>8

\* The link's own overflow event.
OwnEvent(c, n, k) == Overflow(c, n, k, TRUE)

LEMMA EventOwes ==
    ASSUME NEW c, NEW n \in Nat \ {0}, NEW k, NEW v \in Int, NEW a \in Place, Owes(a, n, v)
    PROVE  Owes(After(c, a, OwnEvent(c, n, k)), 0, v)
<1> DEFINE b == After(c, a, OwnEvent(c, n, k))
<1>1. b = IF a \in {Unknown, Skipped} THEN Skipped ELSE a + n
  BY DEF After, Overflow, Owes, OwnEvent
<1> HIDE DEF b
<1> SUFFICES Owes(b, 0, v)
  BY DEF b
<1>2. CASE a \in {Unknown, Skipped}
  BY <1>1, <1>2 DEF Owes, Skipped, Broken, Unknown
<1>3. CASE a \notin {Unknown, Skipped}
  <2>1. a \in Nat /\ a + n = v
    BY <1>3 DEF Owes, Place
  <2> QED BY <1>1, <1>3, <2>1 DEF Owes, Broken
<1> QED BY <1>2, <1>3

\* An event of another data channel, or one that announces nothing of it.
LEMMA EventLeaves ==
    ASSUME NEW d, NEW c, NEW n, NEW k, NEW a, c # d \/ n = 0
    PROVE  After(d, a, OwnEvent(c, n, k)) = a
BY DEF After, Overflow, OwnEvent

\* enqueue()'s three outcomes: the item is counted, queued, or queued behind an overflow
\* event.
LEMMA EnqueueOuts ==
    ASSUME NEW q \in ForwardType, NEW m \in Items
    PROVE  /\ q.out \in Seq(Messages) /\ m \in Messages /\ Announcement(q.cl, m) \in Messages
           /\ \/ Enqueue(q, m).cl = CountDrop(q.cl, m) /\ Enqueue(q, m).out = q.out
              \/ /\ ~Announces(q.cl, m) /\ Enqueue(q, m).cl = q.cl
                 /\ Enqueue(q, m).out = Append(q.out, m)
              \/ /\ Announces(q.cl, m) /\ Enqueue(q, m).cl = Told(q.cl, m)
                 /\ Enqueue(q, m).out = Append(Append(q.out, Announcement(q.cl, m)), m)
<1> DEFINE a == Announcement(q.cl, m)
<1> DEFINE o == q.out
<1>1. q.cl \in ClientType /\ o \in Seq(Messages) /\ m \in Messages /\ a \in Messages
  BY AnnouncementIs DEF ForwardType, Messages
<1>2. CASE QueuedUnits(q.out) + Units(m) > QueueMax
  <2>1. Enqueue(q, m) = [q EXCEPT !.cl = CountDrop(q.cl, m)]
    BY <1>2 DEF Enqueue
  <2>2. Enqueue(q, m).cl = CountDrop(q.cl, m) /\ Enqueue(q, m).out = q.out
    BY <2>1 DEF ForwardType
  <2> QED BY <1>1, <2>2
<1>3. CASE ~(QueuedUnits(q.out) + Units(m) > QueueMax) /\ ~Announces(q.cl, m)
  <2>1. Enqueue(q, m) = [q EXCEPT !.out = Append(q.out, m)]
    BY <1>3 DEF Enqueue
  <2>2. Enqueue(q, m).cl = q.cl /\ Enqueue(q, m).out = Append(q.out, m)
    BY <2>1 DEF ForwardType
  <2> QED BY <1>1, <1>3, <2>2
<1>4. CASE ~(QueuedUnits(q.out) + Units(m) > QueueMax) /\ Announces(q.cl, m)
  <2>1. Enqueue(q, m) = [q EXCEPT !.cl = Told(q.cl, m), !.out = o \o <<a, m>>]
    BY <1>4 DEF Enqueue
  <2>2. Enqueue(q, m).cl = Told(q.cl, m) /\ Enqueue(q, m).out = o \o <<a, m>>
    BY <2>1 DEF ForwardType
  <2> HIDE DEF a, o
  <2>3. o \o <<a, m>> = Append(Append(o, a), m)
    BY <1>1
  <2> QED BY <1>1, <1>4, <2>2, <2>3 DEF a, o
<1> QED BY <1>2, <1>3, <1>4

\* enqueue()'s three outcomes, as the client and the places its queue leaves.
LEMMA EnqueueCases ==
    ASSUME NEW at \in Places, NEW q \in ForwardType, NEW m \in Items
    PROVE  \/ /\ Enqueue(q, m).cl = CountDrop(q.cl, m)
              /\ Where(at, Enqueue(q, m)) = Where(at, q)
           \/ /\ ~Announces(q.cl, m) /\ Enqueue(q, m).cl = q.cl
              /\ Where(at, Enqueue(q, m)) = AfterItem(Where(at, q), m)
           \/ /\ Announces(q.cl, m) /\ Enqueue(q, m).cl = Told(q.cl, m)
              /\ Where(at, Enqueue(q, m))
                     = AfterItem(AfterItem(Where(at, q), Announcement(q.cl, m)), m)
<1> DEFINE o == q.out
<1> DEFINE a == Announcement(q.cl, m)
<1>1. o \in Seq(Messages) /\ m \in Messages /\ a \in Messages
  BY EnqueueOuts
<1> HIDE DEF o, a
<1>2. Append(o, a) \in Seq(Messages)
  BY <1>1
<1>3. /\ AfterAll(at, Append(o, m)) = AfterItem(AfterAll(at, o), m)
      /\ AfterAll(at, Append(o, a)) = AfterItem(AfterAll(at, o), a)
      /\ AfterAll(at, Append(Append(o, a), m)) = AfterItem(AfterAll(at, Append(o, a)), m)
  BY <1>1, <1>2, AfterAppend
<1> QED BY <1>3, EnqueueOuts DEF Where, o, a

\* What one channel's item leaves of the others.
Leaves(at, q, r, d) ==
    Where(at, r)[d] = Where(at, q)[d] /\ r.cl.dropped[d] = q.cl.dropped[d]

LEMMA WhereIs ==
    ASSUME NEW at \in Places, NEW q \in ForwardType
    PROVE  Where(at, q) \in Places /\ \A d \in Dcs : Where(at, q)[d] \in Place
                                                     /\ q.cl.dropped[d] \in Nat
<1>1. q.out \in Seq(Messages) /\ q.cl.dropped \in Counts
  BY ClientFields DEF ForwardType
<1>2. Where(at, q) \in Places
  BY <1>1, AllPlaces DEF Where
<1> QED BY <1>1, <1>2 DEF Places, Counts

LEMMA EnqueueOwes ==
    ASSUME NEW at \in Places, NEW q \in ForwardType, NEW m \in DataType, NEW v \in Int,
           Run(m.data, v)
    PROVE  /\ Owes(Where(at, q)[m.ch], q.cl.dropped[m.ch], v) =>
                  Owes(Where(at, Enqueue(q, m))[m.ch], Enqueue(q, m).cl.dropped[m.ch],
                       v + Len(m.data))
           /\ \A d \in Dcs \ {m.ch} : Leaves(at, q, Enqueue(q, m), d)
<1> DEFINE w == Where(at, q)
<1> DEFINE r == Enqueue(q, m)
<1> DEFINE z == Where(at, r)
<1> DEFINE c == m.ch
<1> DEFINE n == q.cl.dropped[c]
<1>1. m \in Items /\ m \in Messages /\ m.type = "DATA" /\ c \in Dcs /\ Len(m.data) \in Nat
  BY DEF DataType, Items, Messages
<1>2. q.cl \in ClientType /\ q.cl.dropped \in Counts /\ n \in Nat
  BY <1>1, ClientFields DEF ForwardType, Counts
<1>3. w \in Places /\ \A d \in Dcs : w[d] \in Place
  BY WhereIs
<1>4. \A d \in Dcs \ {c} : \A a : After(d, a, m) = a
  BY <1>1 DEF After
<1>5. Announces(q.cl, m) <=> n > 0
  BY <1>1 DEF Announces
<1> DEFINE Goal == /\ Owes(w[c], n, v) => Owes(z[c], r.cl.dropped[c], v + Len(m.data))
                   /\ \A d \in Dcs \ {c} : z[d] = w[d] /\ r.cl.dropped[d] = q.cl.dropped[d]
<1>6. SUFFICES Goal
  BY DEF Leaves
<1>7. CASE r.cl = CountDrop(q.cl, m) /\ z = w
  <2>1. r.cl.dropped = [q.cl.dropped EXCEPT ![c] = @ + Len(m.data)]
    BY <1>1, <1>2, <1>7 DEF CountDrop, ClientType
  <2>2. r.cl.dropped[c] = n + Len(m.data)
        /\ \A d \in Dcs \ {c} : r.cl.dropped[d] = q.cl.dropped[d]
    BY <1>1, <1>2, <2>1 DEF Counts
  <2> HIDE DEF w, z, r, n
  <2>3. ASSUME Owes(w[c], n, v) PROVE Owes(w[c], n + Len(m.data), v + Len(m.data))
    <3>1. w[c] \notin {Unknown, Skipped} => w[c] \in Nat /\ w[c] + n = v
      BY <1>1, <1>3, <2>3 DEF Owes, Place
    <3> QED BY <1>1, <1>2, <2>3, <3>1 DEF Owes
  <2> QED BY <1>7, <2>2, <2>3
<1>8. CASE ~Announces(q.cl, m) /\ r.cl = q.cl /\ z = AfterItem(w, m)
  <2>1. n = 0
    BY <1>2, <1>5, <1>8
  <2>2. \A d \in Dcs : z[d] = After(d, w[d], m)
    BY <1>1, <1>3, <1>8, ItemPlaces
  <2> HIDE DEF w, z, r
  <2>3. Owes(w[c], 0, v) => Owes(z[c], 0, v + Len(m.data))
    BY <1>1, <1>3, <2>2, DataOwes
  <2> QED BY <1>4, <1>8, <2>1, <2>2, <2>3
<1>9. CASE /\ Announces(q.cl, m) /\ r.cl = Told(q.cl, m)
           /\ z = AfterItem(AfterItem(w, Announcement(q.cl, m)), m)
  <2> DEFINE a == Announcement(q.cl, m)
  <2>1. a = OwnEvent(c, n, q.cl.droppedCtl) /\ a \in Messages
    BY <1>1, <1>2, AnnouncementIs DEF Announcement, Owed, Messages, OwnEvent
  <2>2. n \in Nat \ {0}
    BY <1>2, <1>5, <1>9
  <2>3. r.cl.dropped = [q.cl.dropped EXCEPT ![c] = 0]
    BY <1>1, <1>2, <1>9 DEF Told, ClientType
  <2>4. r.cl.dropped[c] = 0 /\ \A d \in Dcs \ {c} : r.cl.dropped[d] = q.cl.dropped[d]
    BY <1>1, <1>2, <2>3 DEF Counts
  <2> HIDE DEF a, w, r, n
  <2> DEFINE y == AfterItem(w, a)
  <2>5. y \in Places /\ \A d \in Dcs : y[d] = After(d, w[d], a) /\ y[d] \in Place
    BY <1>3, <2>1, ItemPlaces DEF Places
  <2>6. z = AfterItem(y, m)
    BY <1>9 DEF a
  <2> HIDE DEF y, z
  <2>7. \A d \in Dcs : z[d] = After(d, y[d], m)
    BY <1>1, <2>5, <2>6, ItemPlaces
  <2>8. \A d \in Dcs \ {c} : y[d] = w[d]
    BY <2>1, <2>5, EventLeaves
  <2>9. Owes(w[c], n, v) => Owes(y[c], 0, v)
    BY <1>1, <1>3, <2>1, <2>2, <2>5, EventOwes
  <2>10. Owes(y[c], 0, v) => Owes(z[c], 0, v + Len(m.data))
    BY <1>1, <2>5, <2>7, DataOwes
  <2> QED BY <1>4, <2>4, <2>7, <2>8, <2>9, <2>10
<1>10. \/ r.cl = CountDrop(q.cl, m) /\ z = w
       \/ ~Announces(q.cl, m) /\ r.cl = q.cl /\ z = AfterItem(w, m)
       \/ /\ Announces(q.cl, m) /\ r.cl = Told(q.cl, m)
          /\ z = AfterItem(AfterItem(w, Announcement(q.cl, m)), m)
  BY <1>1, EnqueueCases
<1> HIDE DEF Goal
<1> QED BY <1>7, <1>8, <1>9, <1>10

LEMMA EnqueueLeaves ==
    ASSUME NEW at \in Places, NEW q \in ForwardType, NEW m \in ControlType
    PROVE  \A d \in Dcs : Leaves(at, q, Enqueue(q, m), d)
<1> DEFINE w == Where(at, q)
<1> DEFINE r == Enqueue(q, m)
<1> DEFINE z == Where(at, r)
<1> DEFINE a == Announcement(q.cl, m)
<1>1. m \in Items /\ m \in Messages /\ m.type = "CONTROL"
  BY DEF ControlType, Items, Messages
<1>2. q.cl \in ClientType
  BY DEF ForwardType
<1>3. w \in Places
  BY WhereIs
<1>4. \A d \in Dcs : \A p : After(d, p, m) = p
  BY <1>1 DEF After
<1>5. CountDrop(q.cl, m).dropped = q.cl.dropped /\ Told(q.cl, m).dropped = q.cl.dropped
  BY <1>1, <1>2 DEF CountDrop, Told, ClientType
<1>6. a = OwnEvent(0, 0, q.cl.droppedCtl) /\ a \in Messages
  BY <1>1, <1>2, AnnouncementIs DEF Announcement, Owed, Messages, OwnEvent
<1>7. \/ r.cl = CountDrop(q.cl, m) /\ z = w
      \/ r.cl = q.cl /\ z = AfterItem(w, m)
      \/ r.cl = Told(q.cl, m) /\ z = AfterItem(AfterItem(w, a), m)
  BY <1>1, EnqueueCases
<1> HIDE DEF a, w, r, z
<1>8. AfterItem(w, m) = w
  BY <1>3, <1>4 DEF AfterItem, Places
<1>9. AfterItem(w, a) = w
  <2>1. \A d \in Dcs : \A p : After(d, p, a) = p
    BY <1>6, EventLeaves
  <2> QED BY <1>3, <2>1 DEF AfterItem, Places
<1>10. r.cl.dropped = q.cl.dropped /\ z = w
  BY <1>5, <1>7, <1>8, <1>9
<1> QED BY <1>10 DEF Leaves, r, w, z

-----------------------------------------------------------------------------
(* The course of a pull: its items carry every stream on, unit by unit. *)

Moves(x, m, y) ==
    \/ m \in ControlType /\ y = x
    \/ m \in DataType /\ Run(m.data, x[m.ch]) /\ y = [x EXCEPT ![m.ch] = @ + Len(m.data)]

\* t has where the streams are after each of the items.
Legs(t, x, ms, y) ==
    /\ t \in [0 .. Len(ms) -> Counts]
    /\ t[0] = x /\ t[Len(ms)] = y
    /\ \A i \in 1 .. Len(ms) : Moves(t[i - 1], ms[i], t[i])

Course(x, ms, y) == \E t : Legs(t, x, ms, y)

LEMMA CourseStart ==
    ASSUME NEW x \in Counts
    PROVE  Course(x, <<>>, x)
<1> DEFINE t == [i \in 0 .. 0 |-> x]
<1>1. Len(<<>>) = 0
  OBVIOUS
<1>2. Legs(t, x, <<>>, x)
  BY <1>1 DEF Legs
<1> QED BY <1>2 DEF Course

LEMMA CourseMore ==
    ASSUME NEW x, NEW y, NEW ms \in Seq(Items), NEW m \in Items, NEW z \in Counts,
           Course(x, ms, y), Moves(y, m, z)
    PROVE  Course(x, Append(ms, m), z)
<1> DEFINE n == Len(ms)
<1> DEFINE a == Append(ms, m)
<1>1. n \in Nat /\ Len(a) = n + 1 /\ a[n + 1] = m /\ \A i \in 1 .. n : a[i] = ms[i]
  OBVIOUS
<1>2. PICK t : Legs(t, x, ms, y)
  BY DEF Course
<1>3. /\ t \in [0 .. n -> Counts] /\ t[0] = x /\ t[n] = y
      /\ \A i \in 1 .. n : Moves(t[i - 1], ms[i], t[i])
  BY <1>2 DEF Legs
<1> HIDE DEF n, a
<1> DEFINE u == [i \in 0 .. n + 1 |-> IF i = n + 1 THEN z ELSE t[i]]
<1>4. u \in [0 .. n + 1 -> Counts] /\ u[0] = x /\ u[n + 1] = z /\ \A i \in 0 .. n : u[i] = t[i]
  BY <1>1, <1>3
<1> HIDE DEF u
<1>5. ASSUME NEW i \in 1 .. n + 1 PROVE Moves(u[i - 1], a[i], u[i])
  <2>1. CASE i = n + 1
    <3>1. u[i - 1] = y /\ a[i] = m /\ u[i] = z
      BY <1>1, <1>3, <1>4, <2>1
    <3> QED BY <3>1
  <2>2. CASE i # n + 1
    <3>1. i \in 1 .. n /\ i - 1 \in 0 .. n /\ i \in 0 .. n
      BY <1>1, <2>2
    <3>2. u[i - 1] = t[i - 1] /\ a[i] = ms[i] /\ u[i] = t[i]
      BY <1>1, <1>4, <3>1
    <3> QED BY <1>3, <3>1, <3>2
  <2> QED BY <2>1, <2>2
<1>6. Legs(u, x, a, z)
  BY <1>1, <1>4, <1>5 DEF Legs
<1> QED BY <1>6 DEF Course, a

\* Where the device's streams are.
Posns(v) == [d \in Dcs |-> v.stream[d].pos]

\* Every tail is the last of its stream.
Tails(tl, v) == \A d \in Dcs : Run(tl[d], v.stream[d].pos - Len(tl[d]))

LEMMA PosnsAre ==
    ASSUME NEW v \in DevType
    PROVE  Posns(v) \in Counts /\ \A d \in Dcs : Posns(v)[d] = v.stream[d].pos
BY DevParts DEF Posns, Counts

LEMMA RunMore ==
    ASSUME NEW u \in Seq(UnitType), NEW e \in Nat, Run(u, e - Len(u)),
           NEW x \in UnitType, x.p = e
    PROVE  Run(Append(u, x), (e + 1) - Len(Append(u, x)))
<1> DEFINE n == Len(u)
<1> DEFINE a == Append(u, x)
<1>1. n \in Nat /\ Len(a) = n + 1 /\ a[n + 1] = x /\ \A i \in 1 .. n : a[i] = u[i]
  OBVIOUS
<1>2. \A i \in 1 .. n : u[i].p = (e - n) + i - 1
  BY DEF Run
<1> HIDE DEF n, a
<1>3. ASSUME NEW i \in 1 .. n + 1 PROVE a[i].p = ((e + 1) - (n + 1)) + i - 1
  <2>1. CASE i = n + 1
    <3>1. a[i] = x
      BY <1>1, <2>1
    <3>2. ((e + 1) - (n + 1)) + i - 1 = e
      BY <1>1, <2>1
    <3> QED BY <3>1, <3>2
  <2>2. CASE i # n + 1
    <3>1. i \in 1 .. n
      BY <1>1, <2>2
    <3>2. a[i].p = (e - n) + i - 1
      BY <1>1, <1>2, <3>1
    <3> QED BY <1>1, <3>1, <3>2
  <2> QED BY <2>1, <2>2
<1>4. Run(a, (e + 1) - (n + 1))
  BY <1>1, <1>3 DEF Run
<1> QED BY <1>1, <1>4 DEF a

\* The last units of a run are a run.
LEMMA RunRest ==
    ASSUME NEW u \in Seq(UnitType), NEW e \in Nat, Run(u, e - Len(u)), NEW k \in Nat \ {0}
    PROVE  /\ SubSeq(u, k, Len(u)) \in Seq(UnitType)
           /\ Run(SubSeq(u, k, Len(u)), e - Len(SubSeq(u, k, Len(u))))
<1> DEFINE n == Len(u)
<1> DEFINE s == SubSeq(u, k, n)
<1>1. /\ n \in Nat /\ s \in Seq(UnitType)
      /\ Len(s) = IF k <= n THEN n - k + 1 ELSE 0
      /\ \A i \in 1 .. Len(s) : s[i] = u[k + i - 1]
  OBVIOUS
<1>2. \A i \in 1 .. n : u[i].p = (e - n) + i - 1
  BY DEF Run
<1> HIDE DEF n, s
<1>3. ASSUME NEW i \in 1 .. Len(s) PROVE s[i].p = (e - Len(s)) + i - 1
  <2>1. k <= n /\ Len(s) = n - k + 1
    BY <1>1
  <2>2. k + i - 1 \in 1 .. n
    BY <1>1, <2>1
  <2>3. s[i].p = (e - n) + (k + i - 1) - 1
    BY <1>1, <1>2, <2>2
  <2> QED BY <1>1, <2>1, <2>3
<1>4. Run(s, e - Len(s))
  BY <1>3 DEF Run
<1> QED BY <1>1, <1>4 DEF s, n

\* One unit of channel d, and the stream's state after it.
Unit(p, d, hb) == [p |-> p.dev.stream[d].pos, hb |-> hb]
Further(s, hb) == [pos |-> s.pos + 1, half |-> hb, grid |-> IF hb > 0 THEN hb ELSE s.grid]

TeeGives(p, d, hb, r) ==
    /\ Unit(p, d, hb) \in UnitType
    /\ r.taken = Append(p.taken, Data(d, <<Unit(p, d, hb)>>))
    /\ r.tail = [p.tail EXCEPT ![d] = Append(p.tail[d], Unit(p, d, hb))]
    /\ r.pos = [p.pos EXCEPT ![d] = p.pos[d] + 1]
    /\ r.seen = p.seen
    /\ r.dev.stream = [p.dev.stream EXCEPT ![d] = Further(p.dev.stream[d], hb)]

LEMMA TeeDataDoes ==
    ASSUME NEW p \in PullType, NEW d \in Dcs, NEW hb \in Nat
    PROVE  TeeGives(p, d, hb, TeeData(p, d, hb))
<1> DEFINE r == TeeData(p, d, hb)
<1> DEFINE next == Further(p.dev.stream[d], hb)
<1> DEFINE v == [p.dev EXCEPT !.stream = [p.dev.stream EXCEPT ![d] = next]]
<1> DEFINE t == Append(p.taken, Data(d, <<Unit(p, d, hb)>>))
<1> DEFINE ps == [p.pos EXCEPT ![d] = p.pos[d] + 1]
<1> DEFINE tl == [p.tail EXCEPT ![d] = Append(p.tail[d], Unit(p, d, hb))]
<1>1. p.dev \in DevType /\ Unit(p, d, hb) \in UnitType
  BY PullParts, DevParts DEF Unit, UnitType
<1>2. r = [p EXCEPT !.dev = v, !.taken = t, !.pos = ps, !.tail = tl]
  BY <1>1 DEF TeeData, Unit, Further, PullType, DevType
<1> HIDE DEF next
<1>3. v.stream = [p.dev.stream EXCEPT ![d] = next]
  BY <1>1 DEF DevType
<1> HIDE DEF v, t, ps, tl
<1>4. r.dev = v /\ r.taken = t /\ r.pos = ps /\ r.tail = tl /\ r.seen = p.seen
  BY <1>2 DEF PullType
<1> HIDE DEF r
<1>5. TeeGives(p, d, hb, r)
  BY <1>1, <1>3, <1>4 DEF t, ps, tl, next, TeeGives
<1> QED BY <1>5 DEF r

\* A pull that carries the streams on, with their tails.
Carries(p) == Course(Posns(dev), p.taken, Posns(p.dev)) /\ Tails(p.tail, p.dev)

LEMMA TeeDataCarries ==
    ASSUME NEW p \in PullType, Carries(p), NEW d \in Dcs, NEW hb \in Nat, NEW r \in PullType,
           NEW s, s = TeeData(p, d, hb), r.taken = s.taken, r.tail = s.tail, r.dev = s.dev
    PROVE  Carries(r)
<1> DEFINE u == Unit(p, d, hb)
<1> DEFINE e == p.dev.stream[d].pos
<1>1. /\ u \in UnitType /\ s.taken = Append(p.taken, Data(d, <<u>>))
      /\ s.tail = [p.tail EXCEPT ![d] = Append(p.tail[d], u)]
      /\ s.dev.stream = [p.dev.stream EXCEPT ![d] = Further(p.dev.stream[d], hb)]
  <2>1. TeeGives(p, d, hb, s)
    BY TeeDataDoes
  <2> QED BY <2>1 DEF TeeGives
<1>2. u.p = e
  BY DEF Unit
<1>3. e \in Nat /\ p.dev \in DevType /\ p.tail \in [Dcs -> Seq(UnitType)]
      /\ p.taken \in Seq(Items) /\ r.dev \in DevType /\ p.dev.stream \in [Dcs -> StreamType]
  BY PullParts, DevParts
<1> HIDE DEF u
<1>4. r.dev.stream[d].pos = e + 1 /\ \A c \in Dcs \ {d} : r.dev.stream[c] = p.dev.stream[c]
  BY <1>1, <1>3 DEF Further
<1>5. Posns(r.dev) = [Posns(p.dev) EXCEPT ![d] = @ + 1]
  <2>1. Posns(p.dev) \in Counts /\ Posns(r.dev) \in Counts
    BY <1>3, PosnsAre
  <2>2. Posns(r.dev)[d] = Posns(p.dev)[d] + 1
    BY <1>3, <1>4, PosnsAre
  <2>3. ASSUME NEW c \in Dcs \ {d} PROVE Posns(r.dev)[c] = Posns(p.dev)[c]
    <3>1. c \in Dcs /\ r.dev.stream[c] = p.dev.stream[c]
      BY <1>4
    <3> QED BY <1>3, <3>1, PosnsAre
  <2> QED BY <2>1, <2>2, <2>3 DEF Counts
<1> DEFINE m == Data(d, <<u>>)
<1>6. <<u>> \in Seq(UnitType) /\ Len(<<u>>) = 1
  BY <1>1
<1>7. m \in DataType /\ m \in Items /\ m.ch = d /\ m.data = <<u>>
  BY <1>6, DataIs DEF Data
<1> HIDE DEF m
<1>8. Run(m.data, Posns(p.dev)[d])
  <2>1. Posns(p.dev)[d] = e
    BY <1>3, PosnsAre
  <2>2. \A i \in 1 .. 1 : <<u>>[i].p = e + i - 1
    BY <1>2, <1>3
  <2> QED BY <1>6, <1>7, <2>1, <2>2 DEF Run
<1>9. Moves(Posns(p.dev), m, Posns(r.dev))
  BY <1>5, <1>6, <1>7, <1>8 DEF Moves
<1>10. Course(Posns(dev), Append(p.taken, m), Posns(r.dev))
  <2>1. Posns(r.dev) \in Counts /\ Course(Posns(dev), p.taken, Posns(p.dev))
    BY <1>3, PosnsAre DEF Carries
  <2> QED BY <1>3, <1>7, <1>9, <2>1, CourseMore
<1>11. ASSUME NEW c \in Dcs PROVE Run(r.tail[c], r.dev.stream[c].pos - Len(r.tail[c]))
  <2>1. Run(p.tail[c], p.dev.stream[c].pos - Len(p.tail[c]))
    BY DEF Carries, Tails
  <2>2. CASE c = d
    <3>1. r.tail[c] = Append(p.tail[d], u)
      BY <1>1, <1>3, <2>2
    <3>2. p.tail[d] \in Seq(UnitType)
      BY <1>3
    <3>3. Run(Append(p.tail[d], u), (e + 1) - Len(Append(p.tail[d], u)))
      BY <1>1, <1>2, <1>3, <2>1, <2>2, <3>2, RunMore
    <3> QED BY <1>4, <2>2, <3>1, <3>3
  <2>3. CASE c # d
    <3>1. r.tail[c] = p.tail[c]
      BY <1>1, <1>3, <2>3
    <3> QED BY <1>4, <2>1, <2>3, <3>1
  <2> QED BY <2>2, <2>3
<1>12. r.taken = Append(p.taken, m)
  BY <1>1 DEF m
<1> QED BY <1>10, <1>11, <1>12 DEF Carries, Tails

LEMMA DataCarries ==
    ASSUME NEW p \in PullType, Carries(p), NEW d \in Dcs, NEW hb \in Nat
    PROVE  Carries(TeeData(p, d, hb))
<1> DEFINE s == TeeData(p, d, hb)
<1>1. s \in PullType
  BY TeeDataIs DEF ReadsOn
<1> HIDE DEF s
<1>2. s = TeeData(p, d, hb) => Carries(s)
  BY <1>1, TeeDataCarries
<1> QED BY <1>2 DEF s

LEMMA HeartbeatCarries ==
    ASSUME NEW p \in PullType, Carries(p), NEW d \in Dcs
    PROVE  Carries(TeeHeartbeat(p, d))
<1> DEFINE s == TeeData(p, d, 0)
<1> DEFINE r == TeeHeartbeat(p, d)
<1>1. s \in PullType /\ r \in PullType
  BY TeeDataIs, TeeHeartbeatIs DEF ReadsOn
<1>2. r.taken = s.taken /\ r.tail = s.tail /\ r.dev = s.dev
  <2> DEFINE z == s
  <2>1. r = [z EXCEPT !.lastGrid = [z.lastGrid EXCEPT ![d] = p.dev.stream[d].half],
                      !.seen = Append(z.seen, [dc |-> d, grid |-> p.dev.stream[d].half,
                                               pos |-> p.pos[d] - 1])]
    BY <1>1 DEF TeeHeartbeat, PullType
  <2>2. z \in PullType
    BY <1>1
  <2> HIDE DEF z, r
  <2>3. r.taken = z.taken /\ r.tail = z.tail /\ r.dev = z.dev
    BY <2>1, <2>2 DEF PullType
  <2> QED BY <2>3 DEF z
<1>3. Carries(s)
  BY DataCarries
<1> HIDE DEF s, r
<1>4. Carries(r)
  BY <1>2, <1>3 DEF Carries
<1> QED BY <1>4 DEF r

LEMMA ReportCarries ==
    ASSUME NEW p \in PullType, Carries(p)
    PROVE  Carries(TeeReport(p))
<1> DEFINE n == p.dev.reports + 1
<1> DEFINE v == [p.dev EXCEPT !.reports = n]
<1> DEFINE m == Control(n)
<1> DEFINE r == TeeReport(p)
<1>1. p.dev \in DevType /\ n \in Nat /\ p.taken \in Seq(Items) /\ r \in PullType
  BY PullParts, DevParts, TeeReportIs DEF ReadsOn
<1>2. r = [p EXCEPT !.dev = v, !.base = n, !.taken = Append(p.taken, m)]
  BY <1>1 DEF TeeReport, PullType, DevType
<1>3. m \in ControlType /\ m \in Items
  BY <1>1, ControlIs DEF Control, ControlType
<1>4. v.stream = p.dev.stream
  BY <1>1 DEF DevType
<1> HIDE DEF v, m, n, r
<1>5. r.dev = v /\ r.taken = Append(p.taken, m) /\ r.tail = p.tail
  BY <1>2 DEF PullType
<1>6. Posns(r.dev) = Posns(p.dev) /\ Posns(p.dev) \in Counts
  BY <1>1, <1>4, <1>5, PosnsAre DEF Posns
<1>7. Moves(Posns(p.dev), m, Posns(r.dev))
  BY <1>3, <1>6 DEF Moves
<1>8. Course(Posns(dev), p.taken, Posns(p.dev))
  BY DEF Carries
<1>9. Course(Posns(dev), Append(p.taken, m), Posns(r.dev))
  BY <1>1, <1>3, <1>6, <1>7, <1>8, CourseMore
<1>10. Tails(r.tail, r.dev)
  BY <1>4, <1>5 DEF Carries, Tails
<1>11. Carries(r)
  BY <1>5, <1>9, <1>10 DEF Carries
<1> QED BY <1>11 DEF r

LEMMA ReadCarries ==
    ASSUME BackendDrops = FALSE, NEW p \in PullType, Carries(p), NEW r \in TeeRead(p)
    PROVE  Carries(r)
<1>1. \A d \in Dcs : p.dev.stream[d].grid + 1 \in Nat
  BY PullParts, DevParts
<1>2. CASE r \in {TeeData(p, d, 0) : d \in Sends(p)}
  BY <1>2, DataCarries DEF Sends
<1>3. CASE r \in {TeeData(p, d, p.dev.stream[d].grid + 1) :
                      d \in {c \in Sends(p) : p.dev.stream[c].half = 0}}
  <2>1. PICK d \in Sends(p) : r = TeeData(p, d, p.dev.stream[d].grid + 1)
    BY <1>3
  <2>2. d \in Dcs
    BY DEF Sends
  <2> DEFINE hb == p.dev.stream[d].grid + 1
  <2>3. hb \in Nat
    BY <1>1, <2>2
  <2> HIDE DEF hb
  <2>4. Carries(TeeData(p, d, hb))
    BY <2>2, <2>3, DataCarries
  <2> QED BY <2>1, <2>4 DEF hb
<1>4. CASE r \in {TeeHeartbeat(p, d) : d \in {c \in Sends(p) : p.dev.stream[c].half > 0}}
  BY <1>4, HeartbeatCarries DEF Sends
<1>5. CASE r \in {TeeOverflow(p, d) : d \in {c \in Sends(p) : BackendDrops}}
  BY <1>5
<1>6. CASE r \in (IF p.dev.reports < MaxReports THEN {TeeReport(p)} ELSE {})
  BY <1>6, ReportCarries
<1> QED BY <1>2, <1>3, <1>4, <1>5, <1>6 DEF TeeRead

LEMMA StartCarries ==
    ASSUME LinkTypes, Tails(tail, dev)
    PROVE  Carries(PullStart)
<1> DEFINE Kept(d) == LET over == Len(tail[d]) - TailKeep IN
                      IF over > 0 THEN SubSeq(tail[d], over + 1, Len(tail[d])) ELSE tail[d]
<1> DEFINE tl == [d \in Dcs |-> Kept(d)]
<1>1. PullStart = [dev |-> dev, taken |-> <<>>, seen |-> <<>>, lastGrid |-> lastGrid,
                   base |-> lossBase, pos |-> pos, tail |-> tl]
  BY DEF PullStart
<1>2. ASSUME NEW d \in Dcs PROVE Run(Kept(d), dev.stream[d].pos - Len(Kept(d)))
  <2> DEFINE u == tail[d]
  <2> DEFINE e == dev.stream[d].pos
  <2> DEFINE k == (Len(u) - TailKeep) + 1
  <2>1. u \in Seq(UnitType) /\ Len(u) \in Nat /\ TailKeep \in Nat /\ e \in Nat
    BY LinkAssumption, DevParts DEF LinkTypes
  <2>2. Run(u, e - Len(u))
    BY DEF Tails
  <2>3. CASE Len(u) - TailKeep > 0
    <3>1. k \in Nat \ {0}
      BY <2>1, <2>3
    <3>2. Kept(d) = SubSeq(u, k, Len(u))
      BY <2>3
    <3> HIDE DEF u, e, k, Kept
    <3>3. Run(SubSeq(u, k, Len(u)), e - Len(SubSeq(u, k, Len(u))))
      BY <2>1, <2>2, <3>1, RunRest
    <3> QED BY <3>2, <3>3 DEF e
  <2>4. CASE ~(Len(u) - TailKeep > 0)
    BY <2>2, <2>4
  <2> QED BY <2>3, <2>4
<1> HIDE DEF Kept
<1>3. Tails(tl, dev)
  BY <1>2 DEF Tails
<1> HIDE DEF tl
<1>4. Posns(dev) \in Counts
  BY PosnsAre DEF LinkTypes
<1>5. Course(Posns(dev), <<>>, Posns(dev))
  BY <1>4, CourseStart
<1> QED BY <1>1, <1>3, <1>5 DEF Carries

\* The pulls of this state that carry its streams on.
Carriers == {p \in PullsOn : Carries(p)}

LEMMA PullsCarry ==
    ASSUME BackendDrops = FALSE, LinkTypes, Tails(tail, dev)
    PROVE  Pulls \in SUBSET Carriers
<1> DEFINE s == [i \in 1 .. PullMax |-> i]
<1>1. s \in Seq(Nat)
  BY LinkAssumption
<1> DEFINE S == SUBSET Carriers
<1>2. {PullStart} \in S
  BY PullStartIs, StartCarries DEF Carriers
<1>3. ASSUME NEW ps \in S, NEW i \in 1 .. Len(s) PROVE PullOn(ps, s[i]) \in S
  <2>1. ASSUME NEW p \in ps, NEW r \in TeeRead(p) PROVE r \in Carriers
    <3>1. p \in PullType /\ SameSetup(dev, p.dev) /\ Carries(p)
      BY DEF PullsOn, Carriers
    <3>2. ReadsOn(p, r)
      BY <3>1, TeeReadIs
    <3>3. Carries(r)
      BY <3>1, ReadCarries
    <3> QED BY <3>1, <3>2, <3>3 DEF ReadsOn, PullsOn, SameSetup, Carriers
  <2>2. UNION {TeeRead(p) : p \in ps} \in SUBSET Carriers
    BY <2>1
  <2> QED BY <2>2 DEF PullOn
<1> HIDE DEF S, s
<1>4. PullFold!Fold({PullStart}, s) \in S
  BY <1>1, <1>2, <1>3, PullFold!FoldWithin
<1>5. Pulls \in S
  BY <1>4 DEF Pulls, s, PullFold!Fold, PullFold!MapThenFoldSet,
              PullFold!Max, FoldLeft, MapThenFoldSet, Max
<1> QED BY <1>5 DEF S

-----------------------------------------------------------------------------
(* What forward() makes of a pull. *)

\* Of the data channels in on the client is owed what its items lack of the streams that
\* end at x, of the others it got no unit.
Accounts(at, q, x, on) ==
    \A d \in Dcs : IF d \in on THEN Owes(Where(at, q)[d], q.cl.dropped[d], x[d])
                   ELSE Where(at, q)[d] \in {Unknown, Skipped}

LEMMA EnqueueAccounts ==
    ASSUME NEW at \in Places, NEW q \in ForwardType, NEW m \in Items, NEW x \in Counts, NEW y,
           Moves(x, m, y), NEW on, Accounts(at, q, x, on), m \in DataType => m.ch \in on
    PROVE  Accounts(at, Enqueue(q, m), y, on)
<1> DEFINE r == Enqueue(q, m)
<1>1. CASE m \in ControlType /\ y = x
  <2>1. \A d \in Dcs : Leaves(at, q, r, d)
    BY <1>1, EnqueueLeaves
  <2> HIDE DEF r
  <2>2. Accounts(at, r, x, on)
    BY <2>1 DEF Accounts, Leaves
  <2> QED BY <1>1, <2>2 DEF r
<1>2. CASE /\ m \in DataType /\ Run(m.data, x[m.ch])
           /\ y = [x EXCEPT ![m.ch] = @ + Len(m.data)]
  <2> DEFINE c == m.ch
  <2> DEFINE v == x[c]
  <2>1. c \in Dcs /\ c \in on /\ v \in Nat
    BY <1>2 DEF DataType, Counts
  <2>2. /\ Owes(Where(at, q)[c], q.cl.dropped[c], v) =>
               Owes(Where(at, r)[c], r.cl.dropped[c], v + Len(m.data))
        /\ \A d \in Dcs \ {c} : Leaves(at, q, r, d)
    BY <1>2, <2>1, EnqueueOwes
  <2>3. y[c] = v + Len(m.data) /\ \A d \in Dcs \ {c} : y[d] = x[d]
    BY <1>2, <2>1 DEF Counts
  <2> HIDE DEF r, c, v
  <2>4. Owes(Where(at, r)[c], r.cl.dropped[c], y[c])
    BY <2>1, <2>2, <2>3 DEF Accounts, v
  <2>5. ASSUME NEW d \in Dcs \ {c}
        PROVE  IF d \in on THEN Owes(Where(at, r)[d], r.cl.dropped[d], y[d])
               ELSE Where(at, r)[d] \in {Unknown, Skipped}
    <3>1. Where(at, r)[d] = Where(at, q)[d] /\ r.cl.dropped[d] = q.cl.dropped[d] /\ y[d] = x[d]
      BY <2>2, <2>3 DEF Leaves
    <3> QED BY <3>1 DEF Accounts
  <2>6. Accounts(at, r, y, on)
    BY <2>1, <2>4, <2>5 DEF Accounts
  <2> QED BY <2>6 DEF r
<1> QED BY <1>1, <1>2 DEF Moves

LEMMA BegunAccounts ==
    ASSUME NEW at \in Places, NEW q \in ForwardType, NEW m \in Items, NEW x \in Counts, NEW y,
           Moves(x, m, y), Accounts(at, q, x, q.cl.started)
    PROVE  Accounts(at, ForwardBegun(q, m), y, q.cl.started)
<1> DEFINE on == q.cl.started
<1>1. CASE m.type = "DATA" /\ m.ch \in q.cl.started
  <2>1. ForwardBegun(q, m) = Enqueue(q, m) /\ m.ch \in on /\ Accounts(at, q, x, on)
    BY <1>1 DEF ForwardBegun
  <2> HIDE DEF on
  <2>2. Accounts(at, ForwardBegun(q, m), y, on)
    BY <2>1, EnqueueAccounts
  <2> QED BY <2>2 DEF on
<1>2. CASE ~(m.type = "DATA" /\ m.ch \in q.cl.started)
  <2>1. ForwardBegun(q, m) = q
    BY <1>2 DEF ForwardBegun
  <2>2. CASE y = x
    BY <2>1, <2>2
  <2>3. CASE m \in DataType /\ y = [x EXCEPT ![m.ch] = @ + Len(m.data)]
    <3>1. m.ch \notin on
      BY <1>2, <2>3 DEF DataType
    <3> HIDE DEF on
    <3>2. \A d \in on \cap Dcs : y[d] = x[d]
      BY <2>3, <3>1 DEF Counts
    <3>3. Accounts(at, q, x, on)
      BY DEF on
    <3>4. Accounts(at, q, y, on)
      BY <3>2, <3>3 DEF Accounts
    <3> QED BY <2>1, <3>4 DEF on
  <2> QED BY <2>2, <2>3 DEF Moves
<1> QED BY <1>1, <1>2

\* A client that gets everything.
LEMMA AllAccounts ==
    ASSUME NEW at \in Places, NEW q \in ForwardType, NEW ms \in Seq(Items), NEW x, NEW y,
           Course(x, ms, y), Accounts(at, q, x, Dcs)
    PROVE  Accounts(at, EnqueueAll(q, ms), y, Dcs)
<1> DEFINE n == Len(ms)
<1>1. n \in Nat /\ DOMAIN ms = 1 .. n
  OBVIOUS
<1>2. PICK l : Legs(l, x, ms, y)
  BY DEF Course
<1>3. /\ l \in [0 .. n -> Counts] /\ l[0] = x /\ l[n] = y
      /\ \A i \in 1 .. n : Moves(l[i - 1], ms[i], l[i])
  BY <1>2 DEF Legs
<1> HIDE DEF n
<1>4. PICK t : EnqueueFold!Chain(t, q, ms, n) /\ EnqueueFold!Fold(q, ms) = t[n]
  BY <1>1, EnqueueFold!FoldChain
<1>5. t[0] = q /\ \A i \in 1 .. n : t[i] = Enqueue(t[i - 1], ms[i])
  BY <1>4 DEF EnqueueFold!Chain
<1> DEFINE T == {i \in Nat : i <= n => t[i] \in ForwardType /\ Accounts(at, t[i], l[i], Dcs)}
<1>6. 0 \in T
  BY <1>3, <1>5
<1>7. ASSUME NEW i \in T PROVE i + 1 \in T
  <2> SUFFICES ASSUME i + 1 <= n
               PROVE  t[i + 1] \in ForwardType /\ Accounts(at, t[i + 1], l[i + 1], Dcs)
    OBVIOUS
  <2>1. i + 1 \in 1 .. n /\ (i + 1) - 1 = i /\ i \in 0 .. n /\ i <= n
    BY <1>1
  <2>2. t[i] \in ForwardType /\ Accounts(at, t[i], l[i], Dcs)
    BY <2>1
  <2> HIDE DEF T
  <2>3. t[i + 1] = Enqueue(t[i], ms[i + 1]) /\ Moves(l[i], ms[i + 1], l[i + 1])
    BY <1>3, <1>5, <2>1
  <2>4. ms[i + 1] \in Items /\ l[i] \in Counts
    BY <1>1, <1>3, <2>1
  <2>5. ms[i + 1] \in DataType => ms[i + 1].ch \in Dcs
    BY DEF DataType
  <2>6. Adds(t[i], t[i + 1])
    BY <2>2, <2>3, <2>4, EnqueueIs
  <2>7. Accounts(at, Enqueue(t[i], ms[i + 1]), l[i + 1], Dcs)
    BY <2>2, <2>3, <2>4, <2>5, EnqueueAccounts
  <2> QED BY <2>3, <2>6, <2>7 DEF Adds
<1> HIDE DEF T
<1>8. n \in T
  BY <1>1, <1>6, <1>7, InductiveSet DEF T
<1>9. Accounts(at, t[n], y, Dcs)
  BY <1>1, <1>3, <1>8 DEF T
<1>10. EnqueueAll(q, ms) = t[n]
  BY <1>4 DEF EnqueueAll, EnqueueFold!Fold, EnqueueFold!MapThenFoldSet, EnqueueFold!Max,
              FoldLeft, MapThenFoldSet, Max
<1> QED BY <1>9, <1>10

AllBegun(q, ms) == FoldLeft(ForwardBegun, q, ms)

\* A client that joins, for the data channels that it gets.
LEMMA AllBegunAccounts ==
    ASSUME NEW at \in Places, NEW q \in ForwardType, NEW ms \in Seq(Items), NEW x, NEW y,
           Course(x, ms, y), Accounts(at, q, x, q.cl.started)
    PROVE  Accounts(at, AllBegun(q, ms), y, q.cl.started)
<1> DEFINE n == Len(ms)
<1> DEFINE on == q.cl.started
<1>1. n \in Nat /\ DOMAIN ms = 1 .. n
  OBVIOUS
<1>2. PICK l : Legs(l, x, ms, y)
  BY DEF Course
<1>3. /\ l \in [0 .. n -> Counts] /\ l[0] = x /\ l[n] = y
      /\ \A i \in 1 .. n : Moves(l[i - 1], ms[i], l[i])
  BY <1>2 DEF Legs
<1> HIDE DEF n
<1>4. PICK t : BegunFold!Chain(t, q, ms, n) /\ BegunFold!Fold(q, ms) = t[n]
  BY <1>1, BegunFold!FoldChain
<1>5. t[0] = q /\ \A i \in 1 .. n : t[i] = ForwardBegun(t[i - 1], ms[i])
  BY <1>4 DEF BegunFold!Chain
<1> DEFINE T == {i \in Nat : i <= n => /\ t[i] \in ForwardType /\ t[i].cl.started = on
                                       /\ Accounts(at, t[i], l[i], on)}
<1>6. 0 \in T
  BY <1>3, <1>5
<1>7. ASSUME NEW i \in T PROVE i + 1 \in T
  <2> SUFFICES ASSUME i + 1 <= n
               PROVE  /\ t[i + 1] \in ForwardType /\ t[i + 1].cl.started = on
                      /\ Accounts(at, t[i + 1], l[i + 1], on)
    OBVIOUS
  <2>1. i + 1 \in 1 .. n /\ (i + 1) - 1 = i /\ i \in 0 .. n /\ i <= n
    BY <1>1
  <2>2. t[i] \in ForwardType /\ t[i].cl.started = on /\ Accounts(at, t[i], l[i], on)
    BY <2>1
  <2> HIDE DEF T, on
  <2>3. t[i + 1] = ForwardBegun(t[i], ms[i + 1]) /\ Moves(l[i], ms[i + 1], l[i + 1])
    BY <1>3, <1>5, <2>1
  <2>4. ms[i + 1] \in Items /\ l[i] \in Counts
    BY <1>1, <1>3, <2>1
  <2>6. Adds(t[i], t[i + 1]) /\ Same(t[i].cl, t[i + 1].cl)
    BY <2>2, <2>3, <2>4, ForwardBegunIs
  <2>7. Accounts(at, ForwardBegun(t[i], ms[i + 1]), l[i + 1], on)
    BY <2>2, <2>3, <2>4, BegunAccounts
  <2> QED BY <2>2, <2>3, <2>6, <2>7 DEF Adds, Same
<1> HIDE DEF T, on
<1>8. n \in T
  BY <1>1, <1>6, <1>7, InductiveSet DEF T
<1>9. Accounts(at, t[n], y, on)
  BY <1>1, <1>3, <1>8 DEF T
<1>10. AllBegun(q, ms) = t[n]
  BY <1>4 DEF AllBegun, BegunFold!Fold, BegunFold!MapThenFoldSet, BegunFold!Max,
              FoldLeft, MapThenFoldSet, Max
<1> QED BY <1>9, <1>10 DEF on

\* What a data channel that begins is sent ends where its stream is.
LEMMA FirstDataRuns ==
    ASSUME NEW p \in PullType, Tails(p.tail, p.dev), NEW c, NEW d \in Dcs,
           StartsAt(p, c, d) # {}
    PROVE  /\ FirstData(p, c, d) \in DataType /\ FirstData(p, c, d).ch = d
           /\ Len(FirstData(p, c, d).data) \in Nat
           /\ Run(FirstData(p, c, d).data,
                  p.dev.stream[d].pos - Len(FirstData(p, c, d).data))
<1> DEFINE i == FirstStart(p, c, d)
<1> DEFINE e == p.dev.stream[d].pos
<1>1. i \in DOMAIN p.seen /\ p.seen[i].pos >= TailPos(p, d)
  BY FirstStartIs DEF StartsAt
<1>2. p.tail[d] \in Seq(UnitType) /\ p.pos[d] \in Nat /\ p.seen \in Seq(SeenType) /\ e \in Nat
  BY PullParts, DevParts DEF Counts
<1>3. p.seen[i].pos \in Int /\ TailPos(p, d) \in Int
  <2>1. p.seen[i] \in SeenType
    BY <1>1, <1>2
  <2>2. p.seen[i].pos \in Int
    BY <2>1 DEF SeenType
  <2>3. Len(p.tail[d]) \in Nat
    BY <1>2
  <2> QED BY <1>2, <2>2, <2>3 DEF TailPos
<1> DEFINE from == p.seen[i].pos - TailPos(p, d) + 1
<1>4. from \in Nat \ {0}
  BY <1>1, <1>3
<1> DEFINE u == SubSeq(p.tail[d], from, Len(p.tail[d]))
<1>5. FirstData(p, c, d) = Data(d, u)
  BY DEF FirstData, FirstStart
<1> HIDE DEF i, from, e
<1>6. Run(p.tail[d], e - Len(p.tail[d]))
  BY DEF Tails, e
<1>7. Run(u, e - Len(u)) /\ u \in Seq(UnitType)
  BY <1>2, <1>4, <1>6, RunRest
<1> HIDE DEF u
<1>8. FirstData(p, c, d).ch = d /\ FirstData(p, c, d).data = u
  BY <1>5 DEF Data
<1>9. FirstData(p, c, d) \in DataType
  BY FirstDataIs
<1>10. Len(u) \in Nat
  BY <1>7
<1> QED BY <1>7, <1>8, <1>9, <1>10 DEF e

LEMMA StartAccounts ==
    ASSUME NEW at \in Places, NEW q \in ForwardType, NEW d \in Dcs,
           Tails(q.pull.tail, q.pull.dev), NEW x, x = Posns(q.pull.dev),
           Accounts(at, q, x, q.cl.started)
    PROVE  Accounts(at, StartOn(q, d), x, StartOn(q, d).cl.started)
<1>1. CASE d \in q.cl.started \/ StartsAt(q.pull, q.cl, d) = {}
  BY <1>1 DEF StartOn
<1>2. CASE ~(d \in q.cl.started \/ StartsAt(q.pull, q.cl, d) = {})
  <2>1. q.pull \in PullType /\ q.pull.dev \in DevType
    BY PullParts DEF ForwardType
  <2> DEFINE m == FirstData(q.pull, q.cl, d)
  <2> DEFINE e == Enqueue(q, m)
  <2> DEFINE end == q.pull.dev.stream[d].pos
  <2> DEFINE v == end - Len(m.data)
  <2>2. m \in DataType /\ m.ch = d /\ Len(m.data) \in Nat /\ Run(m.data, v)
    BY <1>2, <2>1, FirstDataRuns
  <2>3. end \in Nat /\ x[d] = end
    BY <2>1, DevParts, PosnsAre
  <2>4. StartOn(q, d) = [e EXCEPT !.cl.started = e.cl.started \cup {d}]
    BY <1>2 DEF StartOn
  <2>5. Adds(q, e) /\ Same(q.cl, e.cl)
    BY <2>2, EnqueueIs DEF Items
  <2> HIDE DEF m, end
  <2>6. v \in Int /\ v + Len(m.data) = end
    BY <2>2, <2>3
  <2>7. /\ Owes(Where(at, q)[d], q.cl.dropped[d], v) =>
               Owes(Where(at, e)[d], e.cl.dropped[d], v + Len(m.data))
        /\ \A c \in Dcs \ {d} : Leaves(at, q, e, c)
    <3> HIDE DEF v
    <3> QED BY <2>2, <2>6, EnqueueOwes
  <2> HIDE DEF e, v
  <2>8. e \in ForwardType /\ e.cl \in ClientType
    BY <2>5 DEF Adds, ForwardType
  <2> DEFINE s == StartOn(q, d)
  <2>9. /\ s.out = e.out /\ s.cl.started = e.cl.started \cup {d}
        /\ s.cl.dropped = e.cl.dropped
    BY <2>4, <2>8 DEF ForwardType, ClientType
  <2> HIDE DEF s
  <2>10. Where(at, s) = Where(at, e)
    BY <2>9 DEF Where
  <2>11. s.cl.started = q.cl.started \cup {d}
    BY <2>5, <2>9 DEF Same
  <2>12. Owes(Where(at, s)[d], s.cl.dropped[d], x[d])
    <3>1. Where(at, q)[d] \in {Unknown, Skipped}
      BY <1>2 DEF Accounts
    <3>2. Owes(Where(at, q)[d], q.cl.dropped[d], v)
      BY <3>1 DEF Owes, Unknown, Skipped, Broken
    <3> QED BY <2>3, <2>6, <2>7, <2>9, <2>10, <3>2
  <2>13. ASSUME NEW c \in Dcs \ {d}
         PROVE  IF c \in s.cl.started THEN Owes(Where(at, s)[c], s.cl.dropped[c], x[c])
                ELSE Where(at, s)[c] \in {Unknown, Skipped}
    <3>1. Where(at, s)[c] = Where(at, q)[c] /\ s.cl.dropped[c] = q.cl.dropped[c]
      BY <2>7, <2>9, <2>10 DEF Leaves
    <3>2. c \in s.cl.started <=> c \in q.cl.started
      BY <2>11
    <3> QED BY <3>1, <3>2 DEF Accounts
  <2>14. d \in s.cl.started
    BY <2>11
  <2>15. Accounts(at, s, x, s.cl.started)
    BY <2>12, <2>13, <2>14 DEF Accounts
  <2> QED BY <2>15 DEF s
<1> QED BY <1>1, <1>2

AllStarted(q) == FoldLeft(StartOn, q, AllDcs)

LEMMA AllStartedAccounts ==
    ASSUME NEW at \in Places, NEW q \in ForwardType, Tails(q.pull.tail, q.pull.dev),
           NEW x, x = Posns(q.pull.dev), Accounts(at, q, x, q.cl.started)
    PROVE  Accounts(at, AllStarted(q), x, AllStarted(q).cl.started)
<1> DEFINE S == {r \in ForwardType : r.pull = q.pull /\ Accounts(at, r, x, r.cl.started)}
<1>1. q \in S
  OBVIOUS
<1>2. ASSUME NEW r \in S, NEW i \in 1 .. Len(AllDcs) PROVE StartOn(r, AllDcs[i]) \in S
  <2>1. AllDcs[i] \in Dcs /\ r \in ForwardType /\ r.pull = q.pull
        /\ Accounts(at, r, x, r.cl.started)
    BY AllDcsAre
  <2> HIDE DEF S
  <2>2. Adds(r, StartOn(r, AllDcs[i]))
    BY <2>1, StartOnIs
  <2>3. Tails(r.pull.tail, r.pull.dev) /\ x = Posns(r.pull.dev)
    BY <2>1
  <2>4. Accounts(at, StartOn(r, AllDcs[i]), x, StartOn(r, AllDcs[i]).cl.started)
    BY <2>1, <2>3, StartAccounts
  <2> QED BY <2>1, <2>2, <2>4 DEF Adds, S
<1> HIDE DEF S
<1>3. StartFold!Fold(q, AllDcs) \in S
  BY <1>1, <1>2, AllDcsAre, StartFold!FoldWithin
<1>4. AllStarted(q) \in S
  BY <1>3 DEF AllStarted, StartFold!Fold, StartFold!MapThenFoldSet, StartFold!Max,
              FoldLeft, MapThenFoldSet, Max
<1> QED BY <1>4 DEF S

\* The data channels the client is sent items of.
On(c) == IF c.streaming THEN Dcs ELSE c.started

\* How a client gets the items: all of them, or joining, or not.
Ways(c) == ~(c.streaming /\ c.attaching) /\ (c.started # {} => c.streaming \/ c.attaching)

Modes(c, x, y) == [c EXCEPT !.attaching = x, !.streaming = y]

LEMMA ModesAre ==
    ASSUME NEW c \in ClientType, NEW x \in BOOLEAN, NEW y \in BOOLEAN
    PROVE  /\ Modes(c, x, y).attaching = x /\ Modes(c, x, y).streaming = y
           /\ Modes(c, x, y).started = c.started /\ Modes(c, x, y).dropped = c.dropped
BY DEF ClientType, Modes

\* forward() leaves a client that gets no items as it is.
LEMMA ForwardedWays ==
    ASSUME NEW q \in ForwardType, Ways(q.cl)
    PROVE  /\ Ways(Forwarded(q).cl)
           /\ ~q.cl.streaming /\ ~q.cl.attaching => Forwarded(q) = q
<1>1. q.pull.taken \in Seq(Items) /\ q.cl \in ClientType
  BY DEF ForwardType, PullType
<1>2. CASE q.cl.attaching
  <2> DEFINE b == AllBegun(q, q.pull.taken)
  <2>1. b \in ForwardType
    BY <1>1, AllBegunIs DEF AllBegun, Adds
  <2> HIDE DEF b
  <2> DEFINE a == AllStarted(b)
  <2>2. a \in ForwardType
    BY <2>1, AllStartedIs DEF AllStarted, Adds
  <2>3. Forwarded(q) = [a EXCEPT !.cl.attaching = (a.cl.started # Dcs),
                                 !.cl.streaming = (a.cl.started = Dcs)]
    BY <1>2 DEF Forwarded, Attached, AllDcs, AllBegun, AllStarted, b
  <2> HIDE DEF a
  <2>4. a.cl \in ClientType
    BY <2>2 DEF ForwardType
  <2> DEFINE c == Modes(a.cl, a.cl.started # Dcs, a.cl.started = Dcs)
  <2>5. Forwarded(q).cl = c
    BY <2>2, <2>3 DEF ForwardType, Modes
  <2>6. Ways(c)
    <3>1. (a.cl.started # Dcs) \in BOOLEAN /\ (a.cl.started = Dcs) \in BOOLEAN
      OBVIOUS
    <3>2. /\ c.attaching = (a.cl.started # Dcs) /\ c.streaming = (a.cl.started = Dcs)
          /\ c.started = a.cl.started
      BY <2>4, <3>1, ModesAre
    <3> HIDE DEF c
    <3> QED BY <3>2 DEF Ways
  <2> QED BY <1>2, <2>5, <2>6
<1>3. CASE ~q.cl.attaching /\ q.cl.streaming
  <2> DEFINE e == EnqueueAll(q, q.pull.taken)
  <2>1. Forwarded(q) = e
    BY <1>3 DEF Forwarded
  <2>2. Same(q.cl, e.cl)
    BY <1>1, EnqueueAllIs
  <2> HIDE DEF e
  <2>3. Ways(e.cl)
    BY <1>3, <2>2 DEF Same, Ways
  <2> QED BY <1>3, <2>1, <2>3
<1>4. CASE ~q.cl.attaching /\ ~q.cl.streaming
  BY <1>4 DEF Forwarded
<1> QED BY <1>2, <1>3, <1>4

LEMMA ForwardedAccounts ==
    ASSUME NEW at \in Places, NEW q \in ForwardType, Carries(q.pull), Ways(q.cl),
           Accounts(at, q, Posns(dev), On(q.cl))
    PROVE  Accounts(at, Forwarded(q), Posns(q.pull.dev), On(Forwarded(q).cl))
<1> DEFINE x == Posns(dev)
<1> DEFINE y == Posns(q.pull.dev)
<1>1. /\ q.pull.taken \in Seq(Items) /\ q.cl \in ClientType
      /\ Course(x, q.pull.taken, y) /\ Tails(q.pull.tail, q.pull.dev)
  BY DEF ForwardType, PullType, Carries
<1> HIDE DEF x, y
<1>2. CASE q.cl.attaching
  <2>1. ~q.cl.streaming /\ On(q.cl) = q.cl.started
    BY <1>2 DEF Ways, On
  <2> DEFINE b == AllBegun(q, q.pull.taken)
  <2>2. Adds(q, b) /\ Same(q.cl, b.cl)
    BY <1>1, AllBegunIs DEF AllBegun
  <2>3. Accounts(at, b, y, q.cl.started)
    BY <1>1, <2>1, AllBegunAccounts DEF x
  <2> HIDE DEF b
  <2>4. b \in ForwardType /\ b.pull = q.pull /\ b.cl.started = q.cl.started
    BY <2>2 DEF Adds, Same
  <2> DEFINE a == AllStarted(b)
  <2>5. Adds(b, a)
    BY <2>4, AllStartedIs DEF AllStarted
  <2>6. Accounts(at, a, y, a.cl.started)
    <3>1. Tails(b.pull.tail, b.pull.dev) /\ y = Posns(b.pull.dev)
      BY <1>1, <2>4 DEF y
    <3>2. Accounts(at, b, y, b.cl.started)
      BY <2>3, <2>4
    <3> QED BY <2>4, <3>1, <3>2, AllStartedAccounts
  <2>7. Forwarded(q) = [a EXCEPT !.cl.attaching = (a.cl.started # Dcs),
                                 !.cl.streaming = (a.cl.started = Dcs)]
    BY <1>2 DEF Forwarded, Attached, AllDcs, AllBegun, AllStarted, b
  <2> HIDE DEF a
  <2>8. a \in ForwardType /\ a.cl \in ClientType
    BY <2>5 DEF Adds, ForwardType
  <2> DEFINE c == Modes(a.cl, a.cl.started # Dcs, a.cl.started = Dcs)
  <2>9. Forwarded(q) = [a EXCEPT !.cl = c]
    BY <2>7, <2>8 DEF ForwardType, Modes
  <2>10. /\ c.attaching = (a.cl.started # Dcs) /\ c.streaming = (a.cl.started = Dcs)
         /\ c.started = a.cl.started /\ c.dropped = a.cl.dropped
    <3>1. (a.cl.started # Dcs) \in BOOLEAN /\ (a.cl.started = Dcs) \in BOOLEAN
      OBVIOUS
    <3> QED BY <2>8, <3>1, ModesAre
  <2> HIDE DEF c
  <2> DEFINE f == Forwarded(q)
  <2>11. f.cl = c /\ f.out = a.out
    BY <2>8, <2>9 DEF ForwardType
  <2> HIDE DEF f
  <2>12. Where(at, f) = Where(at, a) /\ f.cl.dropped = a.cl.dropped
    BY <2>10, <2>11 DEF Where
  <2>13. On(f.cl) = a.cl.started
    BY <2>10, <2>11 DEF On
  <2>14. Accounts(at, f, y, a.cl.started)
    BY <2>6, <2>12 DEF Accounts
  <2> QED BY <2>13, <2>14 DEF f, y
<1>3. CASE ~q.cl.attaching /\ q.cl.streaming
  <2> DEFINE e == EnqueueAll(q, q.pull.taken)
  <2>1. Forwarded(q) = e
    BY <1>3 DEF Forwarded
  <2>2. On(q.cl) = Dcs
    BY <1>3 DEF On
  <2>3. Accounts(at, e, y, Dcs)
    BY <1>1, <2>2, AllAccounts DEF x
  <2>4. Same(q.cl, e.cl)
    BY <1>1, EnqueueAllIs
  <2> HIDE DEF e
  <2>5. On(e.cl) = Dcs
    BY <1>3, <2>4 DEF Same, On
  <2> QED BY <2>1, <2>3, <2>5 DEF y
<1>4. CASE ~q.cl.attaching /\ ~q.cl.streaming
  <2>1. Forwarded(q) = q
    BY <1>4 DEF Forwarded
  <2>2. On(q.cl) = {}
    BY <1>4 DEF On, Ways
  <2>3. Accounts(at, q, y, {})
    BY <2>2 DEF Accounts
  <2> QED BY <2>1, <2>2, <2>3 DEF y
<1> QED BY <1>2, <1>3, <1>4

-----------------------------------------------------------------------------
(* The streams along what is on its way. *)

\* Where the streams are after what the client has taken, and after what comes.
Base == AfterAll(expect, queue)
At == AfterAll(Base, Coming)

Live == Served /\ ~Late /\ sess # "over"

\* A reply that says that the client gets the items, if it waits for it.
Starts(m) == AttachDone(m) \/ (ConfigDone(m) /\ waiting.reg = "capture")

\* The client gets the capture, or will have when it has the reply that says so.
Begun == sess = "running" \/ \E m : Said(m) /\ Starts(m)

\* It gets no item.
Idle == queue = <<>> /\ Itemless(Coming) /\ ~cl.streaming /\ ~cl.attaching

\* What every stream lacks on its way is what is owed of it.
Settled ==
    BackendDrops = FALSE =>
    \A d \in Dcs : IF d \in On(cl) THEN Owes(At[d], cl.dropped[d], dev.stream[d].pos)
                   ELSE At[d] \in {Unknown, Skipped}

StreamTrue == Live => IF Begun THEN running => Settled ELSE Idle

ReadTrue ==
    /\ expect \in Places
    /\ sess # "running" => expect = Nowhere
    /\ fd = 0 \/ fd \in Queued => queue = <<>>

CaptureTrue ==
    /\ IF running THEN Ways(cl) ELSE ~cl.streaming /\ ~cl.attaching
    /\ BackendDrops = FALSE => Tails(tail, dev)
    /\ ~running => \A d \in Dcs : tail[d] = <<>>

StreamInv == ReadTrue /\ CaptureTrue /\ StreamTrue

LEMMA StreamInit == SystemInit => StreamInv
<1> SUFFICES ASSUME SystemInit PROVE StreamInv
  OBVIOUS
<1>1. /\ fd = 0 /\ queue = <<>> /\ running = FALSE /\ cl = NoClient /\ tail = [d \in Dcs |-> <<>>]
      /\ expect = Nowhere
  BY DEF SystemInit, LinkInit, RemoteInit, Nowhere
<1>2. Nowhere \in Places
  BY DEF Nowhere, Places, Place
<1>3. ReadTrue
  BY <1>1, <1>2 DEF ReadTrue
<1>4. \A d \in Dcs : tail[d] = <<>>
  BY <1>1
<1>5. Tails(tail, dev)
  BY <1>4 DEF Tails, Run
<1>6. CaptureTrue
  BY <1>1, <1>4, <1>5 DEF CaptureTrue, NoClient
<1>7. StreamTrue
  BY <1>1 DEF StreamTrue, Live, Served
<1> QED BY <1>3, <1>6, <1>7 DEF StreamInv

LEMMA BaseIs ==
    ASSUME TypeInv, ReadTrue
    PROVE  /\ queue \in Seq(Messages) /\ queue \in Seq(Items) /\ Coming \in Seq(Messages)
           /\ Base \in Places /\ At \in Places
<1>1. queue \in Seq(Messages) /\ queue \in Seq(Items)
  BY ItemsBringNothing DEF TypeInv, RemoteTypes
<1>2. Base \in Places
  BY <1>1, AllPlaces DEF Base, ReadTrue
<1> QED BY <1>1, <1>2, ComingIs, AllPlaces DEF At

\* While the client gets no item the streams are where they began.
LEMMA IdleIs ==
    ASSUME TypeInv, ReadTrue, Idle, sess # "running"
    PROVE  Base = Nowhere /\ At = Nowhere /\ Nowhere \in Places
<1>1. expect = Nowhere /\ expect \in Places /\ queue = <<>> /\ Itemless(Coming)
  BY DEF ReadTrue, Idle
<1>2. Base = Nowhere
  BY <1>1, AfterNone DEF Base
<1>3. At = Nowhere
  BY <1>1, <1>2, ComingIs, AnswersStay DEF At
<1> QED BY <1>1, <1>2, <1>3

\* A step that leaves what is said, and the session.
LEMMA SameBegun ==
    ASSUME UNCHANGED <<sess, waiting>>, \A m : Said(m)' <=> Said(m)
    PROVE  Begun' <=> Begun
BY DEF Begun, Starts, AttachDone, ConfigDone

\* A step that leaves the streams where they are.
LEMMA SameStreams ==
    ASSUME StreamTrue, UNCHANGED <<cl, running, dev>>,
           Live' => Live /\ (Begun' <=> Begun) /\ (Begun => At' = At) /\ (~Begun /\ Idle => Idle')
    PROVE  StreamTrue'
<1> SUFFICES ASSUME Live' PROVE IF Begun' THEN running' => Settled' ELSE Idle'
  BY DEF StreamTrue
<1>1. CASE Begun
  <2>1. running => Settled
    BY <1>1 DEF StreamTrue
  <2>2. Settled => Settled'
    BY <1>1 DEF Settled
  <2> QED BY <1>1, <2>1, <2>2
<1>2. CASE ~Begun
  BY <1>2 DEF StreamTrue
<1> QED BY <1>1, <1>2

\* One that leaves all of it.
LEMMA AllSame ==
    ASSUME StreamTrue, Coming' = Coming, \A m : Said(m)' <=> Said(m),
           UNCHANGED <<fd, cl, running, dev, queue, expect, sess, waiting, timeouts>>
    PROVE  StreamTrue'
<1>1. Live' => Live
  BY DEF Live, Served, Late
<1>2. Begun' <=> Begun
  BY SameBegun
<1>3. At' = At
  BY DEF At, Base
<1>4. Idle => Idle'
  BY DEF Idle, Itemless
<1> QED BY <1>1, <1>2, <1>3, <1>4, SameStreams

\* What take() makes of a message, for the streams.
LEMMA TakenGoes ==
    ASSUME NEW at \in Places, NEW r \in TakenType, NEW m \in Messages
    PROVE  /\ AfterAll(at, Taken(r, m).queue) = AfterItem(AfterAll(at, r.queue), m)
           /\ ~IsItem(m) => Taken(r, m).queue = r.queue
           /\ r.have \/ ~IsItem(m) => Taken(r, m).have
<1> DEFINE w == AfterAll(at, r.queue)
<1>1. r.queue \in Seq(Items) /\ r.queue \in Seq(Messages)
  BY ItemsBringNothing DEF TakenType
<1>2. w \in Places
  BY <1>1, AllPlaces
<1>3. CASE IsItem(m)
  <2>1. Taken(r, m) = [r EXCEPT !.queue = Append(@, m)]
    BY <1>3 DEF Taken
  <2>2. Taken(r, m).queue = Append(r.queue, m)
    BY <2>1 DEF TakenType
  <2>3. AfterAll(at, Append(r.queue, m)) = AfterItem(w, m)
    BY <1>1, AfterAppend
  <2>4. Taken(r, m).have = r.have
    BY <2>1 DEF TakenType
  <2> QED BY <1>3, <2>2, <2>3, <2>4
<1>4. CASE ~IsItem(m)
  <2>1. Taken(r, m) = [r EXCEPT !.have = TRUE, !.reply = m]
    BY <1>4 DEF Taken
  <2>2. Taken(r, m).queue = r.queue
    BY <2>1 DEF TakenType
  <2>3. AfterItem(w, m) = w
    BY <1>2, <1>4, AnswerStays
  <2>4. Taken(r, m).have
    BY <1>4, TakenIs, MessagesAre
  <2> QED BY <2>2, <2>3, <2>4
<1> QED BY <1>3, <1>4

LEMMA TakenTells ==
    ASSUME TypeInv, ReadTrue, NEW a \in Seq(Messages)
    PROVE  /\ AfterAll(expect, TakenAll(a).queue) = AfterAll(Base, a)
           /\ Itemless(a) \/ a = <<>> => TakenAll(a).queue = queue
           /\ \A m : Brings(a, m) => TakenAll(a).have
<1> DEFINE base == [queue |-> queue, have |-> haveReply, reply |-> reply]
<1> DEFINE n == Len(a)
<1>1. n \in Nat /\ DOMAIN a = 1 .. n
  OBVIOUS
<1>2. base \in TakenType /\ base.queue = queue
  BY DEF TypeInv, RemoteTypes, TakenType
<1>3. expect \in Places
  BY DEF ReadTrue
<1> HIDE DEF n, base
<1>4. PICK t : TakenFold!Chain(t, base, a, n) /\ TakenFold!Fold(base, a) = t[n]
  BY <1>1, TakenFold!FoldChain
<1>5. t[0] = base /\ \A i \in 1 .. n : t[i] = Taken(t[i - 1], a[i])
  BY <1>4 DEF TakenFold!Chain
<1>6. PICK u : AfterFold!Chain(u, Base, a, n) /\ AfterFold!Fold(Base, a) = u[n]
  BY <1>1, AfterFold!FoldChain
<1>7. u[0] = Base /\ \A i \in 1 .. n : u[i] = AfterItem(u[i - 1], a[i])
  BY <1>6 DEF AfterFold!Chain
<1> DEFINE T == {i \in Nat : i <= n => /\ t[i] \in TakenType
                                       /\ u[i] = AfterAll(expect, t[i].queue)
                                       /\ Itemless(a) => t[i].queue = queue
                                       /\ (\E j \in 1 .. i : ~IsItem(a[j])) => t[i].have}
<1>8. 0 \in T
  BY <1>2, <1>5, <1>7 DEF Base
<1>9. ASSUME NEW i \in T PROVE i + 1 \in T
  <2> SUFFICES ASSUME i + 1 <= n
               PROVE  /\ t[i + 1] \in TakenType
                      /\ u[i + 1] = AfterAll(expect, t[i + 1].queue)
                      /\ Itemless(a) => t[i + 1].queue = queue
                      /\ (\E j \in 1 .. i + 1 : ~IsItem(a[j])) => t[i + 1].have
    OBVIOUS
  <2>1. i + 1 \in 1 .. n /\ (i + 1) - 1 = i /\ i <= n /\ i \in Nat
    BY <1>1
  <2>2. /\ t[i] \in TakenType /\ u[i] = AfterAll(expect, t[i].queue)
        /\ Itemless(a) => t[i].queue = queue
        /\ (\E j \in 1 .. i : ~IsItem(a[j])) => t[i].have
    BY <2>1
  <2> HIDE DEF T
  <2>3. t[i + 1] = Taken(t[i], a[i + 1]) /\ u[i + 1] = AfterItem(u[i], a[i + 1])
    BY <1>5, <1>7, <2>1
  <2>4. a[i + 1] \in Messages
    BY <1>1, <2>1
  <2>5. t[i + 1] \in TakenType
    BY <2>2, <2>3, <2>4, TakenIs
  <2>6. /\ AfterAll(expect, t[i + 1].queue) = AfterItem(AfterAll(expect, t[i].queue), a[i + 1])
        /\ ~IsItem(a[i + 1]) => t[i + 1].queue = t[i].queue
        /\ t[i].have \/ ~IsItem(a[i + 1]) => t[i + 1].have
    BY <1>3, <2>2, <2>3, <2>4, TakenGoes
  <2>7. Itemless(a) => ~IsItem(a[i + 1])
    BY <1>1, <2>1 DEF Itemless
  <2>8. (\E j \in 1 .. i + 1 : ~IsItem(a[j])) => ~IsItem(a[i + 1]) \/ \E j \in 1 .. i : ~IsItem(a[j])
    BY <2>1
  <2> QED BY <2>2, <2>3, <2>5, <2>6, <2>7, <2>8
<1> HIDE DEF T
<1>10. n \in T
  BY <1>1, <1>8, <1>9, InductiveSet DEF T
<1>11. TakenAll(a) = t[n]
  BY <1>4 DEF TakenAll, base, TakenFold!Fold, TakenFold!MapThenFoldSet, TakenFold!Max,
              FoldLeft, MapThenFoldSet, Max
<1>12. AfterAll(Base, a) = u[n]
  BY <1>6, AfterAllIs
<1>13. /\ u[n] = AfterAll(expect, t[n].queue)
       /\ Itemless(a) => t[n].queue = queue
       /\ (\E j \in 1 .. n : ~IsItem(a[j])) => t[n].have
  BY <1>1, <1>10 DEF T
<1>14. a = <<>> => Itemless(a)
  BY DEF Itemless
<1>15. ASSUME NEW m, Brings(a, m) PROVE \E j \in 1 .. n : ~IsItem(a[j])
  <2>1. PICK j \in DOMAIN a : a[j] = m /\ m \notin Items
    BY <1>15 DEF Brings
  <2>2. a[j] \in Messages
    BY <1>1
  <2> QED BY <1>1, <2>1, <2>2, MessagesAre
<1> QED BY <1>11, <1>12, <1>13, <1>14, <1>15

-----------------------------------------------------------------------------
(* The link's steps: the capture, and the client's way of getting it. *)

LEMMA CaptureSame ==
    ASSUME CaptureTrue, UNCHANGED <<running, tail, dev>>,
           cl' = cl \/ (~cl'.streaming /\ ~cl'.attaching /\ cl'.started = {})
    PROVE  CaptureTrue'
<1>1. Tails(tail, dev)' <=> Tails(tail, dev)
  BY DEF Tails
<1>2. CASE cl' = cl
  BY <1>1, <1>2 DEF CaptureTrue, Ways
<1>3. CASE ~cl'.streaming /\ ~cl'.attaching /\ cl'.started = {}
  BY <1>1, <1>3 DEF CaptureTrue, Ways
<1> QED BY <1>2, <1>3

LEMMA CaptureOver ==
    ASSUME running' = FALSE, \A d \in Dcs : tail'[d] = <<>>, ~cl'.streaming, ~cl'.attaching
    PROVE  CaptureTrue'
BY DEF CaptureTrue, Tails, Run

LEMMA NoTails == \A d \in Dcs : [e \in Dcs |-> <<>>][d] = <<>>
OBVIOUS

LEMMA NoModes ==
    /\ ~NoClient.streaming /\ ~NoClient.attaching /\ NoClient.started = {}
    /\ \A c \in Conns : LET n == [NoClient EXCEPT !.fd = c] IN
                        ~n.streaming /\ ~n.attaching /\ n.started = {}
    /\ cl \in ClientType => ~EndedClient.streaming /\ ~EndedClient.attaching
BY DEF NoClient, EndedClient, ClientType

\* A pull and the client's part of it.
Taking(p) == [cl |-> cl, out |-> out, pull |-> p]

LEMMA PullGives ==
    ASSUME TypeInv, CaptureTrue, running, NEW p \in Pulls
    PROVE  /\ p \in PullType
           /\ BackendDrops = FALSE => Carries(p) /\ Tails(p.tail, p.dev)
           /\ Taking(p) \in ForwardType
           /\ Forward(p) = Forwarded(Taking(p))
           /\ Ways(cl) /\ Ways(Forward(p).cl) /\ Forward(p).cl \in ClientType
           /\ ~cl.streaming /\ ~cl.attaching => Forward(p).cl = cl /\ Forward(p).out = out
<1>1. LinkTypes
  BY DEF TypeInv
<1>2. p \in PullType
  BY <1>1, PullsAre DEF PullsOn
<1>7. BackendDrops = FALSE => Carries(p) /\ Tails(p.tail, p.dev)
  BY <1>1, PullsCarry DEF CaptureTrue, Carriers, Carries
<1> DEFINE q == Taking(p)
<1>3. q \in ForwardType /\ q.cl = cl /\ q.out = out /\ Forward(p) = Forwarded(q)
  BY <1>1, <1>2 DEF LinkTypes, ForwardType, Taking, Forward
<1> HIDE DEF q
<1>4. Ways(q.cl)
  BY <1>3 DEF CaptureTrue
<1>5. Ways(Forwarded(q).cl) /\ (~q.cl.streaming /\ ~q.cl.attaching => Forwarded(q) = q)
  BY <1>3, <1>4, ForwardedWays
<1>6. Forward(p).cl \in ClientType
  BY <1>1, ForwardIs
<1> QED BY <1>2, <1>3, <1>4, <1>5, <1>6, <1>7 DEF q

LEMMA RequestCapture ==
    ASSUME TypeInv, CaptureTrue, NEW req,
           OnHello(req) \/ OnStop(req) \/ RefuseConfig(req) \/ OnConfig(req) \/ OnAttach(req)
    PROVE  CaptureTrue'
<1>1. cl \in ClientType /\ running \in BOOLEAN
  BY DEF TypeInv, LinkTypes
<1>2. ASSUME EndIfRunning PROVE CaptureTrue'
  <2>1. CASE running
    <3>1. running' = FALSE /\ cl' = EndedClient /\ tail' = [d \in Dcs |-> <<>>]
      BY <1>2, <2>1 DEF EndIfRunning, EndCapture
    <3> QED BY <1>1, <3>1, NoModes, NoTails, CaptureOver
  <2>2. CASE ~running
    <3>1. UNCHANGED <<running, cl, tail>>
      BY <1>2, <2>2 DEF EndIfRunning
    <3>2. (\A d \in Dcs : tail[d] = <<>>) /\ ~cl.streaming /\ ~cl.attaching /\ running = FALSE
      BY <1>1, <2>2 DEF CaptureTrue
    <3> QED BY <3>1, <3>2, CaptureOver
  <2> QED BY <2>1, <2>2
<1>3. CASE OnHello(req) \/ OnStop(req)
  BY <1>2, <1>3 DEF OnHello, OnStop
<1>4. CASE RefuseConfig(req)
  <2>1. UNCHANGED <<running, tail, dev, cl>>
    BY <1>4 DEF RefuseConfig, captureVars
  <2> QED BY <2>1, CaptureSame
<1>5. CASE OnConfig(req)
  <2>1. running = FALSE /\ (CaptureBegin \/ UNCHANGED <<running, tail, cl>>)
    BY <1>1, <1>5 DEF OnConfig, BeginFails
  <2>2. (\A d \in Dcs : tail[d] = <<>>) /\ ~cl.streaming /\ ~cl.attaching
    BY <2>1 DEF CaptureTrue
  <2>3. CASE CaptureBegin
    <3>1. /\ running' = TRUE /\ tail' = [d \in Dcs |-> <<>>]
          /\ cl' = [cl EXCEPT !.streaming = TRUE, !.started = {}, !.dropped = NoCounts]
      BY <2>3 DEF CaptureBegin
    <3>2. ~cl'.attaching /\ cl'.started = {}
      BY <1>1, <2>2, <3>1 DEF ClientType
    <3>3. \A d \in Dcs : tail'[d] = <<>>
      BY <3>1, NoTails
    <3> QED BY <3>1, <3>2, <3>3 DEF CaptureTrue, Ways, Tails, Run
  <2>4. CASE UNCHANGED <<running, tail, cl>>
    BY <2>1, <2>2, <2>4, CaptureOver
  <2> QED BY <2>1, <2>3, <2>4
<1>6. CASE OnAttach(req)
  <2>1. UNCHANGED <<running, tail, dev>>
    BY <1>6 DEF OnAttach, captureVars
  <2>2. CASE ~running
    <3>1. cl' = cl
      BY <1>6, <2>2 DEF OnAttach
    <3> QED BY <2>1, <3>1, CaptureSame
  <2>3. CASE running
    <3> DEFINE g == JoinGrid
    <3>1. cl' = [cl EXCEPT !.streaming = FALSE, !.attaching = TRUE, !.grid = g, !.started = {}]
      BY <1>6, <2>3 DEF OnAttach
    <3> HIDE DEF g
    <3>2. ~cl'.streaming /\ cl'.started = {}
      BY <1>1, <3>1 DEF ClientType
    <3>3. Tails(tail, dev)' <=> Tails(tail, dev)
      BY <2>1 DEF Tails
    <3> QED BY <2>1, <2>3, <3>2, <3>3 DEF CaptureTrue, Ways
  <2> QED BY <2>2, <2>3
<1> QED BY <1>3, <1>4, <1>5, <1>6

LEMMA LinkCapture ==
    ASSUME TypeInv, CaptureTrue, LinkNext
    PROVE  CaptureTrue'
<1>1. CASE AcceptClient \/ ClientGone \/ ClientWrite
  <2>1. UNCHANGED <<running, tail, dev>>
    BY <1>1 DEF AcceptClient, ClientGone, ClientWrite, captureVars
  <2>2. cl' = cl \/ cl' = NoClient \/ \E c \in Conns : cl' = [NoClient EXCEPT !.fd = c]
    <3>1. CASE AcceptClient
      <4>1. Head(backlog) \in Conns
        BY <3>1 DEF AcceptClient, TypeInv, SockTypes
      <4> QED BY <3>1, <4>1 DEF AcceptClient
    <3> QED BY <1>1, <3>1 DEF ClientGone, ClientWrite, DropClient
  <2> QED BY <2>1, <2>2, NoModes, CaptureSame
<1>2. CASE Requests
  BY <1>2, RequestCapture DEF Requests
<1>3. CASE Pull
  <2>1. PICK p \in Pulls : dev' = p.dev /\ tail' = p.tail /\ cl' = Forward(p).cl
    BY <1>3 DEF Pull
  <2>2. running /\ running' = running
    BY <1>3 DEF Pull
  <2>3. Ways(Forward(p).cl) /\ (BackendDrops = FALSE => Tails(p.tail, p.dev))
    BY <2>2, PullGives
  <2>4. Ways(cl)' /\ (BackendDrops = FALSE => Tails(tail, dev)')
    BY <2>1, <2>3 DEF Ways, Tails
  <2> QED BY <2>2, <2>4 DEF CaptureTrue
<1>4. CASE PullFails
  <2>1. PICK p \in Pulls : cl' = [Forward(p).cl EXCEPT !.streaming = FALSE, !.attaching = FALSE]
    BY <1>4 DEF PullFails
  <2>2. running /\ running' = FALSE /\ tail' = [d \in Dcs |-> <<>>]
    BY <1>4 DEF PullFails
  <2> DEFINE c == Forward(p).cl
  <2>3. c \in ClientType
    BY <2>2, PullGives
  <2>4. cl' = [c EXCEPT !.streaming = FALSE, !.attaching = FALSE]
    BY <2>1
  <2> HIDE DEF c
  <2>5. ~cl'.streaming /\ ~cl'.attaching
    BY <2>3, <2>4 DEF ClientType
  <2> QED BY <2>2, <2>5, NoTails, CaptureOver
<1>5. CASE Quit
  <2>1. running' = FALSE /\ cl' = NoClient /\ tail' = [d \in Dcs |-> <<>>]
    BY <1>5 DEF Quit
  <2> QED BY <2>1, NoModes, NoTails, CaptureOver
<1> QED BY <1>1, <1>2, <1>3, <1>4, <1>5 DEF LinkNext

\* The client's state is as it was; no more connections are in the backlog.
LEMMA LinkRead ==
    ASSUME TypeInv, ConnInv, ReadTrue, LinkDoes, expect' = expect
    PROVE  ReadTrue'
<1>1. UNCHANGED <<sess, fd, queue>>
  BY LinkLeavesRemote
<1>2. Queued' \in SUBSET Queued
  <2>1. CASE UNCHANGED backlog
    BY <2>1 DEF Queued, Elems
  <2>2. CASE backlog # <<>> /\ backlog' = Tail(backlog)
    <3>1. Queued' = Elems(Tail(backlog))
      BY <2>2 DEF Queued, Elems
    <3> QED BY <2>2, <3>1, QueuedAre
  <2>3. CASE backlog' = <<>>
    BY <2>3 DEF Queued, Elems
  <2>4. UNCHANGED backlog \/ (backlog # <<>> /\ backlog' = Tail(backlog)) \/ backlog' = <<>>
    BY DEF LinkDoes, ItemsStep, WriteStep, DropStep, BusyStep, ServeStep, RequestStep, QuitStep,
           sockVars
  <2> QED BY <2>1, <2>2, <2>3, <2>4
<1> QED BY <1>1, <1>2 DEF ReadTrue

-----------------------------------------------------------------------------
(* The link's steps: what they send of the streams. *)

LEMMA NotServed ==
    ASSUME ~Served'
    PROVE  StreamTrue'
BY DEF StreamTrue, Live

LEMMA LinkLive ==
    ASSUME LinkDoes, cl'.fd = cl.fd
    PROVE  /\ Live' <=> Live
           /\ UNCHANGED <<fd, sess, waiting, timeouts, queue, haveReply, reply>>
<1>1. UNCHANGED <<fd, sess, waiting, timeouts, queue, haveReply, reply>>
  BY LinkLeavesRemote
<1> QED BY <1>1 DEF Live, Served, Late

\* What comes is no item: the client's greeting.
LEMMA GreetingIdle ==
    ASSUME TypeInv
    PROVE  Itemless(<<Welcome>>)
<1>1. Welcome.type = "WELCOME"
  BY DEF Welcome
<1> DEFINE w == Welcome
<1>2. ~IsItem(w)
  BY <1>1 DEF IsItem
<1> HIDE DEF w
<1>3. Itemless(<<w>>)
  BY <1>2 DEF Itemless
<1> QED BY <1>3 DEF w

LEMMA AcceptStreams ==
    ASSUME TypeInv, ConnInv, StreamInv, AcceptClient, UNCHANGED <<remoteVars, expect>>
    PROVE  StreamTrue'
<1>1. PICK c \in Conns : BusyStep(c) \/ ServeStep(c)
  BY AcceptDoes
<1>2. LinkDoes /\ c = Head(backlog) /\ backlog # <<>>
  BY <1>1 DEF LinkDoes, BusyStep, ServeStep
<1>3. UNCHANGED <<fd, sess, waiting, timeouts, queue, haveReply, reply>>
  BY <1>2, LinkLeavesRemote
<1>4. c \in Queued /\ c # 0
  BY <1>2, QueuedAre
<1>5. CASE BusyStep(c)
  <2>1. /\ UNCHANGED <<cl, out, running, dev>>
        /\ toClient' = [toClient EXCEPT ![c] = IF c \in clientEnd THEN Append(@, Busy) ELSE @]
    BY <1>5 DEF BusyStep, captureVars
  <2>2. CASE c = fd
    <3>1. cl.fd # fd
      BY <1>4, <2>2 DEF ConnInv, Ends
    <3> QED BY <1>3, <2>1, <3>1, NotServed DEF Served
  <2>3. CASE c # fd
    <3>1. fd # 0 => toClient'[fd] = toClient[fd]
      BY <2>1, <2>3 DEF TypeInv, SockTypes, RemoteTypes
    <3>2. Coming' = Coming
      BY <1>3, <2>1, <3>1 DEF Coming
    <3>3. \A m : Said(m)' <=> Said(m)
      BY <1>3, <3>2, SameNews
    <3> QED BY <1>3, <2>1, <3>2, <3>3, AllSame DEF StreamInv
  <2> QED BY <2>2, <2>3
<1>6. CASE ServeStep(c)
  <2>1. cl.fd = 0 /\ cl'.fd = c /\ out' = <<Welcome>> /\ toClient' = toClient
    BY <1>6 DEF ServeStep
  <2>2. cl' = [NoClient EXCEPT !.fd = c]
    BY <1>2, <2>1 DEF AcceptClient
  <2>3. CASE c # fd
    BY <1>3, <2>1, <2>3, NotServed DEF Served
  <2>4. CASE c = fd
    <3>1. Greets
      BY <1>6, <2>4, ServeSays
    <3>2. sess' = "opening"
      BY <1>3, <3>1 DEF Greets
    <3>3. ~Begun'
      BY <3>1, <3>2 DEF Greets, Begun, Starts, AttachDone, ConfigDone
    <3>4. queue' = <<>>
      BY <1>3, <1>4, <2>4 DEF StreamInv, ReadTrue
    <3>5. toClient'[fd] = <<>>
      BY <1>4, <2>1, <2>4 DEF ConnInv, Sockets
    <3> DEFINE w == <<Welcome>>
    <3>6. Coming' = <<>> \o w
      BY <1>3, <1>4, <2>1, <2>4, <3>5 DEF Coming
    <3>7. w \in Seq(Messages) /\ Itemless(w)
      BY GreetingIdle, GreetingsAre DEF TypeInv, LinkTypes, Welcome
    <3> HIDE DEF w
    <3>8. Coming' = w
      BY <3>6, <3>7
    <3>9. Itemless(Coming')
      BY <3>7, <3>8
    <3>10. Idle'
      BY <2>2, <3>4, <3>9, NoModes DEF Idle, Itemless
    <3> QED BY <3>3, <3>10 DEF StreamTrue
  <2> QED BY <2>3, <2>4
<1> QED BY <1>1, <1>5, <1>6

LEMMA WriteStreams ==
    ASSUME TypeInv, ConnInv, StreamInv, ClientWrite, UNCHANGED <<remoteVars, expect>>
    PROVE  StreamTrue'
<1>1. UNCHANGED <<fd, sess, waiting, timeouts, queue, haveReply, reply>>
  BY DEF remoteVars
<1>2. CASE cl.fd \in clientEnd
  <2>1. Coming' = Coming /\ UNCHANGED <<cl, running, dev>>
    BY <1>2, WriteNews DEF captureVars
  <2>2. \A m : Said(m)' <=> Said(m)
    BY <1>1, <2>1, SameNews
  <2> QED BY <1>1, <2>1, <2>2, AllSame DEF StreamInv
<1>3. CASE cl.fd \notin clientEnd
  <2>1. cl' = NoClient
    BY <1>3 DEF ClientWrite, DropClient
  <2> QED BY <2>1, NoClientIs, NotServed DEF Served
<1> QED BY <1>2, <1>3

\* How a request leaves a client that gets no items: so, or with a reply that says it starts.
Keeps(req, r) ==
    \/ ~cl'.streaming /\ ~cl'.attaching
    \/ AttachDone(r)
    \/ ConfigDone(r) /\ req.reg = "capture"

LEMMA SameAnswer ==
    ASSUME out \in Seq(Messages), NEW r \in Messages, NEW s \in Messages, Append(out, r) = Append(out, s)
    PROVE  r = s
<1>1. Append(out, r)[Len(out) + 1] = r /\ Append(out, s)[Len(out) + 1] = s
  OBVIOUS
<1> QED BY <1>1

LEMMA RequestKeeps ==
    ASSUME TypeInv, ~cl.streaming, ~cl.attaching, NEW req \in RequestType,
           NEW r \in ReplyType, out' = Append(out, r),
           OnHello(req) \/ OnStop(req) \/ RefuseConfig(req) \/ OnConfig(req) \/ OnAttach(req)
    PROVE  Keeps(req, r)
<1>1. cl \in ClientType /\ out \in Seq(Messages)
  BY DEF TypeInv, LinkTypes
<1>2. ASSUME EndIfRunning PROVE Keeps(req, r)
  BY <1>1, <1>2, NoModes DEF EndIfRunning, EndCapture, Keeps
<1>3. ASSUME cl' = cl PROVE Keeps(req, r)
  BY <1>3 DEF Keeps
<1>4. ASSUME NEW s \in {"ok", "error"}, NEW t \in Verdicts, NEW j \in Joins, Answer(req, s, t, j)
      PROVE  r = Reply(req, s, t, j)
  <2> DEFINE x == Reply(req, s, t, j)
  <2>1. x \in ReplyType /\ out' = Append(out, x)
    BY <1>4, ReplyIs DEF Answer
  <2> HIDE DEF x
  <2>2. x \in Messages /\ r \in Messages
    BY <2>1 DEF Messages, Answering
  <2>3. r = x
    BY <1>1, <2>1, <2>2, SameAnswer
  <2> QED BY <2>3 DEF x
<1>5. CASE OnHello(req) \/ OnStop(req)
  BY <1>2, <1>5 DEF OnHello, OnStop
<1>6. CASE RefuseConfig(req)
  BY <1>3, <1>6 DEF RefuseConfig
<1>7. CASE OnConfig(req)
  <2>1. Request("CONFIG", req) /\ dev \in DevType /\ req.reg \in Regs
    BY <1>7, RequestsAre DEF OnConfig, TypeInv, LinkTypes
  <2>2. req.type = "CONFIG"
    BY <2>1 DEF Request
  <2>3. PICK c \in Configs(dev, req.reg) :
           /\ Answer(req, c[1], c[2], NoJoin)
           /\ IF req.reg = "capture" /\ c[2] = "accepted" THEN TRUE ELSE cl' = cl
    BY <1>7 DEF OnConfig
  <2>4. /\ c[1] \in {"ok", "error"} /\ c[2] \in Verdicts
        /\ c[1] = "error" => c[2] = "none"
    BY <2>1, ConfigsAre
  <2>5. r = Reply(req, c[1], c[2], NoJoin)
    BY <1>4, <2>3, <2>4, NoJoinIs
  <2>6. CASE req.reg = "capture" /\ c[2] = "accepted"
    <3>1. r.type = "REPLY" /\ r.of = "CONFIG" /\ r.status = "ok" /\ r.rest = "accepted"
      BY <2>2, <2>4, <2>5, <2>6 DEF Reply
    <3> QED BY <2>6, <3>1 DEF Keeps, ConfigDone
  <2>7. CASE cl' = cl
    BY <1>3, <2>7
  <2> QED BY <2>3, <2>6, <2>7
<1>8. CASE OnAttach(req)
  <2>1. req.type = "ATTACH"
    BY <1>8 DEF OnAttach, Request
  <2>2. CASE ~running
    BY <1>3, <1>8, <2>2 DEF OnAttach
  <2>3. CASE running
    <3> DEFINE g == JoinGrid
    <3> DEFINE j == [grid |-> g, log |-> log, base |-> lossBase]
    <3>1. Answer(req, "ok", "none", j)
      BY <1>8, <2>3 DEF OnAttach
    <3>2. g \in Nat
      BY JoinGridIs DEF TypeInv, LinkTypes
    <3> HIDE DEF g
    <3>3. j \in Joins
      BY <3>2 DEF TypeInv, LinkTypes, Joins
    <3> HIDE DEF j
    <3>4. r = Reply(req, "ok", "none", j)
      BY <1>4, <3>1, <3>3 DEF Verdicts
    <3>5. AttachDone(r)
      BY <2>1, <3>4 DEF Reply, AttachDone
    <3> QED BY <3>5 DEF Keeps
  <2> QED BY <2>2, <2>3
<1> QED BY <1>5, <1>6, <1>7, <1>8

LEMMA ReplyMessage == \A r \in ReplyType : r \in Messages /\ r \notin Items /\ ~IsItem(r)
<1> SUFFICES ASSUME NEW r \in ReplyType PROVE r \in Messages /\ r \notin Items /\ ~IsItem(r)
  OBVIOUS
<1>1. r \in Answering /\ r \in Messages
  BY DEF Answering, Messages
<1>2. ~IsItem(r)
  BY <1>1, AnsweringAre
<1> QED BY <1>1, <1>2, MessagesAre

\* A sequence of answers is still one with one more.
LEMMA ItemlessMore ==
    ASSUME NEW s \in Seq(Messages), NEW m \in Messages, Itemless(s), ~IsItem(m)
    PROVE  Itemless(s \o <<m>>)
<1> DEFINE c == s \o <<m>>
<1>1. Len(s) \in Nat /\ DOMAIN s = 1 .. Len(s) /\ DOMAIN c = 1 .. Len(s) + 1
      /\ (\A i \in 1 .. Len(s) : c[i] = s[i]) /\ c[Len(s) + 1] = m
  OBVIOUS
<1> HIDE DEF c
<1> SUFFICES ASSUME NEW i \in DOMAIN c PROVE ~IsItem(c[i])
  BY DEF Itemless, c
<1>2. CASE i \in 1 .. Len(s)
  <2>1. ~IsItem(s[i])
    BY <1>1, <1>2 DEF Itemless
  <2> QED BY <1>1, <1>2, <2>1
<1>3. CASE i = Len(s) + 1
  BY <1>1, <1>3
<1>4. i \in 1 .. Len(s) \/ i = Len(s) + 1
  BY <1>1
<1> QED BY <1>2, <1>3, <1>4

LEMMA RequestStreams ==
    ASSUME AllInv, StreamInv, Requests, UNCHANGED <<remoteVars, expect>>
    PROVE  StreamTrue'
<1>1. TypeInv /\ ConnInv /\ OneAnswer /\ ReadTrue
  BY DEF AllInv, StreamInv
<1>2. PICK req : OnHello(req) \/ OnStop(req) \/ RefuseConfig(req) \/ OnConfig(req) \/ OnAttach(req)
  BY DEF Requests
<1>3. PICK r \in ReplyType : RequestStep(req, r)
  BY <1>1, <1>2, HelloAsked, StopAsked, RefuseAsked, ConfigAsked, AttachAsked
<1>4. /\ req \in RequestType /\ cl'.fd = cl.fd /\ UNCHANGED <<toClient, remoteVars>>
      /\ out' = Append(out, r)
      /\ toLink[cl.fd] # <<>> /\ req = Head(toLink[cl.fd]) /\ r.of = req.type
  BY <1>3 DEF RequestStep
<1>5. LinkDoes
  BY <1>3, <1>4 DEF LinkDoes
<1>6. /\ Live' <=> Live
      /\ UNCHANGED <<fd, sess, waiting, timeouts, queue, haveReply, reply>>
  BY <1>4, <1>5, LinkLive
<1>7. SUFFICES ASSUME Live PROVE IF Begun' THEN running' => Settled' ELSE Idle'
  BY <1>6 DEF StreamTrue
<1>8. fd # 0 /\ cl.fd = fd /\ ~Late
  BY <1>7 DEF Live, Served
<1>9. waiting # None /\ toLink[fd] = <<waiting>> /\ (\A m : ~Said(m))
  BY <1>1, <1>4, <1>8 DEF OneAnswer
<1>10. req = waiting
  BY <1>4, <1>8, <1>9
<1>11. CASE sess = "running"
  <2>1. req.type = "STOP"
    BY <1>1, <1>9, <1>10, <1>11, WaitingIs
  <2>2. running' = FALSE
    BY <1>3, <2>1 DEF RequestStep, StopDoes
  <2>3. Begun'
    BY <1>6, <1>11 DEF Begun
  <2> QED BY <2>2, <2>3
<1>12. CASE sess # "running"
  <2>1. ~Begun
    BY <1>9, <1>12 DEF Begun
  <2>2. Idle
    BY <1>7, <2>1 DEF StreamInv, StreamTrue
  <2>3. Base = Nowhere /\ At = Nowhere /\ Nowhere \in Places
    BY <1>1, <1>12, <2>2, IdleIs
  <2>4. r \in Messages /\ r \notin Items /\ ~IsItem(r)
    BY ReplyMessage
  <2> DEFINE x == <<r>>
  <2>5. x \in Seq(Messages) /\ out' = out \o x
    BY <1>1, <1>4, <2>4 DEF TypeInv, LinkTypes
  <2> HIDE DEF x
  <2>6. Coming \in Seq(Messages) /\ Coming' = Coming \o x
    BY <1>1, <1>4, <1>8, <2>5, ComingMore
  <2> DEFINE c == Coming
  <2>7. c \in Seq(Messages) /\ Itemless(c)
    BY <2>2, <2>6 DEF Idle
  <2> HIDE DEF c
  <2>8. c \o x \in Seq(Messages) /\ Itemless(c \o x)
    BY <2>4, <2>5, <2>7, ItemlessMore DEF x
  <2>9. Itemless(Coming)' /\ Coming' \in Seq(Messages) /\ Itemless(Coming')
    BY <2>6, <2>8 DEF c, Itemless
  <2>10. Base' = Nowhere
    <3>1. Base' = Base
      BY <1>6 DEF Base
    <3> QED BY <2>3, <3>1
  <2>11. At' = Nowhere
    <3>1. AfterAll(Nowhere, Coming') = Nowhere
      BY <2>3, <2>9, AnswersStay
    <3> QED BY <2>10, <3>1 DEF At
  <2>12. Settled'
    BY <2>11 DEF Settled, Nowhere, Owes, Unknown, Skipped, Broken
  <2>13. ASSUME ~Begun' PROVE Idle'
    <3>1. Said(r)'
      <4>1. News(r)
        BY <1>1, <1>3, <1>4, <1>8, RequestSays
      <4> QED BY <4>1 DEF News
    <3>2. ~Starts(r)'
      BY <2>13, <3>1 DEF Begun
    <3>3. Keeps(req, r)
      BY <1>1, <1>2, <1>4, <2>2, RequestKeeps DEF Idle
    <3>4. ~cl'.streaming /\ ~cl'.attaching
      BY <1>6, <1>10, <3>2, <3>3 DEF Keeps, Starts, AttachDone, ConfigDone
    <3>5. queue' = <<>>
      BY <1>6, <2>2 DEF Idle
    <3> QED BY <2>9, <3>4, <3>5 DEF Idle
  <2> QED BY <2>12, <2>13
<1> QED BY <1>11, <1>12

\* A pull carries the streams on to where the device's are.
LEMMA PullSettles ==
    ASSUME BackendDrops = FALSE, TypeInv, StreamInv, running, Served, Settled, NEW p \in Pulls,
           dev' = p.dev, cl' = Forward(p).cl, out' = Forward(p).out,
           UNCHANGED <<toClient, remoteVars, expect>>
    PROVE  Settled'
<1>1. ReadTrue /\ CaptureTrue
  BY DEF StreamInv
<1> DEFINE at == AfterAll(Base, toClient[fd])
<1> DEFINE q == Taking(p)
<1>2. p \in PullType /\ Carries(p) /\ q \in ForwardType /\ Ways(cl) /\ Forward(p) = Forwarded(q)
  BY <1>1, PullGives
<1>3. q.cl = cl /\ q.out = out /\ q.pull = p
  BY DEF Taking
<1>4. fd # 0 /\ cl.fd = fd /\ UNCHANGED <<fd, queue>>
  BY DEF Served, remoteVars
<1>5. toClient[fd] \in Seq(Messages) /\ out \in Seq(Messages)
  BY <1>4, ComingIs
<1>6. Base \in Places
  BY <1>1, BaseIs
<1>7. at \in Places
  BY <1>5, <1>6, AllPlaces
<1>8. LinkTypes
  BY DEF TypeInv
<1>9. out' \in Seq(Messages) /\ cl'.fd = cl.fd
  BY <1>8, ForwardIs DEF SamePlace
<1>10. At = AfterAll(at, out) /\ At' = AfterAll(at, out')
  <2>1. Coming = toClient[fd] \o out /\ Coming' = toClient[fd] \o out'
    BY <1>4, <1>9 DEF Coming
  <2>2. Base' = Base
    BY <1>4 DEF Base
  <2>3. /\ AfterAll(Base, toClient[fd] \o out) = AfterAll(at, out)
        /\ AfterAll(Base, toClient[fd] \o out') = AfterAll(at, out')
    BY <1>5, <1>9, AfterConcat
  <2> QED BY <2>1, <2>2, <2>3 DEF At
<1> HIDE DEF at, q
<1>11. Where(at, q) = At /\ Where(at, Forwarded(q)) = At'
  BY <1>2, <1>3, <1>10 DEF Where
<1>12. Accounts(at, q, Posns(dev), On(q.cl))
  BY <1>3, <1>11 DEF Accounts, Settled, Posns
<1>13. Accounts(at, Forwarded(q), Posns(p.dev), On(Forwarded(q).cl))
  BY <1>2, <1>3, <1>7, <1>12, ForwardedAccounts
<1>14. Forwarded(q).cl = cl'
  BY <1>2
<1> QED BY <1>11, <1>13, <1>14 DEF Accounts, Settled, Posns

LEMMA PullStreams ==
    ASSUME TypeInv, StreamInv, Pull \/ PullFails,
           UNCHANGED <<remoteVars, expect>>
    PROVE  StreamTrue'
<1>1. ReadTrue /\ CaptureTrue /\ LinkTypes
  BY DEF StreamInv, TypeInv
<1>2. ItemsStep /\ running
  <2>1. ItemsStep
    BY PullDoes, PullFailsDoes
  <2> QED BY <2>1 DEF ItemsStep
<1>3. cl'.fd = cl.fd /\ LinkDoes /\ toClient' = toClient
  BY <1>2 DEF ItemsStep, LinkDoes, sockVars
<1>4. PICK p \in Pulls :
         /\ out' = Forward(p).out
         /\ \/ dev' = p.dev /\ cl' = Forward(p).cl
            \/ /\ running' = FALSE
               /\ cl' = [Forward(p).cl EXCEPT !.streaming = FALSE, !.attaching = FALSE]
  BY DEF Pull, PullFails
<1>5. /\ Live' <=> Live
      /\ UNCHANGED <<fd, sess, waiting, timeouts, queue, haveReply, reply>>
  BY <1>3, LinkLive
<1>6. \A m : Said(m)' <=> Said(m)
  <2>1. \E x \in Seq(Items) : out' = out \o x
    BY <1>1, <1>4, ForwardIs
  <2> QED BY <1>3, <2>1, ItemNews
<1>7. Begun' <=> Begun
  BY <1>5, <1>6, SameBegun
<1>8. SUFFICES ASSUME Live PROVE IF Begun THEN running' => Settled' ELSE Idle'
  BY <1>5, <1>7 DEF StreamTrue
<1>9. CASE Begun
  <2>1. Settled /\ Served
    BY <1>2, <1>8, <1>9 DEF StreamInv, StreamTrue, Live
  <2>2. CASE BackendDrops = FALSE
    BY <1>2, <1>3, <1>4, <1>9, <2>1, <2>2, PullSettles
  <2>3. CASE BackendDrops # FALSE
    BY <1>9, <2>3 DEF Settled
  <2> QED BY <2>2, <2>3
<1>10. CASE ~Begun
  <2>1. Idle
    BY <1>8, <1>10 DEF StreamInv, StreamTrue
  <2> DEFINE c == Forward(p).cl
  <2>2. c = cl /\ Forward(p).out = out /\ c \in ClientType /\ ~cl.streaming /\ ~cl.attaching
    BY <1>1, <1>2, <2>1, PullGives DEF Idle
  <2>3. cl' = c \/ cl' = [c EXCEPT !.streaming = FALSE, !.attaching = FALSE]
    BY <1>4
  <2> HIDE DEF c
  <2>4. ~cl'.streaming /\ ~cl'.attaching
    BY <2>2, <2>3 DEF ClientType
  <2>5. Coming' = Coming
    BY <1>3, <1>4, <1>5, <2>2 DEF Coming
  <2>6. queue' = <<>> /\ Itemless(Coming')
    BY <1>5, <2>1, <2>5 DEF Idle
  <2> QED BY <1>10, <2>4, <2>6 DEF Idle, Itemless
<1> QED BY <1>9, <1>10

LEMMA LinkStreams ==
    ASSUME AllInv, StreamInv, LinkNext, UNCHANGED <<remoteVars, expect>>
    PROVE  StreamInv'
<1>1. TypeInv /\ ConnInv /\ ReadTrue /\ CaptureTrue
  BY DEF AllInv, StreamInv
<1>2. LinkDoes
  BY <1>1, LinkStepsDo
<1>3. ReadTrue' /\ CaptureTrue'
  BY <1>1, <1>2, LinkRead, LinkCapture
<1>4. ASSUME cl' = NoClient PROVE StreamTrue'
  BY <1>2, <1>4, NoClientIs, LinkLeavesRemote, NotServed DEF Served
<1> SUFFICES StreamTrue'
  BY <1>3 DEF StreamInv
<1>5. CASE AcceptClient
  BY <1>1, <1>5, AcceptStreams
<1>6. CASE ClientGone \/ Quit
  BY <1>4, <1>6 DEF ClientGone, DropClient, Quit
<1>7. CASE Requests
  BY <1>7, RequestStreams
<1>8. CASE ClientWrite
  BY <1>1, <1>8, WriteStreams
<1>9. CASE Pull \/ PullFails
  BY <1>1, <1>9, PullStreams
<1> QED BY <1>5, <1>6, <1>7, <1>8, <1>9 DEF LinkNext

-----------------------------------------------------------------------------
(* The client's steps: what they take of the streams. *)

\* Where the items read end goes with the capture.
Counted == expect' = IF sess' = "running" /\ sess = "running" THEN expect ELSE Nowhere

LEMMA CountedIs ==
    ASSUME ReadTrue, Counted
    PROVE  /\ expect' \in Places
           /\ sess' # "running" => expect' = Nowhere
           /\ sess' = sess \/ sess # "running" => expect' = expect
<1>1. Nowhere \in Places
  BY DEF Nowhere, Places, Place
<1> QED BY <1>1 DEF ReadTrue, Counted

LEMMA ReadSame ==
    ASSUME ReadTrue, Counted, UNCHANGED <<fd, backlog>>, queue' \in {queue, <<>>}
    PROVE  ReadTrue'
BY CountedIs DEF ReadTrue, Queued

\* Of a sequence without items no part has any.
LEMMA ItemlessParts ==
    ASSUME NEW a \in Seq(Messages), NEW b \in Seq(Messages), Itemless(a \o b)
    PROVE  Itemless(a) /\ Itemless(b)
<1> DEFINE k == Len(a)
<1> DEFINE l == Len(b)
<1> DEFINE c == a \o b
<1>1. /\ k \in Nat /\ l \in Nat /\ DOMAIN a = 1 .. k /\ DOMAIN b = 1 .. l /\ DOMAIN c = 1 .. k + l
      /\ \A i \in 1 .. k : c[i] = a[i]
      /\ \A i \in 1 .. l : c[k + i] = b[i]
  BY ConcatIs
<1>2. \A i \in DOMAIN c : ~IsItem(c[i])
  BY DEF Itemless
<1> HIDE DEF k, l, c
<1>3. \A i \in 1 .. k : i \in 1 .. k + l
  BY <1>1
<1>4. \A i \in 1 .. l : k + i \in 1 .. k + l
  BY <1>1
<1>5. Itemless(a)
  BY <1>1, <1>2, <1>3 DEF Itemless
<1>6. Itemless(b)
  <2> SUFFICES ASSUME NEW i \in 1 .. l PROVE ~IsItem(b[i])
    BY <1>1 DEF Itemless
  <2>1. ~IsItem(c[k + i]) /\ c[k + i] = b[i]
    BY <1>1, <1>2, <1>4
  <2> QED BY <2>1
<1> QED BY <1>5, <1>6

LEMMA ConnectStreams ==
    ASSUME TypeInv, ConnInv, StreamInv, Connect, Counted, UNCHANGED linkVars
    PROVE  ReadTrue' /\ StreamTrue'
<1>1. cl'.fd # fd' /\ sess' = "opening" /\ fd = 0 /\ queue' = queue
  BY ConnectSays DEF Connect
<1>2. queue' = <<>>
  BY <1>1 DEF StreamInv, ReadTrue
<1>3. ReadTrue'
  BY <1>1, <1>2, CountedIs DEF StreamInv, ReadTrue
<1> QED BY <1>1, <1>3, NotServed DEF Served

LEMMA CloseStreams ==
    ASSUME StreamInv, CloseStep, Counted, UNCHANGED linkVars
    PROVE  ReadTrue' /\ StreamTrue'
<1>1. fd' = 0 /\ queue' = <<>> /\ sess' = "closed"
  BY DEF CloseStep, CloseRemote
<1>2. ReadTrue'
  BY <1>1, CountedIs DEF StreamInv, ReadTrue
<1> QED BY <1>1, <1>2, NotServed DEF Served

LEMMA WelcomeStreams ==
    ASSUME TypeInv, OneAnswer, StreamInv, WelcomeStep, Counted, UNCHANGED linkVars
    PROVE  ReadTrue' /\ StreamTrue'
<1>1. /\ UNCHANGED <<fd, queue, timeouts, backlog, toClient>>
      /\ sess = "opening" /\ sess' = "greeted"
  BY DEF WelcomeStep, Welcomed, sockVars
<1>2. ReadTrue'
  BY <1>1, ReadSame DEF StreamInv
<1>3. UNCHANGED <<cl, out, running, dev>>
  BY DEF linkVars, captureVars
<1>4. SUFFICES ASSUME Live PROVE IF Begun' THEN running' => Settled' ELSE Idle'
  BY <1>1, <1>2, <1>3 DEF StreamTrue, Live, Served, Late
<1>5. Single /\ \A m : Said(m) => m.type \in {"WELCOME", "BUSY"}
  BY <1>1, <1>4 DEF OneAnswer, Live, Served, Due
<1>6. ~Begun
  BY <1>1, <1>5 DEF Begun, Starts, AttachDone, ConfigDone
<1>7. ~Begun'
  <2>1. \A m : ~Said(m)'
    BY <1>5, ReturnSays DEF Silent
  <2> QED BY <1>1, <2>1 DEF Begun
<1>8. Idle
  BY <1>4, <1>6 DEF StreamInv, StreamTrue
<1>9. Idle'
  BY <1>1, <1>3, <1>8 DEF Idle, Coming, Itemless
<1> QED BY <1>7, <1>9

LEMMA SendStreams ==
    ASSUME TypeInv, ConnInv, OneAnswer, StreamInv, Send, Counted, UNCHANGED linkVars
    PROVE  ReadTrue' /\ StreamTrue'
<1>1. /\ UNCHANGED <<fd, queue, timeouts, backlog, toClient, sess>>
      /\ waiting = None /\ waiting' \in NextRequests(lastId') /\ lastId' \in Nat
  BY SendIs
<1>2. ReadTrue' /\ expect' = expect
  BY <1>1, ReadSame, CountedIs DEF StreamInv
<1>3. UNCHANGED <<cl, out, running, dev>>
  BY DEF linkVars, captureVars
<1>4. Coming' = Coming
  BY <1>1, <1>3 DEF Coming
<1>5. Live' => Live
  BY <1>1, <1>3 DEF Live, Served, Late
<1>6. At' = At /\ (Idle => Idle')
  <2>1. At' = At
    BY <1>1, <1>2, <1>4 DEF At, Base
  <2>2. Idle => Idle'
    BY <1>1, <1>3, <1>4 DEF Idle, Itemless
  <2> QED BY <2>1, <2>2
<1>7. ASSUME Live PROVE Begun' <=> Begun
  <2>1. CASE sess = "running"
    BY <1>1, <2>1 DEF Begun
  <2>2. CASE sess # "running"
    <3>1. sess # "opening"
      BY <1>1, NextRequestsAre
    <3>2. \A m : ~Said(m)
      BY <1>1, <1>7, <3>1 DEF OneAnswer, Due, Live, Served
    <3>3. \A m : ~Said(m)'
      BY <3>2, SendSays DEF NoNews
    <3> QED BY <1>1, <2>2, <3>2, <3>3 DEF Begun
  <2> QED BY <2>1, <2>2
<1>8. StreamTrue'
  BY <1>3, <1>5, <1>6, <1>7, SameStreams DEF StreamInv
<1> QED BY <1>2, <1>8

LEMMA ReceiveStreams ==
    ASSUME TypeInv, ConnInv, OneAnswer, StreamInv, ReceiveStep, Counted, UNCHANGED linkVars
    PROVE  ReadTrue' /\ StreamTrue'
<1>1. UNCHANGED <<fd, backlog, sess, waiting, timeouts>> /\ fd # 0
  BY ReceiveIs DEF ReceiveStep
<1>2. UNCHANGED <<cl, running, dev>>
  BY DEF linkVars, captureVars
<1>3. ReadTrue /\ expect' = expect
  BY <1>1, CountedIs DEF StreamInv
<1>4. fd \notin Queued
  <2>1. toClient[fd] # <<>>
    BY DEF ReceiveStep, Receive
  <2> QED BY <2>1 DEF ConnInv, Sockets
<1>5. ReadTrue'
  BY <1>1, <1>3, <1>4, CountedIs DEF ReadTrue, Queued
<1>6. PICK a \in Seq(Messages) :
         /\ Coming' \in Seq(Messages) /\ Coming = a \o Coming'
         /\ \/ haveReply' = haveReply /\ reply' = reply
            \/ haveReply' /\ Brings(a, reply')
         /\ queue' = TakenAll(a).queue /\ haveReply' = TakenAll(a).have
  BY ReceiveParts
<1> DEFINE c == Coming'
<1>7. c \in Seq(Messages) /\ Coming = a \o c
  BY <1>6
<1>8. /\ AfterAll(expect, queue') = AfterAll(Base, a)
      /\ Itemless(a) => queue' = queue
      /\ \A m : Brings(a, m) => haveReply'
  BY <1>3, <1>6, TakenTells
<1> HIDE DEF c
<1>9. At' = At
  <2>1. AfterAll(Base, a \o c) = AfterAll(AfterAll(Base, a), c)
    BY <1>7, AfterConcat
  <2>2. Base' = AfterAll(Base, a)
    BY <1>3, <1>8 DEF Base
  <2> QED BY <1>7, <2>1, <2>2 DEF At, c
<1>10. ASSUME Idle PROVE Idle'
  <2>1. Itemless(a) /\ Itemless(c)
    BY <1>7, <1>10, ItemlessParts DEF Idle
  <2>2. queue' = <<>>
    BY <1>8, <1>10, <2>1 DEF Idle
  <2> QED BY <1>2, <1>10, <2>1, <2>2 DEF Idle, Itemless, c
<1>11. ASSUME Begun' PROVE Begun
  <2>1. \A m : Said(m)' => Said(m)
    BY ReceiveNews DEF NoNews
  <2> QED BY <1>1, <1>11, <2>1 DEF Begun, Starts, AttachDone, ConfigDone
<1>12. ASSUME Live, Begun PROVE Begun'
  <2>1. CASE sess = "running"
    BY <1>1, <2>1 DEF Begun
  <2>2. CASE sess # "running"
    <3>1. ~haveReply
      BY <2>2 DEF ReceiveStep
    <3>2. PICK m : Brings(Coming, m) /\ Starts(m)
      BY <1>12, <2>2, <3>1 DEF Begun, Said
    <3>3. Lone(a)
      <4>1. Lone(Coming)
        BY <1>12 DEF OneAnswer, Single, Live, Served
      <4> QED BY <1>7, <4>1, ConcatLone
    <3>4. Brings(a, m) \/ Brings(c, m)
      BY <1>7, <3>2, ConcatBrings
    <3>5. ASSUME Brings(a, m) PROVE Said(m)'
      <4>1. haveReply' /\ Brings(a, reply')
        BY <1>6, <1>8, <3>1, <3>5
      <4>2. reply' = m
        BY <3>3, <3>5, <4>1 DEF Brings, Lone
      <4> QED BY <4>1, <4>2 DEF Said
    <3>6. Said(m)'
      BY <3>4, <3>5 DEF Said, c
    <3>7. Starts(m)'
      BY <1>1, <3>2 DEF Starts, AttachDone, ConfigDone
    <3> QED BY <3>6, <3>7 DEF Begun
  <2> QED BY <2>1, <2>2
<1>13. Live' => Live
  BY <1>1, <1>2 DEF Live, Served, Late
<1>14. StreamTrue'
  BY <1>2, <1>9, <1>10, <1>11, <1>12, <1>13, SameStreams DEF StreamInv
<1> QED BY <1>5, <1>14

LEMMA ReturnStreams ==
    ASSUME TypeInv, ConnInv, OneAnswer, StreamInv, Return, Counted, UNCHANGED linkVars
    PROVE  ReadTrue' /\ StreamTrue'
<1>1. /\ waiting # None /\ haveReply /\ sess' = SessionAfter
      /\ UNCHANGED <<fd, timeouts, backlog, toClient>>
      /\ queue' = IF waiting.type = "STOP" \/ (Accepted /\ waiting.type = "HELLO")
                  THEN <<>> ELSE queue
  BY DEF Return, sockVars
<1>2. ReadTrue'
  BY <1>1, ReadSame DEF StreamInv
<1>3. UNCHANGED <<cl, out, running, dev>>
  BY DEF linkVars, captureVars
<1>4. Coming' = Coming
  BY <1>1, <1>3 DEF Coming
<1>5. /\ waiting \in RequestType
      /\ \/ waiting.type = "ATTACH" /\ sess = "greeted"
         \/ waiting.type = "HELLO" /\ sess \in {"greeted", "open"}
         \/ waiting.type = "CONFIG" /\ sess \in {"ready", "set"}
         \/ waiting.type = "STOP" /\ sess = "running"
  BY <1>1, WaitingIs
<1>6. Idle => Idle'
  BY <1>1, <1>3, <1>4 DEF Idle, Itemless
<1>7. ASSUME Live' PROVE Live /\ waiting.type # "STOP" /\ sess # "running" /\ sess # "opening"
  <2>1. waiting.type = "STOP" => SessionAfter = "over"
    BY DEF SessionAfter, Failed
  <2>2. waiting.type # "STOP"
    BY <1>1, <1>7, <2>1 DEF Live
  <2>3. sess \notin {"running", "opening", "over"}
    BY <1>5, <2>2
  <2> QED BY <1>1, <1>3, <1>7, <2>2, <2>3 DEF Live, Served, Late
<1>8. ASSUME Live' PROVE Begun <=> Starts(reply)
  <2>1. Single
    BY <1>7, <1>8 DEF OneAnswer, Live, Served
  <2>2. \A m : Said(m) <=> m = reply
    BY <1>1, <2>1 DEF Single, Said
  <2> QED BY <1>7, <1>8, <2>2 DEF Begun
<1>9. ASSUME Live' PROVE Begun' <=> SessionAfter = "running"
  <2>1. Single
    BY <1>7, <1>9 DEF OneAnswer, Live, Served
  <2>2. \A m : ~Said(m)'
    BY <2>1, ReturnSays DEF Silent
  <2> QED BY <1>1, <2>2 DEF Begun
<1>10. ASSUME Live' PROVE Starts(reply) <=> SessionAfter = "running"
  <2>1. reply.type = "REPLY" /\ reply.of = waiting.type
    BY <1>1, <1>7, <1>10 DEF OneAnswer, Due, Said, Live, Served
  <2>2. ASSUME Starts(reply) PROVE SessionAfter = "running"
    BY <2>1, <2>2 DEF Starts, AttachDone, ConfigDone, SessionAfter, Accepted, Answered
  <2>3. ASSUME SessionAfter = "running" PROVE Starts(reply)
    BY <1>5, <2>1, <2>3, AfterIs DEF Starts, AttachDone, ConfigDone, Accepted, Answered
  <2> QED BY <2>2, <2>3
<1>11. ASSUME Live', Begun PROVE At' = At
  <2>1. waiting.type # "HELLO"
    <3>1. reply.of = waiting.type
      BY <1>1, <1>7, <1>11 DEF OneAnswer, Due, Said, Live, Served
    <3> QED BY <1>8, <1>11, <3>1 DEF Starts, AttachDone, ConfigDone
  <2>2. queue' = queue
    BY <1>1, <1>7, <1>11, <2>1
  <2>3. expect' = expect
    BY <1>7, <1>11, CountedIs DEF StreamInv
  <2> QED BY <1>4, <2>2, <2>3 DEF At, Base
<1>12. Live' => (Begun' <=> Begun)
  BY <1>8, <1>9, <1>10
<1>13. StreamTrue'
  BY <1>3, <1>6, <1>7, <1>11, <1>12, SameStreams DEF StreamInv
<1> QED BY <1>2, <1>13

LEMMA TimeoutStreams ==
    ASSUME TypeInv, ConnInv, StreamInv, Timeout, Counted, UNCHANGED linkVars
    PROVE  ReadTrue' /\ StreamTrue'
<1>1. UNCHANGED <<fd, backlog>> /\ queue' \in {queue, <<>>}
  BY DEF Timeout, sockVars
<1>2. ReadTrue'
  BY <1>1, ReadSame DEF StreamInv
<1>3. ~Live'
  BY TimeoutConn DEF Live
<1> QED BY <1>2, <1>3 DEF StreamTrue

\* An item read has brought its streams where they were to come.
LEMMA ReadStreams ==
    ASSUME TypeInv, ConnInv, StreamInv, Read, expect' = AfterItem(expect, Head(queue)),
           UNCHANGED linkVars
    PROVE  ReadTrue' /\ StreamTrue'
<1> DEFINE h == Head(queue)
<1> DEFINE t == Tail(queue)
<1>1. /\ sess = "running" /\ queue # <<>> /\ queue' = t
      /\ UNCHANGED <<toClient, backlog, fd, sess, waiting, haveReply, reply, timeouts>>
  BY DEF Read, sockVars
<1>2. UNCHANGED <<cl, out, running, dev>>
  BY DEF linkVars, captureVars
<1>3. queue \in Seq(Messages) /\ expect \in Places
  BY BaseIs DEF StreamInv, ReadTrue
<1>4. h \in Messages /\ t \in Seq(Messages) /\ queue = <<h>> \o t
  BY <1>1, <1>3
<1>5. expect' = AfterItem(expect, h)
  OBVIOUS
<1> HIDE DEF h, t
<1>6. <<h>> \in Seq(Messages) /\ <<>> \in Seq(Messages) /\ Append(<<>>, h) = <<h>>
  BY <1>4
<1>7. AfterAll(expect, <<h>>) = expect'
  <2>1. AfterAll(expect, Append(<<>>, h)) = AfterItem(AfterAll(expect, <<>>), h)
    BY <1>4, <1>6, AfterAppend
  <2> QED BY <1>5, <1>6, <2>1, AfterNone
<1>8. AfterAll(expect, <<h>> \o t) = AfterAll(expect', t)
  <2> DEFINE s == <<h>>
  <2>1. s \in Seq(Messages)
    BY <1>6
  <2> HIDE DEF s
  <2>2. AfterAll(expect, s \o t) = AfterAll(AfterAll(expect, s), t)
    BY <1>4, <2>1, AfterConcat
  <2> QED BY <1>7, <2>2 DEF s
<1>9. Base' = Base
  BY <1>1, <1>4, <1>8 DEF Base
<1>10. Coming' = Coming
  BY <1>1, <1>2 DEF Coming
<1>11. At' = At /\ Begun /\ Begun'
  BY <1>1, <1>9, <1>10 DEF At, Begun
<1>12. Live' => Live
  BY <1>1, <1>2 DEF Live, Served, Late
<1>13. StreamTrue'
  BY <1>2, <1>11, <1>12, SameStreams DEF StreamInv
<1>14. ReadTrue'
  <2>1. expect' \in Places
    BY <1>3, <1>4, <1>5, ItemPlaces
  <2>2. fd # 0 /\ fd \notin Queued
    BY <1>1 DEF Read, ConnInv, Sockets
  <2> QED BY <1>1, <2>1, <2>2 DEF ReadTrue, Queued
<1> QED BY <1>13, <1>14

\* The steps of the two sides, and what they do to the items read.
LEMMA StepsCount ==
    ASSUME [Next]_vars
    PROVE  \/ LinkNext /\ UNCHANGED <<remoteVars, expect>>
           \/ Read /\ expect' = AfterItem(expect, Head(queue)) /\ UNCHANGED linkVars
           \/ RemoteDoes /\ ~Read /\ Counted /\ UNCHANGED linkVars
           \/ UNCHANGED vars
<1>1. CASE LinkStep
  BY <1>1 DEF LinkStep
<1>2. CASE RemoteStep
  BY <1>2, RemoteStepsDo DEF RemoteStep, Counted, Nowhere
<1> QED BY <1>1, <1>2 DEF Next

LEMMA RemoteStreams ==
    ASSUME AllInv, StreamInv, UNCHANGED linkVars,
           \/ Read /\ expect' = AfterItem(expect, Head(queue))
           \/ RemoteDoes /\ ~Read /\ Counted
    PROVE  StreamInv'
<1>1. TypeInv /\ ConnInv /\ OneAnswer /\ CaptureTrue
  BY DEF AllInv, StreamInv
<1>2. CaptureTrue'
  <2>1. UNCHANGED <<running, tail, dev, cl>>
    BY DEF linkVars, captureVars
  <2> QED BY <1>1, <2>1, CaptureSame
<1> SUFFICES ReadTrue' /\ StreamTrue'
  BY <1>2 DEF StreamInv
<1>3. CASE Read /\ expect' = AfterItem(expect, Head(queue))
  BY <1>1, <1>3, ReadStreams
<1>4. CASE RemoteDoes /\ ~Read /\ Counted
  <2>1. CASE Connect \/ CloseStep
    BY <1>1, <1>4, <2>1, ConnectStreams, CloseStreams
  <2>2. CASE WelcomeStep
    BY <1>1, <1>4, <2>2, WelcomeStreams
  <2>3. CASE Send \/ ReceiveStep
    BY <1>1, <1>4, <2>3, SendStreams, ReceiveStreams
  <2>4. CASE Return \/ Timeout
    BY <1>1, <1>4, <2>4, ReturnStreams, TimeoutStreams
  <2> QED BY <1>4, <2>1, <2>2, <2>3, <2>4 DEF RemoteDoes
<1> QED BY <1>3, <1>4

LEMMA StreamStep == AllInv /\ StreamInv /\ [Next]_vars => StreamInv'
<1> SUFFICES ASSUME AllInv, StreamInv, [Next]_vars PROVE StreamInv'
  OBVIOUS
<1>1. CASE LinkNext /\ UNCHANGED <<remoteVars, expect>>
  BY <1>1, LinkStreams
<1>2. CASE UNCHANGED vars
  <2>1. /\ UNCHANGED <<fd, cl, running, dev, queue, expect, sess, waiting, timeouts, tail,
                       toClient, out, backlog>>
        /\ \A m : Said(m)' <=> Said(m)
    BY <1>2, StutterSays DEF vars, sockVars, linkVars, captureVars, remoteVars
  <2>2. Coming' = Coming
    BY <2>1 DEF Coming
  <2>3. StreamTrue'
    BY <2>1, <2>2, AllSame DEF StreamInv
  <2>4. CaptureTrue'
    BY <2>1, CaptureSame DEF StreamInv
  <2>5. ReadTrue'
    BY <2>1 DEF StreamInv, ReadTrue, Queued
  <2> QED BY <2>3, <2>4, <2>5 DEF StreamInv
<1> QED BY <1>1, <1>2, StepsCount, RemoteStreams

LEMMA StreamHolds == Spec => [](AllInv /\ StreamInv)
<1>1. SystemInit => StreamInv
  BY StreamInit
<1>2. AllInv /\ StreamInv /\ [Next]_vars => StreamInv'
  BY StreamStep
<1> QED BY <1>1, <1>2, AllHolds, PTL DEF Spec

LEMMA PipeIs ==
    ASSUME TypeInv, ReadTrue, Served
    PROVE  Pipe = queue \o Coming
<1>1. /\ queue \in Seq(Messages) /\ toClient[fd] \in Seq(Messages) /\ out \in Seq(Messages)
  BY BaseIs, ComingIs DEF Served
<1>2. Pipe = (queue \o toClient[fd]) \o out /\ Coming = toClient[fd] \o out
  BY DEF Pipe, Coming, Served
<1> DEFINE t == toClient[fd]
<1>3. t \in Seq(Messages)
  BY <1>1
<1> HIDE DEF t
<1>4. (queue \o t) \o out = queue \o (t \o out)
  BY <1>1, <1>3, ConcatAssociative
<1> QED BY <1>2, <1>4 DEF t

\* All that is on its way ends where the streams are.
LEMMA PipeEnds ==
    ASSUME TypeInv, ReadTrue, Served
    PROVE  AfterAll(expect, Pipe) = At
<1>1. queue \in Seq(Messages) /\ Coming \in Seq(Messages)
  BY BaseIs
<1>2. Pipe = queue \o Coming
  BY PipeIs
<1>3. AfterAll(expect, queue \o Coming) = AfterAll(Base, Coming)
  BY <1>1, AfterConcat DEF Base
<1> QED BY <1>2, <1>3 DEF At

LEMMA StreamEnds ==
    ASSUME BackendDrops = FALSE, TypeInv, StreamInv
    PROVE  StreamAnnounced
<1> SUFFICES ASSUME Follows, ~Late, NEW d \in Dcs, cl.streaming \/ d \in cl.started
             PROVE  LET end == AfterAll(expect, Pipe)[d] IN
                    /\ end # Broken
                    /\ end \notin {Unknown, Skipped} => end + cl.dropped[d] = dev.stream[d].pos
  BY DEF StreamAnnounced
<1>1. Live /\ Begun /\ Served /\ running
  BY DEF Follows, Live, Begun, Served
<1>2. AfterAll(expect, Pipe) = At
  BY <1>1, PipeEnds DEF StreamInv
<1>3. Settled
  BY <1>1 DEF StreamInv, StreamTrue
<1>4. d \in On(cl)
  BY DEF On
<1>5. Owes(At[d], cl.dropped[d], dev.stream[d].pos)
  BY <1>3, <1>4 DEF Settled
<1> QED BY <1>2, <1>5 DEF Owes

\* Each data channel's stream, from the first unit a client gets to the last one the link
\* took, is in its items or announced by an overflow event at its place, over any number of
\* queued items, connections and captures, while the client's connection has given up no
\* request and the device's backend loses nothing of its own
\* (link.c enqueue(), forward(), on_attach(); remote.c take()).
THEOREM StreamsAnnounced ==
    ASSUME BackendDrops = FALSE
    PROVE  Spec => []StreamAnnounced
<1>1. AllInv /\ StreamInv => StreamAnnounced
  BY StreamEnds DEF AllInv
<1> QED BY <1>1, StreamHolds, PTL

-----------------------------------------------------------------------------
(* How the streams of a client that joins begin. *)

\* A DATA item that begins with a heartbeat of grid count g or a later one.
Good(m, g) == m.data # <<>> /\ m.data[1].hb >= g

\* A reading of items: where the streams are, the grid count they may begin at, and the
\* data channels that began otherwise.
OpenType == [at : Places, grid : Nat, wrong : SUBSET Dcs]

Wrong(s, m) ==
    {d \in Dcs : m.type = "DATA" /\ m.ch = d /\ s.at[d] = Unknown /\ ~Good(m, s.grid)}

OpenItem(s, m) ==
    [at |-> AfterItem(s.at, m), grid |-> s.grid, wrong |-> s.wrong \cup Wrong(s, m)]

OpenFold == INSTANCE FoldProofs WITH Op <- OpenItem

OpenAll(s, ms) == FoldLeft(OpenItem, s, ms)

LEMMA OpenAllIs == \A s, ms : OpenAll(s, ms) = OpenFold!Fold(s, ms)
BY DEF OpenAll, OpenFold!Fold, OpenFold!MapThenFoldSet, OpenFold!Max,
       FoldLeft, MapThenFoldSet, Max

\* A reading goes on.
Onward(s, r) == r \in OpenType /\ r.grid = s.grid /\ s.wrong \subseteq r.wrong

LEMMA OpenItemIs ==
    ASSUME NEW s \in OpenType, NEW m \in Messages
    PROVE  /\ Onward(s, OpenItem(s, m))
           /\ OpenItem(s, m).at = AfterItem(s.at, m)
           /\ OpenItem(s, m).wrong = s.wrong \cup Wrong(s, m)
           /\ \A d \in Dcs : OpenItem(s, m).at[d] = After(d, s.at[d], m) /\ s.at[d] \in Place
<1>1. s.at \in Places /\ s.grid \in Nat /\ s.wrong \in SUBSET Dcs
  BY DEF OpenType
<1>2. AfterItem(s.at, m) \in Places /\ \A d \in Dcs : AfterItem(s.at, m)[d] = After(d, s.at[d], m)
                                                      /\ s.at[d] \in Place
  BY <1>1, ItemPlaces
<1>3. Wrong(s, m) \in SUBSET Dcs
  BY DEF Wrong
<1> DEFINE a == AfterItem(s.at, m)
<1> DEFINE w == s.wrong \cup Wrong(s, m)
<1> DEFINE r == OpenItem(s, m)
<1>4. r = [at |-> a, grid |-> s.grid, wrong |-> w]
  BY DEF OpenItem
<1>5. a \in Places /\ w \in SUBSET Dcs /\ s.wrong \subseteq w
  BY <1>1, <1>2, <1>3
<1> HIDE DEF a, w, r
<1>6. r.at = a /\ r.grid = s.grid /\ r.wrong = w /\ r \in OpenType
  BY <1>1, <1>4, <1>5 DEF OpenType
<1>7. Onward(s, r)
  BY <1>5, <1>6 DEF Onward
<1> QED BY <1>2, <1>6, <1>7 DEF a, w, r

LEMMA OnwardThen ==
    ASSUME NEW s, NEW r, NEW t, Onward(s, r), Onward(r, t)
    PROVE  Onward(s, t)
BY DEF Onward

LEMMA OpenAllOn ==
    ASSUME NEW s \in OpenType, NEW ms \in Seq(Messages)
    PROVE  Onward(s, OpenAll(s, ms))
<1> DEFINE S == {r \in OpenType : Onward(s, r)}
<1>1. s \in S
  BY DEF Onward
<1>2. ASSUME NEW r \in S, NEW i \in 1 .. Len(ms) PROVE OpenItem(r, ms[i]) \in S
  <2>1. ms[i] \in Messages /\ r \in OpenType /\ Onward(s, r)
    OBVIOUS
  <2> HIDE DEF S
  <2>2. Onward(r, OpenItem(r, ms[i]))
    BY <2>1, OpenItemIs
  <2>3. Onward(s, OpenItem(r, ms[i]))
    BY <2>1, <2>2, OnwardThen
  <2> QED BY <2>3 DEF S, Onward
<1> HIDE DEF S
<1>3. OpenFold!Fold(s, ms) \in S
  BY <1>1, <1>2, OpenFold!FoldWithin
<1> QED BY <1>3, OpenAllIs DEF S

LEMMA OpenNone == \A s : OpenAll(s, <<>>) = s
BY OpenAllIs, OpenFold!FoldEmpty

LEMMA OpenAppend ==
    ASSUME NEW s, NEW ms \in Seq(Messages), NEW m \in Messages
    PROVE  OpenAll(s, Append(ms, m)) = OpenItem(OpenAll(s, ms), m)
BY OpenAllIs, OpenFold!FoldAppend

LEMMA OpenConcat ==
    ASSUME NEW s, NEW ms \in Seq(Messages), NEW ns \in Seq(Messages)
    PROVE  OpenAll(s, ms \o ns) = OpenAll(OpenAll(s, ms), ns)
BY OpenAllIs, OpenFold!FoldConcat

\* What is no item changes nothing.
LEMMA OpenAnswer ==
    ASSUME NEW s \in OpenType, NEW m, ~IsItem(m)
    PROVE  OpenItem(s, m) = s
<1>1. s.at \in Places /\ m.type # "DATA"
  BY DEF OpenType, IsItem
<1>2. AfterItem(s.at, m) = s.at
  BY <1>1, AnswerStays
<1>3. Wrong(s, m) = {}
  BY <1>1 DEF Wrong
<1>4. OpenItem(s, m) = [at |-> s.at, grid |-> s.grid, wrong |-> s.wrong]
  BY <1>2, <1>3 DEF OpenItem
<1> QED BY <1>4 DEF OpenType

LEMMA OpenAnswers ==
    ASSUME NEW s \in OpenType, NEW ms \in Seq(Messages), Itemless(ms)
    PROVE  OpenAll(s, ms) = s
<1> DEFINE S == {s}
<1>1. ASSUME NEW v \in S, NEW i \in 1 .. Len(ms) PROVE OpenItem(v, ms[i]) \in S
  <2>1. v = s /\ ~IsItem(ms[i])
    BY DEF Itemless
  <2> QED BY <2>1, OpenAnswer
<1>2. s \in S
  OBVIOUS
<1> HIDE DEF S
<1>3. OpenFold!Fold(s, ms) \in S
  BY <1>1, <1>2, OpenFold!FoldWithin
<1> QED BY <1>3, OpenAllIs DEF S

\* A stream that has begun stays begun.
LEMMA BegunStays ==
    ASSUME NEW d, NEW p \in Place, p # Unknown, NEW m \in Messages
    PROVE  After(d, p, m) # Unknown
<1>2. CASE m.type = "DATA"
  <2> DEFINE S == Place \ {Unknown}
  <2>1. m.data \in Seq(UnitType)
    BY <1>2, StreamItemIs
  <2> DEFINE u == m.data
  <2>2. ASSUME NEW v \in S, NEW i \in 1 .. Len(u) PROVE UnitAfter(v, u[i]) \in S
    <3>1. u[i].p \in Nat
      BY <2>1, UnitIs
    <3>2. u[i].p + 1 \in Nat
      BY <3>1
    <3> QED BY <3>2 DEF UnitAfter, Place, Broken, Unknown
  <2>3. p \in S /\ u \in Seq(UnitType)
    BY <2>1
  <2> HIDE DEF S, u
  <2>4. UnitsFold!Fold(p, u) \in S
    BY <2>2, <2>3, UnitsFold!FoldWithin
  <2>5. After(d, p, m) \in {p, UnitsAfter(p, u)}
    BY <1>2 DEF After, UnitsAfter, u
  <2> QED BY <2>4, <2>5, UnitsAre DEF S
<1>3. CASE m.type = "EVENT"
  <2>1. m.bytes \in Nat
    BY <1>3, StreamItemIs
  <2>2. p \notin {Unknown, Skipped, Broken} => p + m.bytes # Unknown
    <3>1. p \notin {Unknown, Skipped, Broken} => p \in Nat
      BY DEF Place
    <3> QED BY <2>1, <3>1 DEF Unknown
  <2> QED BY <1>3, <2>2 DEF After, Unknown, Skipped, Broken
<1>4. CASE m.type \notin {"DATA", "EVENT"}
  BY <1>4 DEF After
<1> QED BY <1>2, <1>3, <1>4

\* A DATA item that is not empty begins its stream.
LEMMA DataBegins ==
    ASSUME NEW m \in DataType, NEW p \in Place, m.data # <<>>
    PROVE  After(m.ch, p, m) # Unknown
<1> DEFINE u == m.data
<1> DEFINE n == Len(u)
<1>1. m.type = "DATA" /\ u \in Seq(UnitType) /\ n \in Nat /\ n # 0 /\ DOMAIN u = 1 .. n
  BY DEF DataType
<1>2. After(m.ch, p, m) = UnitsFold!Fold(p, u)
  BY <1>1, UnitsAre DEF After, UnitsAfter
<1> HIDE DEF u, n
<1>3. PICK t : UnitsFold!Chain(t, p, u, n) /\ UnitsFold!Fold(p, u) = t[n]
  BY <1>1, UnitsFold!FoldChain DEF n
<1>4. t[0] = p /\ \A i \in 1 .. n : t[i] = UnitAfter(t[i - 1], u[i])
  BY <1>3 DEF UnitsFold!Chain
<1>5. n \in 1 .. n
  BY <1>1
<1>6. t[n] = UnitAfter(t[n - 1], u[n]) /\ u[n].p \in Nat
  BY <1>1, <1>4, <1>5, UnitIs DEF n
<1> QED BY <1>2, <1>3, <1>6 DEF UnitAfter, Broken, Unknown

\* The reading s, at the end of q's queue.
Reading(s, q) == OpenAll(s, q.out)

LEMMA ReadingCases ==
    ASSUME NEW s \in OpenType, NEW q \in ForwardType, NEW m \in Items
    PROVE  \/ /\ Enqueue(q, m).cl = CountDrop(q.cl, m)
              /\ Reading(s, Enqueue(q, m)) = Reading(s, q)
           \/ /\ ~Announces(q.cl, m) /\ Enqueue(q, m).cl = q.cl
              /\ Reading(s, Enqueue(q, m)) = OpenItem(Reading(s, q), m)
           \/ /\ Announces(q.cl, m) /\ Enqueue(q, m).cl = Told(q.cl, m)
              /\ Reading(s, Enqueue(q, m))
                     = OpenItem(OpenItem(Reading(s, q), Announcement(q.cl, m)), m)
<1> DEFINE o == q.out
<1> DEFINE a == Announcement(q.cl, m)
<1>1. o \in Seq(Messages) /\ m \in Messages /\ a \in Messages
  BY EnqueueOuts
<1> HIDE DEF o, a
<1>2. Append(o, a) \in Seq(Messages)
  BY <1>1
<1>3. /\ OpenAll(s, Append(o, m)) = OpenItem(OpenAll(s, o), m)
      /\ OpenAll(s, Append(o, a)) = OpenItem(OpenAll(s, o), a)
      /\ OpenAll(s, Append(Append(o, a), m)) = OpenItem(OpenAll(s, Append(o, a)), m)
  BY <1>1, <1>2, OpenAppend
<1> QED BY <1>3, EnqueueOuts DEF Reading, o, a

\* Of the data channels in on none began wrong, and those that have not begun will not:
\* an overflow event is owed.
Sound(s, c, on) == s.wrong = {} /\ \A d \in on : s.at[d] = Unknown => c.dropped[d] > 0

\* An item that may come next: not of a data channel that is to begin, or one that begins it.
May(m, g, on) == m \in DataType => m.ch \in on \/ Good(m, g)

\* The data channels that have items once m has come.
Joining(on, m) == on \cup {d \in Dcs : m \in DataType /\ m.ch = d}

\* An item after which reading w is sound for the data channels in on, if they have begun
\* or are owed an event by then.
LEMMA ItemOpens ==
    ASSUME NEW w \in OpenType, w.wrong = {}, NEW m \in Messages,
           m.type = "DATA" => w.at[m.ch] # Unknown \/ Good(m, w.grid)
    PROVE  OpenItem(w, m).wrong = {}
<1>1. Wrong(w, m) = {}
  BY DEF Wrong
<1> QED BY <1>1, OpenItemIs

LEMMA EnqueueOpens ==
    ASSUME NEW s \in OpenType, NEW q \in ForwardType, NEW m \in Items, NEW on \in SUBSET Dcs,
           May(m, s.grid, on), Sound(Reading(s, q), q.cl, on)
    PROVE  Sound(Reading(s, Enqueue(q, m)), Enqueue(q, m).cl, Joining(on, m))
<1> DEFINE w == Reading(s, q)
<1> DEFINE r == Enqueue(q, m)
<1> DEFINE z == Reading(s, r)
<1> DEFINE next == Joining(on, m)
<1>1. m \in Messages /\ q.cl \in ClientType /\ q.cl.dropped \in Counts /\ q.out \in Seq(Messages)
  BY ClientFields DEF Messages, ForwardType
<1>2. w \in OpenType /\ w.grid = s.grid
  BY <1>1, OpenAllOn DEF Reading, Onward
<1>3. \A d \in Dcs : w.at[d] \in Place /\ q.cl.dropped[d] \in Nat
  BY <1>1, <1>2, OpenItemIs DEF Counts
<1>4. w.wrong = {} /\ \A d \in on : w.at[d] = Unknown => q.cl.dropped[d] > 0
  BY DEF Sound
<1>5. m.type = "DATA" => m \in DataType /\ m.ch \in Dcs /\ Len(m.data) \in Nat
                         /\ (m.data # <<>> => Len(m.data) > 0)
  BY ItemsAre DEF DataType
<1>6. m \in DataType => m.type = "DATA"
  BY DEF DataType
<1>7. next \in SUBSET Dcs /\ \A d \in next \ on : m \in DataType /\ m.ch = d /\ m.data # <<>>
  BY DEF Joining, May, Good
<1>8. r.cl.dropped \in Counts
  <2>1. Adds(q, r)
    BY EnqueueIs
  <2> HIDE DEF r
  <2>2. r.cl \in ClientType
    BY <2>1 DEF Adds, ForwardType
  <2> QED BY <2>2, ClientFields
<1> SUFFICES Sound(z, r.cl, next)
  OBVIOUS
<1> HIDE DEF next, w
<1>9. CASE r.cl = CountDrop(q.cl, m) /\ z = w
  <2>1. CASE m.type = "DATA"
    <3>1. r.cl.dropped = [q.cl.dropped EXCEPT ![m.ch] = @ + Len(m.data)]
      BY <1>1, <1>5, <1>9, <2>1 DEF CountDrop, ClientType
    <3> HIDE DEF r, z
    <3>2. ASSUME NEW d \in next, w.at[d] = Unknown PROVE r.cl.dropped[d] > 0
      <4>1. d \in Dcs /\ r.cl.dropped[d] = q.cl.dropped[d] + (IF m.ch = d THEN Len(m.data) ELSE 0)
        BY <1>1, <1>5, <1>7, <2>1, <3>1 DEF Counts
      <4>2. CASE d \in on
        BY <1>3, <1>4, <1>5, <2>1, <3>2, <4>1, <4>2
      <4>3. CASE d \notin on
        BY <1>3, <1>5, <1>7, <2>1, <4>1, <4>3
      <4> QED BY <4>2, <4>3
    <3> QED BY <1>4, <1>9, <3>2 DEF Sound
  <2>2. CASE m.type # "DATA"
    <3>1. r.cl.dropped = q.cl.dropped
      BY <1>1, <1>9, <2>2 DEF CountDrop, ClientType
    <3>2. next \in SUBSET on
      BY <1>6, <1>7, <2>2
    <3> HIDE DEF r, z
    <3> QED BY <1>4, <1>9, <3>1, <3>2 DEF Sound
  <2> QED BY <2>1, <2>2
<1>10. CASE ~Announces(q.cl, m) /\ r.cl = q.cl /\ z = OpenItem(w, m)
  <2> HIDE DEF r, z
  <2>1. m.type = "DATA" => ~(q.cl.dropped[m.ch] > 0)
    BY <1>10 DEF Announces
  <2>2. m.type = "DATA" => w.at[m.ch] # Unknown \/ Good(m, w.grid)
    BY <1>2, <1>4, <1>5, <2>1 DEF May
  <2>3. z.wrong = {}
    BY <1>1, <1>2, <1>4, <1>10, <2>2, ItemOpens
  <2>4. ASSUME NEW d \in next, z.at[d] = Unknown PROVE r.cl.dropped[d] > 0
    <3>1. d \in Dcs /\ z.at[d] = After(d, w.at[d], m)
      BY <1>1, <1>2, <1>7, <1>10, OpenItemIs
    <3>2. w.at[d] = Unknown
      BY <1>1, <1>3, <2>4, <3>1, BegunStays
    <3>3. d \in on
      <4>1. CASE d \notin on
        <5>1. m \in DataType /\ m.ch = d /\ m.data # <<>>
          BY <1>7, <4>1
        <5>2. After(m.ch, w.at[d], m) # Unknown
          BY <1>3, <3>1, <5>1, DataBegins
        <5> QED BY <2>4, <3>1, <5>1, <5>2
      <4> QED BY <4>1
    <3> QED BY <1>4, <1>10, <3>2, <3>3
  <2> QED BY <2>3, <2>4 DEF Sound
<1>11. CASE /\ Announces(q.cl, m) /\ r.cl = Told(q.cl, m)
            /\ z = OpenItem(OpenItem(w, Announcement(q.cl, m)), m)
  <2> DEFINE a == Announcement(q.cl, m)
  <2> DEFINE y == OpenItem(w, a)
  <2>1. a \in Messages /\ a.type = "EVENT"
    BY EnqueueOuts DEF Announcement, Overflow
  <2>2. m.type = "DATA" => a.ch = m.ch /\ a.bytes = q.cl.dropped[m.ch] /\ q.cl.dropped[m.ch] > 0
    BY <1>11 DEF Announcement, Overflow, Owed, Announces
  <2>3. m.type = "DATA" => r.cl.dropped = [q.cl.dropped EXCEPT ![m.ch] = 0]
    BY <1>1, <1>11 DEF Told, ClientType
  <2>4. m.type # "DATA" => r.cl.dropped = q.cl.dropped
    BY <1>1, <1>11 DEF Told, ClientType
  <2> HIDE DEF a, r
  <2>5. y \in OpenType /\ y.wrong = {} /\ \A d \in Dcs : y.at[d] = After(d, w.at[d], a)
    BY <1>2, <1>4, <2>1, ItemOpens, OpenItemIs DEF Onward
  <2>6. z = OpenItem(y, m)
    BY <1>11 DEF a
  <2> HIDE DEF y, z
  <2>7. m.type = "DATA" => y.at[m.ch] # Unknown
    <3>1. SUFFICES ASSUME m.type = "DATA" PROVE y.at[m.ch] # Unknown
      OBVIOUS
    <3>2. m.ch \in Dcs /\ w.at[m.ch] \in Place /\ a.bytes \in Nat /\ a.bytes # 0
      BY <1>3, <1>5, <2>2, <3>1
    <3>3. y.at[m.ch] = After(m.ch, w.at[m.ch], a)
      BY <2>5, <3>2
    <3>4. w.at[m.ch] \in {Unknown, Skipped} => y.at[m.ch] = Skipped
      BY <2>1, <2>2, <3>1, <3>2, <3>3 DEF After, Unknown, Skipped, Broken
    <3> QED BY <2>1, <3>2, <3>3, <3>4, BegunStays DEF Unknown, Skipped
  <2>8. z.wrong = {}
    BY <1>1, <2>5, <2>6, <2>7, ItemOpens
  <2>9. ASSUME NEW d \in next, z.at[d] = Unknown PROVE r.cl.dropped[d] > 0
    <3>1. d \in Dcs /\ z.at[d] = After(d, y.at[d], m) /\ y.at[d] \in Place
      BY <1>1, <1>7, <2>5, <2>6, OpenItemIs
    <3>2. y.at[d] = Unknown
      BY <1>1, <2>9, <3>1, BegunStays
    <3>3. y.at[d] = After(d, w.at[d], a) /\ w.at[d] \in Place
      BY <1>3, <2>5, <3>1
    <3>4. w.at[d] = Unknown
      BY <2>1, <3>2, <3>3, BegunStays
    <3>5. ~(m.type = "DATA" /\ m.ch = d)
      BY <2>7, <3>2
    <3>6. d \in on
      BY <1>6, <1>7, <3>5
    <3>7. r.cl.dropped[d] = q.cl.dropped[d]
      BY <1>1, <1>5, <2>3, <2>4, <3>1, <3>5 DEF Counts
    <3> QED BY <1>4, <3>4, <3>6, <3>7
  <2> QED BY <2>8, <2>9 DEF Sound
<1>12. \/ r.cl = CountDrop(q.cl, m) /\ z = w
       \/ ~Announces(q.cl, m) /\ r.cl = q.cl /\ z = OpenItem(w, m)
       \/ /\ Announces(q.cl, m) /\ r.cl = Told(q.cl, m)
          /\ z = OpenItem(OpenItem(w, Announcement(q.cl, m)), m)
  BY ReadingCases DEF w
<1> QED BY <1>9, <1>10, <1>11, <1>12

-----------------------------------------------------------------------------
(* The heartbeats a pull has seen, and the units they start in. *)

\* A stream in the middle of a heartbeat has the unit it started in at its tail's end.
Halves(tl, v) ==
    \A d \in Dcs : v.stream[d].half > 0 /\ tl[d] # <<>> => tl[d][Len(tl[d])].hb = v.stream[d].half

\* Where the heartbeat x starts in its tail.
Offset(p, x) == x.pos - TailPos(p, x.dc) + 1

\* The unit the heartbeat x starts in says so, if the tail still has it.
Marks(p, x) ==
    /\ x.pos < p.pos[x.dc]
    /\ Offset(p, x) > 0 => p.tail[x.dc][Offset(p, x)].hb = x.grid

MarksTrue(p) == Halves(p.tail, p.dev) /\ \A i \in DOMAIN p.seen : Marks(p, p.seen[i])

LEMMA SeenParts ==
    ASSUME NEW x \in SeenType, NEW p \in PullType
    PROVE  /\ x.dc \in Dcs /\ x.pos \in Int /\ x.grid \in Nat /\ p.pos[x.dc] \in Nat
           /\ p.tail[x.dc] \in Seq(UnitType)
BY PullParts DEF SeenType, Counts

\* One unit more leaves the heartbeats before where they are.
LEMMA MarksStay ==
    ASSUME NEW p \in PullType, NEW x \in SeenType, Marks(p, x), NEW d \in Dcs, NEW hb \in Nat,
           NEW r, TeeGives(p, d, hb, r)
    PROVE  Marks(r, x)
<1> DEFINE u == Unit(p, d, hb)
<1>5. /\ u \in UnitType /\ r.pos = [p.pos EXCEPT ![d] = p.pos[d] + 1]
      /\ r.tail = [p.tail EXCEPT ![d] = Append(p.tail[d], u)]
  BY DEF TeeGives
<1> HIDE DEF u
<1> DEFINE c == x.dc
<1> DEFINE a == p.tail[c]
<1> DEFINE e == p.pos[c]
<1> DEFINE n == Len(a)
<1>1. c \in Dcs /\ x.pos \in Int /\ e \in Nat /\ a \in Seq(UnitType) /\ n \in Nat
  BY SeenParts
<1>2. x.pos < e /\ (x.pos - (e - n) + 1 > 0 => a[x.pos - (e - n) + 1].hb = x.grid)
  BY DEF Marks, Offset, TailPos
<1>3. CASE c = d
  <2> DEFINE b == Append(a, u)
  <2>1. r.pos[c] = e + 1 /\ r.tail[c] = b
    BY <1>1, <1>3, <1>5, PullParts DEF Counts
  <2>2. Len(b) = n + 1 /\ \A i \in 1 .. n : b[i] = a[i]
    BY <1>1, <1>5
  <2> HIDE DEF a, b, c, e, n
  <2>3. Offset(r, x) = x.pos - (e - n) + 1
    BY <1>1, <2>1, <2>2 DEF Offset, TailPos, c
  <2> DEFINE i == x.pos - (e - n) + 1
  <2>4. i > 0 => i \in 1 .. n
    BY <1>1, <1>2
  <2> HIDE DEF i
  <2>5. i > 0 => b[i].hb = x.grid
    BY <1>2, <2>2, <2>4 DEF i
  <2>6. x.pos < e + 1
    BY <1>1, <1>2
  <2> QED BY <2>1, <2>3, <2>5, <2>6 DEF Marks, c, i
<1>4. CASE c # d
  <2>1. r.pos[c] = e /\ r.tail[c] = a
    BY <1>1, <1>4, <1>5, PullParts DEF Counts
  <2> QED BY <1>2, <2>1 DEF Marks, Offset, TailPos
<1> QED BY <1>3, <1>4

LEMMA HalvesMore ==
    ASSUME NEW p \in PullType, NEW d \in Dcs, NEW hb \in Nat, NEW r, TeeGives(p, d, hb, r),
           Halves(p.tail, p.dev)
    PROVE  Halves(r.tail, r.dev)
<1> DEFINE u == Unit(p, d, hb)
<1>1. /\ u \in UnitType /\ r.tail = [p.tail EXCEPT ![d] = Append(p.tail[d], u)]
      /\ r.dev.stream = [p.dev.stream EXCEPT ![d] = Further(p.dev.stream[d], hb)]
      /\ u.hb = hb /\ Further(p.dev.stream[d], hb).half = hb
  BY DEF TeeGives, Unit, Further
<1>2. p.tail \in [Dcs -> Seq(UnitType)] /\ p.dev.stream \in [Dcs -> StreamType]
  BY PullParts, DevParts
<1> HIDE DEF u
<1> SUFFICES ASSUME NEW c \in Dcs, r.dev.stream[c].half > 0, r.tail[c] # <<>>
             PROVE  r.tail[c][Len(r.tail[c])].hb = r.dev.stream[c].half
  BY DEF Halves
<1>3. CASE c = d
  <2> DEFINE a == p.tail[d]
  <2>1. a \in Seq(UnitType)
    BY <1>2
  <2>2. r.tail[c] = Append(a, u) /\ r.dev.stream[c].half = hb
    BY <1>1, <1>2, <1>3
  <2> HIDE DEF a
  <2>3. Append(a, u)[Len(Append(a, u))] = u
    BY <1>1, <2>1
  <2> QED BY <1>1, <2>2, <2>3
<1>4. CASE c # d
  BY <1>1, <1>2, <1>4 DEF Halves
<1> QED BY <1>3, <1>4

LEMMA DataMarks ==
    ASSUME NEW p \in PullType, MarksTrue(p), NEW d \in Dcs, NEW hb \in Nat
    PROVE  MarksTrue(TeeData(p, d, hb))
<1> DEFINE r == TeeData(p, d, hb)
<1>1. TeeGives(p, d, hb, r)
  BY TeeDataDoes
<1> HIDE DEF r
<1>2. Halves(r.tail, r.dev)
  BY <1>1, HalvesMore DEF MarksTrue
<1>3. ASSUME NEW i \in DOMAIN r.seen PROVE Marks(r, r.seen[i])
  <2>1. r.seen = p.seen /\ p.seen \in Seq(SeenType)
    BY <1>1, PullParts DEF TeeGives
  <2> DEFINE x == p.seen[i]
  <2>2. x \in SeenType /\ Marks(p, x) /\ r.seen[i] = x
    BY <1>3, <2>1 DEF MarksTrue
  <2> HIDE DEF x
  <2>4. Marks(r, x)
    BY <1>1, <2>2, MarksStay
  <2> QED BY <2>2, <2>4
<1>4. MarksTrue(r)
  BY <1>2, <1>3 DEF MarksTrue
<1> QED BY <1>4 DEF r

LEMMA HeartbeatMarks ==
    ASSUME NEW p \in PullType, MarksTrue(p), NEW d \in Dcs, p.dev.stream[d].half > 0
    PROVE  MarksTrue(TeeHeartbeat(p, d))
<1> DEFINE z == TeeData(p, d, 0)
<1> DEFINE x == [dc |-> d, grid |-> p.dev.stream[d].half, pos |-> p.pos[d] - 1]
<1> DEFINE r == TeeHeartbeat(p, d)
<1> DEFINE sn == Append(z.seen, x)
<1>1. z \in PullType /\ MarksTrue(z) /\ TeeGives(p, d, 0, z)
  BY TeeDataIs, DataMarks, TeeDataDoes DEF ReadsOn
<1>2. r = [z EXCEPT !.lastGrid = [z.lastGrid EXCEPT ![d] = p.dev.stream[d].half], !.seen = sn]
  BY <1>1 DEF TeeHeartbeat, PullType
<1>3. x \in SeenType /\ x.dc = d /\ x.grid = p.dev.stream[d].half /\ x.pos = p.pos[d] - 1
  BY PullParts, DevParts DEF SeenType, Counts
<1> HIDE DEF z, x, r
<1>4. r.tail = z.tail /\ r.dev = z.dev /\ r.pos = z.pos /\ r.seen = sn
  BY <1>1, <1>2 DEF PullType
<1>5. z.seen \in Seq(SeenType)
  BY <1>1, PullParts
<1>6. Marks(z, x)
  <2> DEFINE a == p.tail[d]
  <2> DEFINE e == p.pos[d]
  <2> DEFINE n == Len(a)
  <2> DEFINE u == Unit(p, d, 0)
  <2>1. a \in Seq(UnitType) /\ n \in Nat /\ e \in Nat /\ u \in UnitType
    BY <1>1, PullParts DEF Counts, TeeGives
  <2>2. z.pos[d] = e + 1 /\ z.tail[d] = Append(a, u)
    BY <1>1, PullParts DEF Counts, TeeGives
  <2>3. Len(Append(a, u)) = n + 1 /\ \A i \in 1 .. n : Append(a, u)[i] = a[i]
    BY <2>1
  <2>4. a # <<>> => a[n].hb = p.dev.stream[d].half
    BY DEF MarksTrue, Halves
  <2>5. n > 0 => a # <<>> /\ n \in 1 .. n
    BY <2>1
  <2> HIDE DEF a, e, n, u
  <2>6. Offset(z, x) = n
    BY <1>3, <2>1, <2>2, <2>3 DEF Offset, TailPos, e
  <2>7. n > 0 => z.tail[d][n].hb = x.grid
    BY <1>3, <2>2, <2>3, <2>4, <2>5
  <2>8. x.pos < z.pos[d]
    BY <1>3, <2>1, <2>2 DEF e
  <2> QED BY <1>3, <2>6, <2>7, <2>8 DEF Marks
<1>7. ASSUME NEW i \in DOMAIN sn PROVE Marks(r, sn[i])
  <2>1. \A y : Marks(z, y) => Marks(r, y)
    BY <1>4 DEF Marks, Offset, TailPos
  <2>2. CASE i \in DOMAIN z.seen
    <3>1. sn[i] = z.seen[i] /\ Marks(z, z.seen[i])
      BY <1>1, <1>3, <1>5, <2>2 DEF MarksTrue
    <3> QED BY <2>1, <3>1
  <2>3. CASE i \notin DOMAIN z.seen
    <3>1. sn[i] = x
      BY <1>3, <1>5, <1>7, <2>3
    <3> QED BY <1>6, <2>1, <3>1
  <2> QED BY <2>2, <2>3
<1> HIDE DEF sn
<1>8. Halves(r.tail, r.dev)
  BY <1>1, <1>4 DEF MarksTrue
<1>9. MarksTrue(r)
  BY <1>4, <1>7, <1>8 DEF MarksTrue
<1> QED BY <1>9 DEF r

\* A read that takes no unit, and begins no heartbeat.
LEMMA OtherMarks ==
    ASSUME NEW p \in PullType, MarksTrue(p), NEW r,
           r.tail = p.tail, r.pos = p.pos, r.seen = p.seen,
           \A d \in Dcs : r.dev.stream[d].half \in {0, p.dev.stream[d].half}
    PROVE  MarksTrue(r)
<1>1. Halves(r.tail, r.dev)
  BY DEF MarksTrue, Halves
<1>2. \A x : Marks(p, x) => Marks(r, x)
  BY DEF Marks, Offset, TailPos
<1> QED BY <1>1, <1>2 DEF MarksTrue

LEMMA ReportMarks ==
    ASSUME NEW p \in PullType, MarksTrue(p)
    PROVE  MarksTrue(TeeReport(p))
<1> DEFINE n == p.dev.reports + 1
<1> DEFINE v == [p.dev EXCEPT !.reports = n]
<1> DEFINE t == Append(p.taken, Control(n))
<1> DEFINE r == TeeReport(p)
<1>1. p.dev \in DevType
  BY PullParts
<1>2. r = [p EXCEPT !.dev = v, !.base = n, !.taken = t]
  BY <1>1 DEF TeeReport, PullType, DevType
<1>3. v.stream = p.dev.stream
  BY <1>1 DEF DevType
<1> HIDE DEF v, t, n, r
<1>4. r.dev = v /\ r.tail = p.tail /\ r.pos = p.pos /\ r.seen = p.seen
  BY <1>2 DEF PullType
<1>5. MarksTrue(r)
  BY <1>3, <1>4, OtherMarks
<1> QED BY <1>5 DEF r

LEMMA OverflowMarks ==
    ASSUME NEW p \in PullType, MarksTrue(p), NEW d \in Dcs
    PROVE  MarksTrue(TeeOverflow(p, d))
<1> DEFINE s == p.dev.stream[d]
<1> DEFINE next == [pos |-> s.pos + 1, half |-> 0, grid |-> s.grid]
<1> DEFINE v == [p.dev EXCEPT !.stream = [p.dev.stream EXCEPT ![d] = next]]
<1> DEFINE t == Append(p.taken, Overflow(d, 1, 0, FALSE))
<1> DEFINE r == TeeOverflow(p, d)
<1>1. p.dev \in DevType /\ p.dev.stream \in [Dcs -> StreamType]
  BY PullParts, DevParts
<1>2. r = [p EXCEPT !.dev = v, !.taken = t]
  BY <1>1 DEF TeeOverflow, PullType, DevType
<1>3. v.stream = [p.dev.stream EXCEPT ![d] = next] /\ next.half = 0
  BY <1>1 DEF DevType
<1> HIDE DEF v, t, next, r
<1>4. r.dev = v /\ r.tail = p.tail /\ r.pos = p.pos /\ r.seen = p.seen
  BY <1>2 DEF PullType
<1>5. \A c \in Dcs : v.stream[c].half \in {0, p.dev.stream[c].half}
  BY <1>1, <1>3
<1>6. MarksTrue(r)
  BY <1>4, <1>5, OtherMarks
<1> QED BY <1>6 DEF r

LEMMA ReadMarks ==
    ASSUME NEW p \in PullType, MarksTrue(p), NEW r \in TeeRead(p)
    PROVE  MarksTrue(r)
<1>1. CASE r \in {TeeData(p, d, 0) : d \in Sends(p)}
  BY <1>1, DataMarks DEF Sends
<1>2. CASE r \in {TeeData(p, d, p.dev.stream[d].grid + 1) :
                      d \in {c \in Sends(p) : p.dev.stream[c].half = 0}}
  <2>1. PICK d \in Sends(p) : r = TeeData(p, d, p.dev.stream[d].grid + 1)
    BY <1>2
  <2>2. d \in Dcs
    BY DEF Sends
  <2> DEFINE hb == p.dev.stream[d].grid + 1
  <2>3. hb \in Nat
    BY <2>2, PullParts, DevParts
  <2> HIDE DEF hb
  <2>4. MarksTrue(TeeData(p, d, hb))
    BY <2>2, <2>3, DataMarks
  <2> QED BY <2>1, <2>4 DEF hb
<1>3. CASE r \in {TeeHeartbeat(p, d) : d \in {c \in Sends(p) : p.dev.stream[c].half > 0}}
  BY <1>3, HeartbeatMarks DEF Sends
<1>4. CASE r \in {TeeOverflow(p, d) : d \in {c \in Sends(p) : BackendDrops}}
  BY <1>4, OverflowMarks DEF Sends
<1>5. CASE r \in (IF p.dev.reports < MaxReports THEN {TeeReport(p)} ELSE {})
  BY <1>5, ReportMarks
<1> QED BY <1>1, <1>2, <1>3, <1>4, <1>5 DEF TeeRead

\* A pull keeps the last unit of every tail.
LEMMA StartMarks ==
    ASSUME LinkTypes, Halves(tail, dev)
    PROVE  MarksTrue(PullStart)
<1> DEFINE Kept(d) == LET over == Len(tail[d]) - TailKeep IN
                      IF over > 0 THEN SubSeq(tail[d], over + 1, Len(tail[d])) ELSE tail[d]
<1> DEFINE tl == [d \in Dcs |-> Kept(d)]
<1>1. PullStart = [dev |-> dev, taken |-> <<>>, seen |-> <<>>, lastGrid |-> lastGrid,
                   base |-> lossBase, pos |-> pos, tail |-> tl]
  BY DEF PullStart
<1>2. ASSUME NEW d \in Dcs, dev.stream[d].half > 0, Kept(d) # <<>>
      PROVE  Kept(d)[Len(Kept(d))].hb = dev.stream[d].half
  <2> DEFINE u == tail[d]
  <2> DEFINE n == Len(u)
  <2> DEFINE k == (n - TailKeep) + 1
  <2>1. u \in Seq(UnitType) /\ n \in Nat /\ TailKeep \in Nat \ {0}
    BY LinkAssumption DEF LinkTypes
  <2>2. u # <<>> => u[n].hb = dev.stream[d].half
    BY <1>2 DEF Halves
  <2>3. CASE n - TailKeep > 0
    <3>1. Kept(d) = SubSeq(u, k, n)
      BY <2>3
    <3> HIDE DEF Kept
    <3>2. k \in 1 .. n /\ n > 0
      BY <2>1, <2>3
    <3>3. u # <<>>
      BY <2>1, <3>2
    <3> HIDE DEF u
    <3> DEFINE s == SubSeq(u, k, n)
    <3>4. Len(s) = n - k + 1 /\ \A i \in 1 .. n - k + 1 : s[i] = u[k + i - 1]
      BY <2>1, <3>2
    <3> HIDE DEF s
    <3>5. n - k + 1 \in 1 .. n - k + 1 /\ k + (n - k + 1) - 1 = n
      <4> HIDE DEF n
      <4> QED BY <2>1, <3>2
    <3>6. s[Len(s)] = u[n]
      BY <3>4, <3>5
    <3> QED BY <2>2, <3>1, <3>3, <3>6 DEF s
  <2>4. CASE ~(n - TailKeep > 0)
    BY <1>2, <2>2, <2>4
  <2> QED BY <2>3, <2>4
<1> HIDE DEF Kept
<1>3. Halves(tl, dev)
  BY <1>2 DEF Halves
<1> HIDE DEF tl
<1> DEFINE r == PullStart
<1>4. r.tail = tl /\ r.dev = dev /\ r.seen = <<>>
  BY <1>1
<1> HIDE DEF r
<1>5. MarksTrue(r)
  BY <1>3, <1>4 DEF MarksTrue
<1> QED BY <1>5 DEF r

\* The pulls of this state whose heartbeats start where they say.
Markers == {p \in PullsOn : MarksTrue(p)}

LEMMA PullsMark ==
    ASSUME LinkTypes, Halves(tail, dev)
    PROVE  Pulls \in SUBSET Markers
<1> DEFINE s == [i \in 1 .. PullMax |-> i]
<1>1. s \in Seq(Nat)
  BY LinkAssumption
<1> DEFINE S == SUBSET Markers
<1>2. {PullStart} \in S
  BY PullStartIs, StartMarks DEF Markers
<1>3. ASSUME NEW ps \in S, NEW i \in 1 .. Len(s) PROVE PullOn(ps, s[i]) \in S
  <2>1. ASSUME NEW p \in ps, NEW r \in TeeRead(p) PROVE r \in Markers
    <3>1. p \in PullType /\ SameSetup(dev, p.dev) /\ MarksTrue(p)
      BY DEF PullsOn, Markers
    <3>2. ReadsOn(p, r)
      BY <3>1, TeeReadIs
    <3>3. MarksTrue(r)
      BY <3>1, ReadMarks
    <3> QED BY <3>1, <3>2, <3>3 DEF ReadsOn, PullsOn, SameSetup, Markers
  <2>2. UNION {TeeRead(p) : p \in ps} \in SUBSET Markers
    BY <2>1
  <2> QED BY <2>2 DEF PullOn
<1> HIDE DEF S, s
<1>4. PullFold!Fold({PullStart}, s) \in S
  BY <1>1, <1>2, <1>3, PullFold!FoldWithin
<1>5. Pulls \in S
  BY <1>4 DEF Pulls, s, PullFold!Fold, PullFold!MapThenFoldSet,
              PullFold!Max, FoldLeft, MapThenFoldSet, Max
<1> QED BY <1>5 DEF S

\* What a data channel that begins is sent first is the start of a heartbeat it may begin at.
LEMMA FirstGood ==
    ASSUME NEW p \in PullType, MarksTrue(p), NEW c \in ClientType, NEW d \in Dcs,
           StartsAt(p, c, d) # {}
    PROVE  Good(FirstData(p, c, d), c.grid)
<1> DEFINE i == FirstStart(p, c, d)
<1> DEFINE x == p.seen[i]
<1> DEFINE u == p.tail[d]
<1> DEFINE n == Len(u)
<1>1. i \in DOMAIN p.seen /\ x.dc = d /\ x.grid >= c.grid /\ x.pos >= TailPos(p, d)
  BY FirstStartIs DEF StartsAt
<1>2. x \in SeenType /\ Marks(p, x)
  BY <1>1, PullParts DEF MarksTrue
<1>3. u \in Seq(UnitType) /\ n \in Nat /\ p.pos[d] \in Nat /\ x.pos \in Int /\ x.grid \in Nat
  BY <1>1, <1>2, SeenParts
<1> DEFINE k == x.pos - TailPos(p, d) + 1
<1>4. FirstData(p, c, d) = Data(d, SubSeq(u, k, n))
  BY DEF FirstData, FirstStart
<1>5. x.pos < p.pos[d] /\ (k > 0 => u[k].hb = x.grid)
  BY <1>1, <1>2 DEF Marks, Offset
<1>6. TailPos(p, d) = p.pos[d] - n
  BY DEF TailPos
<1> HIDE DEF i, x, u
<1>7. k \in 1 .. n
  <2> HIDE DEF n
  <2> QED BY <1>1, <1>3, <1>5, <1>6
<1> HIDE DEF k
<1> DEFINE s == SubSeq(u, k, n)
<1>8. s \in Seq(UnitType) /\ Len(s) = n - k + 1 /\ s[1] = u[k]
  BY <1>3, <1>7
<1> HIDE DEF s
<1>9. s # <<>>
  BY <1>3, <1>7, <1>8
<1>10. s[1].hb >= c.grid
  BY <1>1, <1>5, <1>7, <1>8
<1>11. FirstData(p, c, d).data = s
  <2>1. FirstData(p, c, d) = Data(d, s)
    BY <1>4 DEF s
  <2>2. Data(d, s).data = s
    BY DEF Data
  <2> QED BY <2>1, <2>2
<1> DEFINE m == FirstData(p, c, d)
<1>12. m.data # <<>> /\ m.data[1].hb >= c.grid
  BY <1>9, <1>10, <1>11
<1> HIDE DEF m
<1>13. Good(m, c.grid)
  BY <1>12 DEF Good
<1> QED BY <1>13 DEF m

-----------------------------------------------------------------------------
(* What forward() makes of the readings. *)

\* What is queued for the client keeps the reading s sound.
Opens(s, q, on) == Sound(Reading(s, q), q.cl, on)

\* A client that gets everything.
LEMMA AllOpens ==
    ASSUME NEW s \in OpenType, NEW q \in ForwardType, NEW ms \in Seq(Items), Opens(s, q, Dcs)
    PROVE  Opens(s, EnqueueAll(q, ms), Dcs)
<1> DEFINE S == {r \in ForwardType : Opens(s, r, Dcs)}
<1>1. q \in S
  OBVIOUS
<1>2. ASSUME NEW r \in S, NEW i \in 1 .. Len(ms) PROVE Enqueue(r, ms[i]) \in S
  <2>1. ms[i] \in Items /\ r \in ForwardType /\ Opens(s, r, Dcs)
    OBVIOUS
  <2> HIDE DEF S
  <2> DEFINE m == ms[i]
  <2>2. May(m, s.grid, Dcs) /\ Joining(Dcs, m) = Dcs
    BY DEF May, Joining, DataType
  <2>3. Dcs \in SUBSET Dcs /\ m \in Items
    BY <2>1
  <2> HIDE DEF m
  <2>4. Sound(Reading(s, Enqueue(r, m)), Enqueue(r, m).cl, Joining(Dcs, m))
    BY <2>1, <2>2, <2>3, EnqueueOpens DEF Opens
  <2>5. Adds(r, Enqueue(r, m))
    BY <2>1, <2>3, EnqueueIs
  <2>6. Enqueue(r, m) \in ForwardType /\ Opens(s, Enqueue(r, m), Dcs)
    BY <2>2, <2>4, <2>5 DEF Adds, Opens
  <2> QED BY <2>6 DEF S, m
<1> HIDE DEF S
<1>3. EnqueueFold!Fold(q, ms) \in S
  BY <1>1, <1>2, EnqueueFold!FoldWithin
<1>4. EnqueueAll(q, ms) \in S
  BY <1>3 DEF EnqueueAll, EnqueueFold!Fold, EnqueueFold!MapThenFoldSet, EnqueueFold!Max,
              FoldLeft, MapThenFoldSet, Max
<1> QED BY <1>4 DEF S

LEMMA BegunOpens ==
    ASSUME NEW s \in OpenType, NEW q \in ForwardType, NEW m \in Items,
           Opens(s, q, q.cl.started)
    PROVE  Opens(s, ForwardBegun(q, m), q.cl.started)
<1> DEFINE on == q.cl.started
<1>1. CASE m.type = "DATA" /\ m.ch \in q.cl.started
  <2>1. ForwardBegun(q, m) = Enqueue(q, m) /\ m.ch \in on /\ Opens(s, q, on) /\ on \in SUBSET Dcs
    BY <1>1, ClientFields DEF ForwardBegun, ForwardType
  <2> HIDE DEF on
  <2>2. May(m, s.grid, on) /\ Joining(on, m) = on
    BY <2>1 DEF May, Joining
  <2>3. Sound(Reading(s, Enqueue(q, m)), Enqueue(q, m).cl, Joining(on, m))
    BY <2>1, <2>2, EnqueueOpens DEF Opens
  <2> QED BY <2>1, <2>2, <2>3 DEF Opens, on
<1>2. CASE ~(m.type = "DATA" /\ m.ch \in q.cl.started)
  BY <1>2 DEF ForwardBegun
<1> QED BY <1>1, <1>2

\* A client that joins, for the data channels that it gets.
LEMMA AllBegunOpens ==
    ASSUME NEW s \in OpenType, NEW q \in ForwardType, NEW ms \in Seq(Items),
           Opens(s, q, q.cl.started)
    PROVE  Opens(s, AllBegun(q, ms), q.cl.started)
<1> DEFINE on == q.cl.started
<1> DEFINE S == {r \in ForwardType : r.cl.started = on /\ Opens(s, r, on)}
<1>1. q \in S
  OBVIOUS
<1>2. ASSUME NEW r \in S, NEW i \in 1 .. Len(ms) PROVE ForwardBegun(r, ms[i]) \in S
  <2>1. ms[i] \in Items /\ r \in ForwardType /\ r.cl.started = on /\ Opens(s, r, on)
    OBVIOUS
  <2> HIDE DEF S, on
  <2>2. Adds(r, ForwardBegun(r, ms[i])) /\ Same(r.cl, ForwardBegun(r, ms[i]).cl)
    BY <2>1, ForwardBegunIs
  <2>3. Opens(s, ForwardBegun(r, ms[i]), on)
    BY <2>1, BegunOpens
  <2> QED BY <2>1, <2>2, <2>3 DEF Adds, Same, S
<1> HIDE DEF S
<1>3. BegunFold!Fold(q, ms) \in S
  BY <1>1, <1>2, BegunFold!FoldWithin
<1>4. AllBegun(q, ms) \in S
  BY <1>3 DEF AllBegun, BegunFold!Fold, BegunFold!MapThenFoldSet, BegunFold!Max,
              FoldLeft, MapThenFoldSet, Max
<1> QED BY <1>4 DEF S

LEMMA StartOpens ==
    ASSUME NEW s \in OpenType, NEW q \in ForwardType, NEW d \in Dcs,
           MarksTrue(q.pull), q.cl.grid = s.grid, Opens(s, q, q.cl.started)
    PROVE  Opens(s, StartOn(q, d), StartOn(q, d).cl.started)
<1>1. CASE d \in q.cl.started \/ StartsAt(q.pull, q.cl, d) = {}
  BY <1>1 DEF StartOn
<1>2. CASE ~(d \in q.cl.started \/ StartsAt(q.pull, q.cl, d) = {})
  <2>1. q.pull \in PullType /\ q.cl \in ClientType /\ q.cl.started \in SUBSET Dcs
    BY ClientFields DEF ForwardType
  <2> DEFINE m == FirstData(q.pull, q.cl, d)
  <2> DEFINE on == q.cl.started
  <2> DEFINE e == Enqueue(q, m)
  <2>2. m \in DataType /\ m \in Items /\ m.ch = d
    BY <1>2, <2>1, FirstDataIs DEF FirstData, Data
  <2>3. Good(m, s.grid)
    BY <1>2, <2>1, FirstGood
  <2>4. StartOn(q, d) = [e EXCEPT !.cl.started = e.cl.started \cup {d}]
    BY <1>2 DEF StartOn
  <2>5. Adds(q, e) /\ Same(q.cl, e.cl)
    BY <2>2, EnqueueIs
  <2>6. Opens(s, q, on) /\ on \in SUBSET Dcs
    BY <2>1
  <2> HIDE DEF m, on
  <2>7. May(m, s.grid, on) /\ Joining(on, m) = on \cup {d}
    BY <2>2, <2>3 DEF May, Joining
  <2>8. Opens(s, e, on \cup {d})
    BY <2>2, <2>6, <2>7, EnqueueOpens DEF Opens
  <2> HIDE DEF e
  <2>9. e \in ForwardType /\ e.cl \in ClientType
    BY <2>5 DEF Adds, ForwardType
  <2> DEFINE r == StartOn(q, d)
  <2>10. /\ r.out = e.out /\ r.cl.started = e.cl.started \cup {d}
         /\ r.cl.dropped = e.cl.dropped
    BY <2>4, <2>9 DEF ForwardType, ClientType
  <2> HIDE DEF r
  <2>11. r.cl.started = on \cup {d}
    BY <2>5, <2>10 DEF Same, on
  <2>12. Opens(s, r, r.cl.started)
    BY <2>8, <2>10, <2>11 DEF Opens, Sound, Reading
  <2> QED BY <2>12 DEF r
<1> QED BY <1>1, <1>2

LEMMA AllStartedOpens ==
    ASSUME NEW s \in OpenType, NEW q \in ForwardType,
           MarksTrue(q.pull), q.cl.grid = s.grid, Opens(s, q, q.cl.started)
    PROVE  Opens(s, AllStarted(q), AllStarted(q).cl.started)
<1> DEFINE S == {r \in ForwardType :
                    r.pull = q.pull /\ r.cl.grid = s.grid /\ Opens(s, r, r.cl.started)}
<1>1. q \in S
  OBVIOUS
<1>2. ASSUME NEW r \in S, NEW i \in 1 .. Len(AllDcs) PROVE StartOn(r, AllDcs[i]) \in S
  <2>1. /\ AllDcs[i] \in Dcs /\ r \in ForwardType /\ r.pull = q.pull /\ r.cl.grid = s.grid
        /\ Opens(s, r, r.cl.started)
    BY AllDcsAre
  <2> HIDE DEF S
  <2>2. Adds(r, StartOn(r, AllDcs[i])) /\ SamePlace(r.cl, StartOn(r, AllDcs[i]).cl)
    BY <2>1, StartOnIs
  <2>3. Opens(s, StartOn(r, AllDcs[i]), StartOn(r, AllDcs[i]).cl.started)
    BY <2>1, StartOpens
  <2> QED BY <2>1, <2>2, <2>3 DEF Adds, SamePlace, S
<1> HIDE DEF S
<1>3. StartFold!Fold(q, AllDcs) \in S
  BY <1>1, <1>2, AllDcsAre, StartFold!FoldWithin
<1>4. AllStarted(q) \in S
  BY <1>3 DEF AllStarted, StartFold!Fold, StartFold!MapThenFoldSet, StartFold!Max,
              FoldLeft, MapThenFoldSet, Max
<1> QED BY <1>4 DEF S

\* The reading s is sound for what q sends its client, who joins at s's grid count.
Admits(s, q) == Opens(s, q, On(q.cl)) /\ (q.cl.attaching => q.cl.grid = s.grid)

LEMMA ForwardedOpens ==
    ASSUME NEW s \in OpenType, NEW q \in ForwardType, MarksTrue(q.pull), Ways(q.cl), Admits(s, q)
    PROVE  Admits(s, Forwarded(q))
<1>1. q.pull.taken \in Seq(Items) /\ q.cl \in ClientType /\ Opens(s, q, On(q.cl))
  BY DEF ForwardType, PullType, Admits
<1>2. CASE q.cl.attaching
  <2>1. On(q.cl) = q.cl.started /\ q.cl.grid = s.grid
    BY <1>2 DEF Ways, On, Admits
  <2> DEFINE b == AllBegun(q, q.pull.taken)
  <2>2. Adds(q, b) /\ Same(q.cl, b.cl)
    BY <1>1, AllBegunIs DEF AllBegun
  <2>3. Opens(s, b, q.cl.started)
    BY <1>1, <2>1, AllBegunOpens
  <2> HIDE DEF b
  <2>4. /\ b \in ForwardType /\ b.pull = q.pull /\ b.cl.started = q.cl.started
        /\ b.cl.grid = s.grid
    BY <2>1, <2>2 DEF Adds, Same
  <2> DEFINE a == AllStarted(b)
  <2>5. Adds(b, a) /\ SamePlace(b.cl, a.cl)
    BY <2>4, AllStartedIs DEF AllStarted
  <2>6. Opens(s, a, a.cl.started)
    BY <2>3, <2>4, AllStartedOpens
  <2>7. Forwarded(q) = [a EXCEPT !.cl.attaching = (a.cl.started # Dcs),
                                 !.cl.streaming = (a.cl.started = Dcs)]
    BY <1>2 DEF Forwarded, Attached, AllDcs, AllBegun, AllStarted, b
  <2> HIDE DEF a
  <2>8. a \in ForwardType /\ a.cl \in ClientType /\ a.cl.grid = s.grid
    BY <2>4, <2>5 DEF Adds, ForwardType, SamePlace
  <2> DEFINE c == Modes(a.cl, a.cl.started # Dcs, a.cl.started = Dcs)
  <2>9. Forwarded(q) = [a EXCEPT !.cl = c]
    BY <2>7, <2>8 DEF ForwardType, Modes
  <2>10. /\ c.streaming = (a.cl.started = Dcs) /\ c.started = a.cl.started
         /\ c.dropped = a.cl.dropped
    <3>1. (a.cl.started # Dcs) \in BOOLEAN /\ (a.cl.started = Dcs) \in BOOLEAN
      OBVIOUS
    <3> QED BY <2>8, <3>1, ModesAre
  <2>11. c.grid = a.cl.grid
    BY <2>8 DEF ClientType, Modes
  <2> HIDE DEF c
  <2> DEFINE f == Forwarded(q)
  <2>12. f.cl = c /\ f.out = a.out
    BY <2>8, <2>9 DEF ForwardType
  <2> HIDE DEF f
  <2>13. On(f.cl) = a.cl.started
    BY <2>10, <2>12 DEF On
  <2>14. Opens(s, f, a.cl.started)
    BY <2>6, <2>10, <2>12 DEF Opens, Sound, Reading
  <2>15. f.cl.grid = s.grid
    BY <2>8, <2>11, <2>12
  <2>16. Admits(s, f)
    BY <2>13, <2>14, <2>15 DEF Admits
  <2> QED BY <2>16 DEF f
<1>3. CASE ~q.cl.attaching /\ q.cl.streaming
  <2> DEFINE e == EnqueueAll(q, q.pull.taken)
  <2>1. Forwarded(q) = e
    BY <1>3 DEF Forwarded
  <2>2. On(q.cl) = Dcs
    BY <1>3 DEF On
  <2>3. Opens(s, e, Dcs)
    BY <1>1, <2>2, AllOpens
  <2>4. Same(q.cl, e.cl)
    BY <1>1, EnqueueAllIs
  <2> HIDE DEF e
  <2>5. On(e.cl) = Dcs /\ ~e.cl.attaching
    BY <1>3, <2>4 DEF Same, On
  <2> QED BY <2>1, <2>3, <2>5 DEF Admits
<1>4. CASE ~q.cl.attaching /\ ~q.cl.streaming
  BY <1>4 DEF Forwarded
<1> QED BY <1>2, <1>3, <1>4

-----------------------------------------------------------------------------
(* How the streams begin of a client that joins. *)

\* A session that has no capture has joined none.
JoinedTrue == joined \in Joins /\ (sess \notin {"running", "over"} => joined = NoJoin)

\* The client was told to start at grid count g, or a reply that says so is under way.
Promised(g) ==
    IF sess = "running" THEN joined # NoJoin /\ joined.grid = g
    ELSE \E m : Said(m) /\ AttachDone(m) /\ m.join.grid = g

\* Where the items read so far end, for a client told g, and what is on its way to it.
From(g) == [at |-> expect, grid |-> g, wrong |-> {}]
Scan(g) == OpenAll(OpenAll(From(g), queue), Coming)

Opened(g) == Sound(Scan(g), cl, On(cl)) /\ (cl.attaching => cl.grid = g)

OpenTrue == Live /\ running => \A g \in Nat : Promised(g) => Opened(g)

JoinInv == JoinedTrue /\ Halves(tail, dev) /\ OpenTrue

LEMMA NoHalves ==
    ASSUME \A d \in Dcs : tail'[d] = <<>>
    PROVE  Halves(tail, dev)'
BY DEF Halves

LEMMA JoinInit == SystemInit => JoinInv
<1> SUFFICES ASSUME SystemInit PROVE JoinInv
  OBVIOUS
<1>1. fd = 0 /\ joined = NoJoin /\ tail = [d \in Dcs |-> <<>>]
  BY DEF SystemInit, LinkInit, RemoteInit
<1>2. \A d \in Dcs : tail[d] = <<>>
  BY <1>1
<1>3. Halves(tail, dev)
  BY <1>2 DEF Halves
<1>4. OpenTrue
  BY <1>1 DEF OpenTrue, Live, Served
<1> QED BY <1>1, <1>3, <1>4, NoJoinIs DEF JoinInv, JoinedTrue

LEMMA FromIs ==
    ASSUME ReadTrue, NEW g \in Nat
    PROVE  From(g) \in OpenType /\ From(g).at = expect /\ From(g).grid = g /\ From(g).wrong = {}
<1>1. expect \in Places
  BY DEF ReadTrue
<1> QED BY <1>1 DEF From, OpenType

\* A step after which the client is told no more than before, and what is on its way
\* begins as before.
LEMMA SameOpen ==
    ASSUME OpenTrue, UNCHANGED <<cl, running>>, Live' => Live,
           ASSUME NEW g \in Nat, Live', Promised(g)'
           PROVE  Promised(g) /\ (Opened(g) => Scan(g)' = Scan(g))
    PROVE  OpenTrue'
<1> SUFFICES ASSUME Live', running', NEW g \in Nat, Promised(g)' PROVE Opened(g)'
  BY DEF OpenTrue
<1>1. Promised(g) /\ (Opened(g) => Scan(g)' = Scan(g))
  OBVIOUS
<1>2. Opened(g)
  BY <1>1 DEF OpenTrue
<1>3. Scan(g)' = Scan(g)
  BY <1>1, <1>2
<1> QED BY <1>2, <1>3 DEF Opened, Sound, On

\* One that leaves all of it.
LEMMA ScanSame ==
    ASSUME OpenTrue, Coming' = Coming, \A m : Said(m)' => Said(m),
           UNCHANGED <<fd, cl, running, queue, expect, sess, joined, timeouts>>
    PROVE  OpenTrue'
<1>1. Live' => Live
  BY DEF Live, Served, Late
<1>2. ASSUME NEW g \in Nat, Live', Promised(g)'
      PROVE  Promised(g) /\ (Opened(g) => Scan(g)' = Scan(g))
  BY <1>2 DEF Promised, Scan, From
<1> QED BY <1>1, <1>2, SameOpen

LEMMA NotOpen ==
    ASSUME ~Served' \/ running' = FALSE \/ \A g \in Nat : ~Promised(g)'
    PROVE  OpenTrue'
BY DEF OpenTrue, Live

-----------------------------------------------------------------------------
(* The link's steps. *)

LEMMA LinkHalves ==
    ASSUME TypeInv, CaptureTrue, CaptureTrue', Halves(tail, dev), LinkNext
    PROVE  Halves(tail, dev)'
<1>1. ASSUME UNCHANGED <<tail, dev>> PROVE Halves(tail, dev)'
  BY <1>1 DEF Halves
<1>2. CASE AcceptClient \/ ClientGone \/ ClientWrite
  <2>1. UNCHANGED <<tail, dev>>
    BY <1>2 DEF AcceptClient, ClientGone, ClientWrite, captureVars
  <2> QED BY <1>1, <2>1
<1>3. CASE PullFails \/ Quit
  <2>1. tail' = [d \in Dcs |-> <<>>]
    BY <1>3 DEF PullFails, Quit
  <2> QED BY <2>1, NoTails, NoHalves
<1>4. CASE Pull
  <2>1. PICK p \in Pulls : dev' = p.dev /\ tail' = p.tail
    BY <1>4 DEF Pull
  <2>2. MarksTrue(p)
    BY PullsMark DEF TypeInv, Markers
  <2> QED BY <2>1, <2>2 DEF MarksTrue, Halves
<1>5. CASE Requests
  <2>2. PICK req : OnHello(req) \/ OnStop(req) \/ RefuseConfig(req) \/ OnConfig(req) \/ OnAttach(req)
    BY <1>5 DEF Requests
  <2>3. CASE RefuseConfig(req) \/ OnAttach(req)
    <3>1. UNCHANGED <<tail, dev>>
      BY <2>3 DEF RefuseConfig, OnAttach, captureVars
    <3> QED BY <1>1, <3>1
  <2>4. CASE OnHello(req) \/ OnStop(req)
    <3>1. ~running'
      BY <2>4 DEF OnHello, OnStop, EndIfRunning, EndCapture
    <3>2. \A d \in Dcs : tail'[d] = <<>>
      BY <3>1 DEF CaptureTrue
    <3> QED BY <3>2, NoHalves
  <2>5. CASE OnConfig(req)
    <3>1. ~running /\ (CaptureBegin \/ tail' = tail)
      BY <2>5 DEF OnConfig, BeginFails
    <3>2. \A d \in Dcs : tail[d] = <<>>
      BY <3>1 DEF CaptureTrue
    <3>3. CaptureBegin => tail' = [d \in Dcs |-> <<>>]
      BY DEF CaptureBegin
    <3>4. \A d \in Dcs : tail'[d] = <<>>
      BY <3>1, <3>2, <3>3, NoTails
    <3> QED BY <3>4, NoHalves
  <2> QED BY <2>2, <2>3, <2>4, <2>5
<1> QED BY <1>2, <1>3, <1>4, <1>5 DEF LinkNext

LEMMA AcceptOpens ==
    ASSUME TypeInv, ConnInv, OpenTrue, AcceptClient, UNCHANGED <<remoteVars, expect>>
    PROVE  OpenTrue'
<1>1. PICK c \in Conns : BusyStep(c) \/ ServeStep(c)
  BY AcceptDoes
<1>2. LinkDoes /\ c = Head(backlog) /\ backlog # <<>>
  BY <1>1 DEF LinkDoes, BusyStep, ServeStep
<1>3. UNCHANGED <<fd, sess, waiting, timeouts, queue, haveReply, reply, joined>>
  BY <1>2, LinkLeavesRemote
<1>4. c \in Queued /\ c # 0
  BY <1>2, QueuedAre
<1>5. CASE BusyStep(c)
  <2>1. /\ UNCHANGED <<cl, out, running>>
        /\ toClient' = [toClient EXCEPT ![c] = IF c \in clientEnd THEN Append(@, Busy) ELSE @]
    BY <1>5 DEF BusyStep, captureVars
  <2>2. CASE c = fd
    <3>1. cl.fd # fd
      BY <1>4, <2>2 DEF ConnInv, Ends
    <3> QED BY <1>3, <2>1, <3>1, NotOpen DEF Served
  <2>3. CASE c # fd
    <3>1. fd # 0 => toClient'[fd] = toClient[fd]
      BY <2>1, <2>3 DEF TypeInv, SockTypes, RemoteTypes
    <3>2. Coming' = Coming
      BY <1>3, <2>1, <3>1 DEF Coming
    <3>3. \A m : Said(m)' <=> Said(m)
      BY <1>3, <3>2, SameNews
    <3> QED BY <1>3, <2>1, <3>2, <3>3, ScanSame
  <2> QED BY <2>2, <2>3
<1>6. CASE ServeStep(c)
  <2>1. cl'.fd = c
    BY <1>6 DEF ServeStep
  <2>2. CASE c # fd
    BY <1>3, <2>1, <2>2, NotOpen DEF Served
  <2>3. CASE c = fd
    <3>1. Greets
      BY <1>6, <2>3, ServeSays
    <3>2. \A g \in Nat : ~Promised(g)'
      BY <1>3, <3>1 DEF Greets, Promised, AttachDone
    <3> QED BY <3>2, NotOpen
  <2> QED BY <2>2, <2>3
<1> QED BY <1>1, <1>5, <1>6

LEMMA WriteOpens ==
    ASSUME TypeInv, ConnInv, OpenTrue, ClientWrite, UNCHANGED <<remoteVars, expect>>
    PROVE  OpenTrue'
<1>1. UNCHANGED <<fd, sess, waiting, timeouts, queue, haveReply, reply, joined>>
  BY DEF remoteVars
<1>2. CASE cl.fd \in clientEnd
  <2>1. Coming' = Coming /\ UNCHANGED <<cl, running>>
    BY <1>2, WriteNews DEF captureVars
  <2>2. \A m : Said(m)' <=> Said(m)
    BY <1>1, <2>1, SameNews
  <2> QED BY <1>1, <2>1, <2>2, ScanSame
<1>3. CASE cl.fd \notin clientEnd
  <2>1. cl' = NoClient
    BY <1>3 DEF ClientWrite, DropClient
  <2> QED BY <2>1, NoClientIs, NotOpen DEF Served
<1> QED BY <1>2, <1>3

\* A client that is told to start at a grid count joins at it, with no stream begun.
LEMMA AttachTells ==
    ASSUME TypeInv, NEW req \in RequestType, NEW r \in ReplyType, out' = Append(out, r),
           r.of = req.type, running', AttachDone(r),
           OnHello(req) \/ OnStop(req) \/ RefuseConfig(req) \/ OnConfig(req) \/ OnAttach(req)
    PROVE  On(cl') = {} /\ cl'.grid = r.join.grid
<1>1. cl \in ClientType /\ out \in Seq(Messages)
  BY DEF TypeInv, LinkTypes
<1>2. req.type = "ATTACH"
  BY DEF AttachDone
<1>3. OnAttach(req)
  BY <1>2 DEF OnHello, OnStop, RefuseConfig, OnConfig, Request
<1>4. running
  BY <1>3 DEF OnAttach, captureVars
<1> DEFINE g == JoinGrid
<1> DEFINE j == [grid |-> g, log |-> log, base |-> lossBase]
<1>5. /\ Answer(req, "ok", "none", j)
      /\ cl' = [cl EXCEPT !.streaming = FALSE, !.attaching = TRUE, !.grid = g, !.started = {}]
  BY <1>3, <1>4 DEF OnAttach
<1>6. g \in Nat
  BY JoinGridIs DEF TypeInv, LinkTypes
<1> HIDE DEF g
<1>7. j \in Joins /\ j.grid = g
  BY <1>6 DEF TypeInv, LinkTypes, Joins
<1> HIDE DEF j
<1> DEFINE x == Reply(req, "ok", "none", j)
<1>8. x \in ReplyType /\ out' = Append(out, x) /\ x.join = j
  BY <1>5, <1>7, ReplyIs DEF Answer, Verdicts, Reply
<1> HIDE DEF x
<1>9. r = x
  <2>1. r \in Messages /\ x \in Messages
    BY <1>8, ReplyMessage
  <2> QED BY <1>1, <1>8, <2>1, SameAnswer
<1>10. cl'.streaming = FALSE /\ cl'.started = {} /\ cl'.grid = g
  BY <1>1, <1>5 DEF ClientType
<1> QED BY <1>7, <1>8, <1>9, <1>10 DEF On

LEMMA RequestOpens ==
    ASSUME AllInv, StreamInv, ReadTrue', Requests, UNCHANGED <<remoteVars, expect>>
    PROVE  OpenTrue'
<1>1. TypeInv /\ ConnInv /\ OneAnswer /\ ReadTrue
  BY DEF AllInv, StreamInv
<1>2. PICK req : OnHello(req) \/ OnStop(req) \/ RefuseConfig(req) \/ OnConfig(req) \/ OnAttach(req)
  BY DEF Requests
<1>3. PICK r \in ReplyType : RequestStep(req, r)
  BY <1>1, <1>2, HelloAsked, StopAsked, RefuseAsked, ConfigAsked, AttachAsked
<1>4. /\ req \in RequestType /\ cl'.fd = cl.fd /\ UNCHANGED <<toClient, remoteVars>>
      /\ out' = Append(out, r)
      /\ toLink[cl.fd] # <<>> /\ req = Head(toLink[cl.fd]) /\ r.of = req.type
  BY <1>3 DEF RequestStep
<1>5. LinkDoes
  BY <1>3, <1>4 DEF LinkDoes
<1>6. /\ Live' <=> Live
      /\ UNCHANGED <<fd, sess, waiting, timeouts, queue, haveReply, reply>>
  BY <1>4, <1>5, LinkLive
<1>7. SUFFICES ASSUME Live, running', NEW g \in Nat, Promised(g)' PROVE Opened(g)'
  BY <1>6 DEF OpenTrue
<1>8. fd # 0 /\ cl.fd = fd /\ ~Late
  BY <1>7 DEF Live, Served
<1>9. waiting # None /\ toLink[fd] = <<waiting>> /\ (\A m : ~Said(m))
  BY <1>1, <1>4, <1>8 DEF OneAnswer
<1>10. req = waiting
  BY <1>4, <1>8, <1>9
<1>11. sess # "running"
  <2>1. CASE sess = "running"
    <3>1. req.type = "STOP"
      BY <1>1, <1>9, <1>10, <2>1, WaitingIs
    <3>2. running' = FALSE
      BY <1>3, <3>1 DEF RequestStep, StopDoes
    <3> QED BY <1>7, <3>2
  <2> QED BY <2>1
<1>12. Idle
  <2>1. ~Begun
    BY <1>9, <1>11 DEF Begun
  <2> QED BY <1>7, <2>1 DEF StreamInv, StreamTrue
<1>13. AttachDone(r) /\ r.join.grid = g
  <2>1. PICK m : Said(m)' /\ AttachDone(m) /\ m.join.grid = g
    BY <1>6, <1>7, <1>11 DEF Promised
  <2>2. News(r)
    BY <1>1, <1>3, <1>4, <1>8, RequestSays
  <2> QED BY <1>9, <2>1, <2>2 DEF News
<1>14. On(cl') = {} /\ cl'.grid = g
  BY <1>1, <1>2, <1>4, <1>7, <1>13, AttachTells
<1>15. Itemless(Coming)' /\ Coming' \in Seq(Messages)
  <2>1. r \in Messages /\ ~IsItem(r)
    BY ReplyMessage
  <2> DEFINE x == <<r>>
  <2>2. x \in Seq(Messages) /\ out' = out \o x
    <3>1. out \in Seq(Messages) /\ out' = Append(out, r)
      BY <1>1, <1>4 DEF TypeInv, LinkTypes
    <3> QED BY <2>1, <3>1
  <2> HIDE DEF x
  <2>3. Coming \in Seq(Messages) /\ Coming' = Coming \o x
    BY <1>1, <1>4, <1>8, <2>2, ComingMore
  <2> DEFINE c == Coming
  <2>4. c \in Seq(Messages) /\ Itemless(c)
    BY <1>12, <2>3 DEF Idle
  <2> HIDE DEF c
  <2>5. c \o x \in Seq(Messages) /\ Itemless(c \o x)
    BY <2>1, <2>2, <2>4, ItemlessMore DEF x
  <2> QED BY <2>3, <2>5 DEF c, Itemless
<1>16. queue' = <<>>
  BY <1>6, <1>12 DEF Idle
<1>17. Scan(g)' = From(g)' /\ From(g)'.wrong = {}
  <2> DEFINE c == Coming'
  <2> DEFINE f == From(g)'
  <2>1. f \in OpenType /\ f.wrong = {}
    BY DEF ReadTrue, From, OpenType
  <2>2. c \in Seq(Messages) /\ Itemless(c)
    BY <1>15 DEF Itemless
  <2>3. Scan(g)' = OpenAll(OpenAll(f, <<>>), c)
    BY <1>16 DEF Scan
  <2> HIDE DEF c, f
  <2>4. OpenAll(f, <<>>) = f /\ OpenAll(f, c) = f
    BY <2>1, <2>2, OpenNone, OpenAnswers
  <2> QED BY <2>1, <2>3, <2>4 DEF f
<1>18. On(cl)' = {} /\ cl'.grid = g
  BY <1>14 DEF On
<1> QED BY <1>17, <1>18 DEF Opened, Sound

\* A pull's part of what is on its way goes on with what begins as it should.
LEMMA PullOpens ==
    ASSUME TypeInv, StreamInv, JoinInv, Pull, UNCHANGED <<remoteVars, expect>>
    PROVE  OpenTrue'
<1>1. ReadTrue /\ CaptureTrue /\ LinkTypes /\ OpenTrue /\ Halves(tail, dev)
  BY DEF StreamInv, TypeInv, JoinInv
<1>2. ItemsStep /\ running
  BY PullDoes DEF ItemsStep
<1>3. cl'.fd = cl.fd /\ LinkDoes /\ toClient' = toClient
  BY <1>2 DEF ItemsStep, LinkDoes, sockVars
<1>4. PICK p \in Pulls : out' = Forward(p).out /\ cl' = Forward(p).cl
  BY DEF Pull
<1>5. /\ Live' <=> Live
      /\ UNCHANGED <<fd, sess, waiting, timeouts, queue, haveReply, reply, joined>>
  BY <1>3, LinkLive, LinkLeavesRemote
<1>6. \A m : Said(m)' <=> Said(m)
  <2>1. \E x \in Seq(Items) : out' = out \o x
    BY <1>1, <1>4, ForwardIs
  <2> QED BY <1>3, <2>1, ItemNews
<1> SUFFICES ASSUME Live, NEW g \in Nat, Promised(g)' PROVE Opened(g)'
  BY <1>5 DEF OpenTrue
<1>7. Promised(g) /\ Served
  BY <1>5, <1>6 DEF Promised, Live
<1>8. Opened(g)
  BY <1>1, <1>2, <1>7 DEF OpenTrue
<1> DEFINE q == Taking(p)
<1>9. p \in PullType /\ q \in ForwardType /\ Ways(cl) /\ Forward(p) = Forwarded(q)
  BY <1>1, <1>2, PullGives
<1>10. q.cl = cl /\ q.out = out /\ q.pull = p
  BY DEF Taking
<1>11. MarksTrue(p)
  BY <1>1, PullsMark DEF Markers
<1> DEFINE f == From(g)
<1>12. f \in OpenType /\ f.grid = g /\ From(g)' = f
  BY <1>1, FromIs DEF From
<1>13. queue \in Seq(Messages) /\ toClient[fd] \in Seq(Messages) /\ out \in Seq(Messages)
  BY <1>1, <1>7, BaseIs, ComingIs DEF Served
<1>14. out' \in Seq(Messages)
  BY <1>1, <1>4, ForwardIs
<1> DEFINE b == OpenAll(f, queue)
<1> DEFINE t == toClient[fd]
<1> HIDE DEF f, q, t
<1> DEFINE s == OpenAll(b, t)
<1>15. b \in OpenType /\ b.grid = g
  BY <1>12, <1>13, OpenAllOn DEF Onward
<1> HIDE DEF b
<1>16. s \in OpenType /\ s.grid = g
  BY <1>13, <1>15, OpenAllOn DEF Onward, t
<1>17. Scan(g) = OpenAll(s, out)
  <2>1. Coming = t \o out
    BY <1>7 DEF Coming, Served, t
  <2>2. Scan(g) = OpenAll(b, t \o out)
    BY <2>1 DEF Scan, b, f
  <2>3. t \in Seq(Messages)
    BY <1>13 DEF t
  <2> QED BY <1>13, <2>2, <2>3, OpenConcat
<1>18. Scan(g)' = OpenAll(s, out')
  <2>1. Coming' = t \o out'
    BY <1>3, <1>5, <1>7 DEF Coming, Served, t
  <2>2. Scan(g)' = OpenAll(b, t \o out')
    BY <1>5, <1>12, <2>1 DEF Scan, b
  <2>3. t \in Seq(Messages)
    BY <1>13 DEF t
  <2> QED BY <1>14, <2>2, <2>3, OpenConcat
<1> HIDE DEF s
<1>19. Admits(s, q)
  <2>1. Reading(s, q) = Scan(g)
    BY <1>10, <1>17 DEF Reading
  <2> QED BY <1>8, <1>10, <1>16, <2>1 DEF Admits, Opens, Opened
<1>20. Admits(s, Forwarded(q))
  BY <1>9, <1>10, <1>11, <1>16, <1>19, ForwardedOpens
<1> DEFINE z == Forwarded(q)
<1>21. cl' = z.cl /\ out' = z.out
  BY <1>4, <1>9
<1>22. Admits(s, z)
  BY <1>20
<1> HIDE DEF z
<1>23. Sound(OpenAll(s, out'), cl', On(cl')) /\ (cl'.attaching => cl'.grid = g)
  BY <1>16, <1>21, <1>22 DEF Admits, Opens, Reading
<1> DEFINE w == OpenAll(s, out')
<1>24. Scan(g)' = w /\ Sound(w, cl', On(cl'))
  BY <1>18, <1>23
<1> HIDE DEF w
<1> QED BY <1>23, <1>24 DEF Opened, Sound, On

LEMMA LinkOpens ==
    ASSUME AllInv, StreamInv, StreamInv', JoinInv, LinkNext, UNCHANGED <<remoteVars, expect>>
    PROVE  JoinInv'
<1>1. TypeInv /\ ConnInv /\ OpenTrue /\ CaptureTrue /\ CaptureTrue' /\ ReadTrue'
  BY DEF AllInv, StreamInv, JoinInv
<1>2. LinkDoes
  BY <1>1, LinkStepsDo
<1>3. JoinedTrue'
  BY <1>2, LinkLeavesRemote DEF JoinInv, JoinedTrue
<1>4. Halves(tail, dev)'
  BY <1>1, LinkHalves DEF JoinInv
<1>5. ASSUME cl' = NoClient PROVE OpenTrue'
  BY <1>2, <1>5, NoClientIs, LinkLeavesRemote, NotOpen DEF Served
<1> SUFFICES OpenTrue'
  BY <1>3, <1>4 DEF JoinInv
<1>6. CASE AcceptClient
  BY <1>1, <1>6, AcceptOpens
<1>7. CASE ClientGone \/ Quit
  BY <1>5, <1>7 DEF ClientGone, DropClient, Quit
<1>8. CASE Requests
  BY <1>1, <1>8, RequestOpens
<1>9. CASE ClientWrite
  BY <1>1, <1>9, WriteOpens
<1>10. CASE Pull
  BY <1>1, <1>10, PullOpens
<1>11. CASE PullFails
  <2>1. running' = FALSE
    BY <1>11 DEF PullFails
  <2> QED BY <2>1, NotOpen
<1> QED BY <1>6, <1>7, <1>8, <1>9, <1>10, <1>11 DEF LinkNext

-----------------------------------------------------------------------------
(* The client's steps. *)

\* What take() makes of a message, for a reading.
LEMMA TakenReads ==
    ASSUME NEW s \in OpenType, NEW r \in TakenType, NEW m \in Messages
    PROVE  OpenAll(s, Taken(r, m).queue) = OpenItem(OpenAll(s, r.queue), m)
<1>1. r.queue \in Seq(Items) /\ r.queue \in Seq(Messages)
  BY ItemsBringNothing DEF TakenType
<1>2. OpenAll(s, r.queue) \in OpenType
  BY <1>1, OpenAllOn DEF Onward
<1>3. CASE IsItem(m)
  <2>1. Taken(r, m) = [r EXCEPT !.queue = Append(@, m)]
    BY <1>3 DEF Taken
  <2>2. Taken(r, m).queue = Append(r.queue, m)
    BY <2>1 DEF TakenType
  <2> QED BY <1>1, <2>2, OpenAppend
<1>4. CASE ~IsItem(m)
  <2>1. Taken(r, m) = [r EXCEPT !.have = TRUE, !.reply = m]
    BY <1>4 DEF Taken
  <2>2. Taken(r, m).queue = r.queue
    BY <2>1 DEF TakenType
  <2> QED BY <1>2, <1>4, <2>2, OpenAnswer
<1> QED BY <1>3, <1>4

LEMMA TakenOpens ==
    ASSUME TypeInv, NEW s \in OpenType, NEW a \in Seq(Messages)
    PROVE  OpenAll(s, TakenAll(a).queue) = OpenAll(OpenAll(s, queue), a)
<1> DEFINE base == [queue |-> queue, have |-> haveReply, reply |-> reply]
<1> DEFINE w == OpenAll(s, queue)
<1> DEFINE n == Len(a)
<1>1. n \in Nat /\ DOMAIN a = 1 .. n
  OBVIOUS
<1>2. base \in TakenType /\ base.queue = queue
  BY DEF TypeInv, RemoteTypes, TakenType
<1> HIDE DEF n, base, w
<1>3. PICK t : TakenFold!Chain(t, base, a, n) /\ TakenFold!Fold(base, a) = t[n]
  BY <1>1, TakenFold!FoldChain
<1>4. t[0] = base /\ \A i \in 1 .. n : t[i] = Taken(t[i - 1], a[i])
  BY <1>3 DEF TakenFold!Chain
<1>5. PICK u : OpenFold!Chain(u, w, a, n) /\ OpenFold!Fold(w, a) = u[n]
  BY <1>1, OpenFold!FoldChain
<1>6. u[0] = w /\ \A i \in 1 .. n : u[i] = OpenItem(u[i - 1], a[i])
  BY <1>5 DEF OpenFold!Chain
<1> DEFINE T == {i \in Nat : i <= n => t[i] \in TakenType /\ u[i] = OpenAll(s, t[i].queue)}
<1>7. 0 \in T
  BY <1>2, <1>4, <1>6 DEF w
<1>8. ASSUME NEW i \in T PROVE i + 1 \in T
  <2> SUFFICES ASSUME i + 1 <= n
               PROVE  t[i + 1] \in TakenType /\ u[i + 1] = OpenAll(s, t[i + 1].queue)
    OBVIOUS
  <2>1. i + 1 \in 1 .. n /\ (i + 1) - 1 = i /\ i <= n /\ i \in Nat
    BY <1>1
  <2>2. t[i] \in TakenType /\ u[i] = OpenAll(s, t[i].queue)
    BY <2>1
  <2> HIDE DEF T
  <2>3. t[i + 1] = Taken(t[i], a[i + 1]) /\ u[i + 1] = OpenItem(u[i], a[i + 1])
    BY <1>4, <1>6, <2>1
  <2>4. a[i + 1] \in Messages
    BY <1>1, <2>1
  <2> QED BY <2>2, <2>3, <2>4, TakenIs, TakenReads
<1> HIDE DEF T
<1>9. n \in T
  BY <1>1, <1>7, <1>8, InductiveSet DEF T
<1>10. TakenAll(a) = t[n]
  BY <1>3 DEF TakenAll, base, TakenFold!Fold, TakenFold!MapThenFoldSet, TakenFold!Max,
              FoldLeft, MapThenFoldSet, Max
<1>11. OpenAll(w, a) = u[n]
  BY <1>5, OpenAllIs
<1>12. u[n] = OpenAll(s, t[n].queue)
  BY <1>1, <1>9 DEF T
<1> QED BY <1>10, <1>11, <1>12 DEF w

\* A session that no reply told anything has been promised nothing.
LEMMA SilentPromise ==
    ASSUME sess' # "running", \A m : ~Said(m)'
    PROVE  OpenTrue'
<1>1. \A g \in Nat : ~Promised(g)'
  BY DEF Promised
<1> QED BY <1>1, NotOpen

LEMMA WelcomeOpens ==
    ASSUME OneAnswer, OpenTrue, WelcomeStep, UNCHANGED linkVars
    PROVE  OpenTrue'
<1>1. UNCHANGED <<fd, timeouts>> /\ sess = "opening" /\ sess' = "greeted"
  BY DEF WelcomeStep, Welcomed
<1>2. cl' = cl
  BY DEF linkVars
<1>3. CASE Live
  <2>1. Single
    BY <1>3 DEF OneAnswer, Live, Served
  <2>2. \A m : ~Said(m)'
    BY <2>1, ReturnSays DEF Silent
  <2> QED BY <1>1, <2>2, SilentPromise
<1>4. CASE ~Live
  <2>1. ~Live'
    BY <1>1, <1>2, <1>4 DEF Live, Served, Late
  <2> QED BY <2>1 DEF OpenTrue
<1> QED BY <1>3, <1>4

LEMMA SendOpens ==
    ASSUME TypeInv, StreamInv, OpenTrue, Send, Counted, UNCHANGED linkVars
    PROVE  OpenTrue'
<1>1. UNCHANGED <<fd, queue, timeouts, toClient, sess, joined>>
  BY DEF Send
<1>2. expect' = expect
  BY <1>1, CountedIs DEF StreamInv
<1>3. UNCHANGED <<cl, out, running>>
  BY DEF linkVars, captureVars
<1>4. Coming' = Coming
  BY <1>1, <1>3 DEF Coming
<1>5. \A m : Said(m)' => Said(m)
  BY SendSays DEF NoNews
<1> QED BY <1>1, <1>2, <1>3, <1>4, <1>5, ScanSame

LEMMA ReceiveOpens ==
    ASSUME TypeInv, StreamInv, OpenTrue, ReceiveStep, Counted, UNCHANGED linkVars
    PROVE  OpenTrue'
<1>1. UNCHANGED <<fd, sess, timeouts, joined>>
  BY DEF ReceiveStep
<1>2. UNCHANGED <<cl, running>>
  BY DEF linkVars, captureVars
<1>3. ReadTrue /\ expect' = expect
  BY <1>1, CountedIs DEF StreamInv
<1>4. PICK a \in Seq(Messages) :
         Coming' \in Seq(Messages) /\ Coming = a \o Coming' /\ queue' = TakenAll(a).queue
  BY ReceiveParts
<1>5. \A m : Said(m)' => Said(m)
  BY ReceiveNews DEF NoNews
<1>6. Live' => Live
  BY <1>1, <1>2 DEF Live, Served, Late
<1>7. ASSUME NEW g \in Nat, Live', Promised(g)'
      PROVE  Promised(g) /\ (Opened(g) => Scan(g)' = Scan(g))
  <2>1. Promised(g)
    BY <1>1, <1>5, <1>7 DEF Promised
  <2> DEFINE f == From(g)
  <2> DEFINE c == Coming'
  <2>2. f \in OpenType /\ From(g)' = f
    BY <1>3, FromIs DEF From
  <2>3. queue \in Seq(Messages) /\ c \in Seq(Messages) /\ Coming = a \o c
    BY <1>3, <1>4, BaseIs
  <2> HIDE DEF f, c
  <2>4. OpenAll(f, queue') = OpenAll(OpenAll(f, queue), a)
    BY <1>4, <2>2, TakenOpens
  <2>5. OpenAll(OpenAll(f, queue), a \o c) = OpenAll(OpenAll(OpenAll(f, queue), a), c)
    BY <2>3, OpenConcat
  <2>6. Scan(g)' = OpenAll(OpenAll(f, queue'), c)
    BY <2>2 DEF Scan, c
  <2>7. Scan(g) = OpenAll(OpenAll(f, queue), a \o c)
    BY <2>3 DEF Scan, f
  <2> QED BY <2>1, <2>4, <2>5, <2>6, <2>7
<1> QED BY <1>2, <1>6, <1>7, SameOpen

\* A session joins with the grid count its reply says, or none.
LEMMA ReturnOpens ==
    ASSUME TypeInv, ConnInv, OneAnswer, StreamInv, JoinedTrue, OpenTrue, Return, Counted,
           UNCHANGED linkVars
    PROVE  OpenTrue'
<1>1. /\ waiting # None /\ haveReply /\ sess' = SessionAfter
      /\ UNCHANGED <<fd, timeouts, toClient>>
      /\ queue' = IF waiting.type = "STOP" \/ (Accepted /\ waiting.type = "HELLO")
                  THEN <<>> ELSE queue
      /\ joined' = IF Accepted /\ waiting.type = "ATTACH" THEN reply.join ELSE joined
  BY DEF Return, sockVars
<1>2. UNCHANGED <<cl, out, running>>
  BY DEF linkVars, captureVars
<1>3. Coming' = Coming
  BY <1>1, <1>2 DEF Coming
<1>4. /\ waiting \in RequestType
      /\ \/ waiting.type = "ATTACH" /\ sess = "greeted"
         \/ waiting.type = "HELLO" /\ sess \in {"greeted", "open"}
         \/ waiting.type = "CONFIG" /\ sess \in {"ready", "set"}
         \/ waiting.type = "STOP" /\ sess = "running"
  BY <1>1, WaitingIs
<1>5. ASSUME Live'
      PROVE  Live /\ waiting.type # "STOP" /\ sess \notin {"running", "opening", "over"}
  <2>1. waiting.type = "STOP" => SessionAfter = "over"
    BY DEF SessionAfter, Failed
  <2>2. waiting.type # "STOP"
    BY <1>1, <1>5, <2>1 DEF Live
  <2>3. sess \notin {"running", "opening", "over"}
    BY <1>4, <2>2
  <2> QED BY <1>1, <1>2, <1>5, <2>2, <2>3 DEF Live, Served, Late
<1>6. ASSUME NEW g \in Nat, Live', Promised(g)'
      PROVE  Promised(g) /\ (Opened(g) => Scan(g)' = Scan(g))
  <2>1. Live /\ waiting.type # "STOP" /\ sess \notin {"running", "opening", "over"}
    BY <1>5, <1>6
  <2>2. SessionAfter = "running"
    <3>1. Single
      BY <2>1 DEF OneAnswer, Live, Served
    <3>2. \A m : ~Said(m)'
      BY <3>1, ReturnSays DEF Silent
    <3> QED BY <1>1, <1>6, <3>2 DEF Promised
  <2>3. joined' # NoJoin /\ joined'.grid = g
    BY <1>1, <1>6, <2>2 DEF Promised
  <2>4. joined = NoJoin
    BY <2>1 DEF JoinedTrue
  <2>5. Accepted /\ waiting.type = "ATTACH" /\ joined' = reply.join
    BY <1>1, <2>3, <2>4
  <2>6. AttachDone(reply) /\ Said(reply)
    BY <1>1, <2>5 DEF Accepted, Answered, AttachDone, Said
  <2>7. Promised(g)
    BY <2>1, <2>3, <2>5, <2>6 DEF Promised
  <2>8. queue' = queue
    BY <1>1, <2>5
  <2>9. expect' = expect
    BY <2>1, CountedIs DEF StreamInv
  <2> QED BY <1>3, <2>7, <2>8, <2>9 DEF Scan, From
<1>7. Live' => Live
  BY <1>5
<1> QED BY <1>2, <1>6, <1>7, SameOpen

\* An item read is one that the reading begins with.
LEMMA ReadOpens ==
    ASSUME TypeInv, ReadTrue, OpenTrue, Read, expect' = AfterItem(expect, Head(queue)),
           UNCHANGED linkVars
    PROVE  OpenTrue'
<1> DEFINE h == Head(queue)
<1> DEFINE t == Tail(queue)
<1>1. /\ sess = "running" /\ queue # <<>> /\ queue' = t
      /\ UNCHANGED <<toClient, fd, sess, timeouts, joined>>
  BY DEF Read, sockVars
<1>2. UNCHANGED <<cl, out, running>>
  BY DEF linkVars, captureVars
<1>3. queue \in Seq(Messages) /\ Coming \in Seq(Messages)
  BY BaseIs
<1>4. h \in Messages /\ t \in Seq(Messages) /\ queue = <<h>> \o t
  BY <1>1, <1>3
<1>5. expect' = AfterItem(expect, h)
  OBVIOUS
<1> HIDE DEF h, t
<1>6. <<h>> \in Seq(Messages) /\ <<>> \in Seq(Messages) /\ Append(<<>>, h) = <<h>>
  BY <1>4
<1>7. Coming' = Coming
  BY <1>1, <1>2 DEF Coming
<1>8. Live' => Live
  BY <1>1, <1>2 DEF Live, Served, Late
<1>9. ASSUME NEW g \in Nat, Live', Promised(g)'
      PROVE  Promised(g) /\ (Opened(g) => Scan(g)' = Scan(g))
  <2>1. Promised(g)
    BY <1>1, <1>9 DEF Promised
  <2> DEFINE f == From(g)
  <2> DEFINE one == <<h>>
  <2> DEFINE s == OpenItem(f, h)
  <2>2. f \in OpenType /\ f.at = expect /\ f.grid = g /\ f.wrong = {}
    BY FromIs
  <2>3. one \in Seq(Messages)
    BY <1>6
  <2> HIDE DEF f, one
  <2>4. s \in OpenType /\ s.at = expect' /\ s.grid = g
    BY <1>4, <1>5, <2>2, OpenItemIs DEF Onward
  <2>5. OpenAll(f, one) = s
    <3>1. OpenAll(f, Append(<<>>, h)) = OpenItem(OpenAll(f, <<>>), h)
      BY <1>4, <1>6, OpenAppend
    <3> QED BY <1>6, <3>1, OpenNone DEF one
  <2> HIDE DEF s
  <2>6. OpenAll(f, queue) = OpenAll(s, t)
    <3>1. OpenAll(f, one \o t) = OpenAll(OpenAll(f, one), t)
      BY <1>4, <2>3, OpenConcat
    <3> QED BY <1>4, <2>5, <3>1 DEF one
  <2>7. Scan(g) = OpenAll(OpenAll(s, t), Coming)
    BY <2>6 DEF Scan, f
  <2>8. Scan(g)' = OpenAll(OpenAll(From(g)', t), Coming)
    BY <1>1, <1>7 DEF Scan
  <2>9. ASSUME Opened(g) PROVE From(g)' = s
    <3>1. OpenAll(OpenAll(s, t), Coming).wrong = {}
      BY <2>7, <2>9 DEF Opened, Sound
    <3>2. Onward(s, OpenAll(s, t))
      BY <1>4, <2>4, OpenAllOn
    <3>3. Onward(OpenAll(s, t), OpenAll(OpenAll(s, t), Coming))
      BY <1>3, <3>2, OpenAllOn DEF Onward
    <3>4. s.wrong = {}
      BY <3>1, <3>2, <3>3 DEF Onward
    <3> QED BY <2>4, <3>4 DEF From, OpenType
  <2> QED BY <2>1, <2>7, <2>8, <2>9
<1> QED BY <1>2, <1>8, <1>9, SameOpen

\* A session that joined runs, or is over.
LEMMA RemoteJoins ==
    ASSUME TypeInv, TypeInv', ConnInv, JoinedTrue, RemoteDoes
    PROVE  JoinedTrue'
<1>1. joined' \in Joins
  BY DEF TypeInv, RemoteTypes
<1> SUFFICES sess' \notin {"running", "over"} => joined' = NoJoin
  BY <1>1 DEF JoinedTrue
<1>2. CASE Connect
  <2>1. fd = 0 /\ joined' = joined
    BY <1>2 DEF Connect
  <2>2. sess = "closed"
    BY <2>1 DEF ConnInv, Waits
  <2> QED BY <2>1, <2>2 DEF JoinedTrue
<1>3. CASE WelcomeStep
  <2>1. sess = "opening" /\ joined' = joined
    BY <1>3 DEF WelcomeStep, Welcomed
  <2> QED BY <2>1 DEF JoinedTrue
<1>4. CASE Send \/ ReceiveStep \/ Read
  <2>1. UNCHANGED <<sess, joined>>
    BY <1>4 DEF Send, ReceiveStep, Read
  <2> QED BY <2>1 DEF JoinedTrue
<1>5. CASE Return
  <2>1. /\ waiting # None /\ sess' = SessionAfter
        /\ joined' = IF Accepted /\ waiting.type = "ATTACH" THEN reply.join ELSE joined
    BY <1>5 DEF Return
  <2>2. \/ waiting.type = "ATTACH" /\ sess = "greeted"
        \/ waiting.type = "HELLO" /\ sess \in {"greeted", "open"}
        \/ waiting.type = "CONFIG" /\ sess \in {"ready", "set"}
        \/ waiting.type = "STOP" /\ sess = "running"
    BY <2>1, WaitingIs
  <2>3. CASE Accepted /\ waiting.type = "ATTACH"
    BY <2>1, <2>3 DEF SessionAfter
  <2>4. CASE waiting.type = "STOP"
    BY <2>1, <2>4 DEF SessionAfter, Failed
  <2>5. CASE waiting.type # "STOP" /\ ~(Accepted /\ waiting.type = "ATTACH")
    BY <2>1, <2>2, <2>5 DEF JoinedTrue
  <2> QED BY <2>3, <2>4, <2>5
<1>6. CASE Timeout
  <2>1. waiting # None /\ sess' = Failed(waiting) /\ joined' = joined
    BY <1>6 DEF Timeout
  <2>2. waiting.type = "STOP" \/ sess \in {"greeted", "open", "ready", "set"}
    BY <2>1, WaitingIs
  <2> QED BY <2>1, <2>2 DEF Failed, JoinedTrue
<1>7. CASE CloseStep
  BY <1>7 DEF CloseStep, CloseRemote
<1> QED BY <1>2, <1>3, <1>4, <1>5, <1>6, <1>7 DEF RemoteDoes

LEMMA RemoteOpens ==
    ASSUME AllInv, TypeInv', StreamInv, JoinInv, UNCHANGED linkVars,
           \/ Read /\ expect' = AfterItem(expect, Head(queue))
           \/ RemoteDoes /\ ~Read /\ Counted
    PROVE  JoinInv'
<1>1. TypeInv /\ ConnInv /\ OneAnswer /\ ReadTrue /\ JoinedTrue /\ OpenTrue
  BY DEF AllInv, StreamInv, JoinInv
<1>2. JoinedTrue'
  BY <1>1, RemoteJoins DEF RemoteDoes
<1>3. Halves(tail, dev)'
  <2>1. UNCHANGED <<tail, dev>>
    BY DEF linkVars, captureVars
  <2> QED BY <2>1 DEF JoinInv, Halves
<1> SUFFICES OpenTrue'
  BY <1>2, <1>3 DEF JoinInv
<1>4. CASE Read /\ expect' = AfterItem(expect, Head(queue))
  BY <1>1, <1>4, ReadOpens
<1>5. CASE RemoteDoes /\ ~Read /\ Counted
  <2>1. CASE Connect
    BY <1>1, <2>1, ConnectSays, NotOpen DEF Served
  <2>2. CASE CloseStep
    BY <2>2, CloseSays, NotOpen DEF Served
  <2>3. CASE WelcomeStep
    BY <1>1, <2>3, WelcomeOpens
  <2>4. CASE Send \/ ReceiveStep
    BY <1>1, <1>5, <2>4, SendOpens, ReceiveOpens
  <2>5. CASE Return
    BY <1>1, <1>5, <2>5, ReturnOpens
  <2>6. CASE Timeout
    BY <1>1, <2>6, TimeoutConn DEF OpenTrue, Live
  <2> QED BY <1>5, <2>1, <2>2, <2>3, <2>4, <2>5, <2>6 DEF RemoteDoes
<1> QED BY <1>4, <1>5

LEMMA JoinStep == AllInv /\ StreamInv /\ JoinInv /\ [Next]_vars => JoinInv'
<1> SUFFICES ASSUME AllInv, StreamInv, JoinInv, [Next]_vars PROVE JoinInv'
  OBVIOUS
<1>1. TypeInv'
  BY TypeStep DEF AllInv
<1>2. StreamInv'
  BY StreamStep
<1>3. CASE LinkNext /\ UNCHANGED <<remoteVars, expect>>
  BY <1>2, <1>3, LinkOpens
<1>4. CASE UNCHANGED vars
  <2>1. UNCHANGED <<fd, cl, running, dev, queue, expect, sess, joined, timeouts, tail, toClient, out>>
    BY <1>4 DEF vars, sockVars, linkVars, captureVars, remoteVars
  <2>2. \A m : Said(m)' <=> Said(m)
    BY <1>4, StutterSays
  <2>3. Coming' = Coming
    BY <2>1 DEF Coming
  <2>4. OpenTrue'
    BY <2>1, <2>2, <2>3, ScanSame DEF JoinInv
  <2> QED BY <2>1, <2>4 DEF JoinInv, JoinedTrue, Halves
<1> QED BY <1>1, <1>3, <1>4, StepsCount, RemoteOpens

LEMMA JoinHolds == Spec => [](AllInv /\ StreamInv /\ JoinInv)
<1>1. SystemInit => JoinInv
  BY JoinInit
<1>2. AllInv /\ StreamInv /\ JoinInv /\ [Next]_vars => JoinInv'
  BY JoinStep
<1> QED BY <1>1, <1>2, StreamHolds, PTL DEF Spec

\* The first item of a data channel that has not begun, when it is a DATA, is one that a
\* sound reading begins with.
LEMMA FirstIsGood ==
    ASSUME NEW s \in OpenType, NEW ms \in Seq(Messages), OpenAll(s, ms).wrong = {},
           NEW d \in Dcs, s.at[d] = Unknown, NEW i \in 1 .. Len(ms),
           ms[i].type = "DATA", ms[i].ch = d,
           \A j \in 1 .. i - 1 : ms[j].type \in {"DATA", "EVENT"} => ms[j].ch # d
    PROVE  Good(ms[i], s.grid)
<1> SUFFICES ASSUME ~Good(ms[i], s.grid) PROVE FALSE
  OBVIOUS
<1> DEFINE n == Len(ms)
<1>1. n \in Nat /\ DOMAIN ms = 1 .. n /\ i \in 1 .. n
  OBVIOUS
<1> HIDE DEF n
<1>2. PICK t : OpenFold!Chain(t, s, ms, n) /\ OpenFold!Fold(s, ms) = t[n]
  BY <1>1, OpenFold!FoldChain
<1>3. t[0] = s /\ \A j \in 1 .. n : t[j] = OpenItem(t[j - 1], ms[j])
  BY <1>2 DEF OpenFold!Chain
<1> DEFINE Mid(j) == /\ t[j] \in OpenType /\ t[j].grid = s.grid
                     /\ j < i => t[j].at[d] = Unknown
                     /\ j >= i => d \in t[j].wrong
<1> DEFINE T == {j \in Nat : j <= n => Mid(j)}
<1>4. 0 \in T
  BY <1>1, <1>3
<1>5. ASSUME NEW j \in T PROVE j + 1 \in T
  <2> SUFFICES ASSUME j + 1 <= n PROVE Mid(j + 1)
    OBVIOUS
  <2>1. j \in Nat /\ j <= n /\ j + 1 \in 1 .. n /\ (j + 1) - 1 = j
    BY <1>1
  <2>2. Mid(j)
    BY <2>1
  <2> HIDE DEF T
  <2> DEFINE m == ms[j + 1]
  <2>3. m \in Messages /\ t[j + 1] = OpenItem(t[j], m)
    BY <1>1, <1>3, <2>1
  <2> HIDE DEF m
  <2>4. /\ t[j + 1] \in OpenType /\ t[j + 1].grid = s.grid /\ t[j].wrong \subseteq t[j + 1].wrong
        /\ t[j + 1].wrong = t[j].wrong \cup Wrong(t[j], m)
        /\ t[j + 1].at[d] = After(d, t[j].at[d], m)
    <3> DEFINE v == t[j]
    <3>1. v \in OpenType /\ v.grid = s.grid
      BY <2>2
    <3> HIDE DEF v, Mid
    <3>2. /\ Onward(v, OpenItem(v, m)) /\ OpenItem(v, m).wrong = v.wrong \cup Wrong(v, m)
          /\ OpenItem(v, m).at[d] = After(d, v.at[d], m)
      BY <2>3, <3>1, OpenItemIs
    <3>3. OpenItem(v, m) = t[j + 1]
      BY <2>3 DEF v
    <3> QED BY <3>1, <3>2, <3>3 DEF Onward, v
  <2>5. ASSUME j + 1 < i PROVE t[j + 1].at[d] = Unknown
    <3>1. t[j].at[d] = Unknown /\ j + 1 \in 1 .. i - 1
      BY <1>1, <2>1, <2>2, <2>5
    <3>2. m.type \in {"DATA", "EVENT"} => m.ch # d
      BY <3>1 DEF m
    <3> QED BY <2>4, <3>1, <3>2 DEF After
  <2>6. ASSUME j + 1 = i PROVE d \in t[j + 1].wrong
    <3>1. t[j].at[d] = Unknown /\ m = ms[i]
      BY <1>1, <2>1, <2>2, <2>6 DEF m
    <3>2. d \in Wrong(t[j], m)
      BY <2>2, <3>1 DEF Wrong
    <3> QED BY <2>4, <3>2
  <2>7. ASSUME j + 1 > i PROVE d \in t[j + 1].wrong
    <3>1. j >= i
      BY <1>1, <2>1, <2>7
    <3> QED BY <2>2, <2>4, <3>1
  <2> QED BY <1>1, <2>1, <2>4, <2>5, <2>6, <2>7
<1> HIDE DEF Mid, T
<1>6. n \in T
  BY <1>1, <1>4, <1>5, InductiveSet DEF T
<1>7. d \in t[n].wrong
  BY <1>1, <1>6 DEF T, Mid
<1> QED BY <1>2, <1>7, OpenAllIs

LEMMA JoinsAt ==
    ASSUME TypeInv, ReadTrue, JoinedTrue, OpenTrue
    PROVE  JoinsAtHeartbeat
<1> SUFFICES ASSUME Follows, ~Late, joined # NoJoin, NEW d \in Dcs, NEW i \in DOMAIN Pipe,
                    expect[d] = Unknown, FirstOf(d, i), Pipe[i].type = "DATA"
             PROVE  Pipe[i].data[1].hb >= joined.grid
  BY DEF JoinsAtHeartbeat
<1> DEFINE g == joined.grid
<1>1. g \in Nat
  BY DEF JoinedTrue, Joins
<1>2. Live /\ Served /\ running /\ Promised(g)
  BY DEF Follows, Live, Served, Promised
<1> HIDE DEF g
<1>3. Scan(g).wrong = {}
  BY <1>1, <1>2 DEF OpenTrue, Opened, Sound
<1> DEFINE f == From(g)
<1>4. f \in OpenType /\ f.at = expect /\ f.grid = g
  BY <1>1, FromIs
<1>5. queue \in Seq(Messages) /\ Coming \in Seq(Messages) /\ Pipe = queue \o Coming
  BY <1>2, BaseIs, PipeIs
<1>6. Scan(g) = OpenAll(OpenAll(f, queue), Coming)
  BY DEF Scan
<1> HIDE DEF f
<1>7. OpenAll(f, queue \o Coming) = OpenAll(OpenAll(f, queue), Coming)
  BY <1>5, OpenConcat
<1> DEFINE ms == Pipe
<1>8. ms \in Seq(Messages) /\ i \in 1 .. Len(ms)
  <2>1. ms \in Seq(Messages)
    BY <1>5
  <2> QED BY <2>1
<1>9. /\ ms[i].type = "DATA" /\ ms[i].ch = d
      /\ \A j \in 1 .. i - 1 : ms[j].type \in {"DATA", "EVENT"} => ms[j].ch # d
  BY DEF FirstOf
<1>10. OpenAll(f, ms).wrong = {}
  BY <1>3, <1>5, <1>6, <1>7
<1>11. f.at[d] = Unknown
  BY <1>4
<1> HIDE DEF ms
<1>12. Good(ms[i], f.grid)
  BY <1>4, <1>8, <1>9, <1>10, <1>11, FirstIsGood
<1> QED BY <1>4, <1>12 DEF Good, g, ms

\* A client that joins a capture starts each data channel at the first unit of a heartbeat
\* of the grid count its ATTACH reply told, or of a later one, over any number of
\* connections, captures and queued items, while none of the channel's items was dropped
\* before and the connection has given up no request: with a backend that loses items too
\* (link.c forward(), on_attach(); docs/link-protocol.md, ATTACH).
THEOREM JoinsBegin == Spec => []JoinsAtHeartbeat
<1>1. AllInv /\ StreamInv /\ JoinInv => JoinsAtHeartbeat
  BY JoinsAt DEF AllInv, StreamInv, JoinInv
<1> QED BY <1>1, JoinHolds, PTL
=============================================================================
