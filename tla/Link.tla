-------------------------------- MODULE Link --------------------------------
(***************************************************************************)
(* bus-replay link (host/modes/link.c): one thread that serves the device  *)
(* to one client at a time.  It reads requests and answers them, takes the *)
(* running capture's items from the device, keeps the last units of every  *)
(* data channel's stream, and queues the items for the client, up to a     *)
(* limit.  Each handler of the loop in link_main() is an action.           *)
(*                                                                         *)
(* External: the device behind the source operations, which answers or     *)
(* fails, and sends data, heartbeats, loss reports and overflow events.    *)
(* Left out: the link's own recording and the requests about it (RECORD,   *)
(* STATUS), allocations that fail, and the sizes of partial messages.      *)
(***************************************************************************)
EXTENDS LinkProto

CONSTANTS
    QueueMax,     \* queue_max, in units
    TailKeep,     \* TAIL_KEEP, in units
    PullMax,      \* items one pull takes at most
    MaxPos,       \* bound: units a data channel sends, per data channel
    MaxReports,   \* bound: loss reports in a capture
    MaxFaults,    \* bound: source operations that fail, and signals
    BackendDrops  \* whether the backend's own queue may overflow

ASSUME LinkAssumption ==
    /\ QueueMax \in Nat \ {0}
    /\ TailKeep \in Nat \ {0}
    /\ PullMax \in Nat \ {0}
    /\ BackendDrops \in BOOLEAN

VARIABLES
    up,       \* link_main() is in its loop
    hello,    \* a hello of the device is kept
    log,      \* the configuration messages and replies kept, as pairs
    running,  \* a capture runs
    lastGrid, \* per data channel, the newest heartbeat's grid count
    pos,      \* per data channel, the units taken of it
    tail,     \* the last of them
    lossBase, \* the last loss report's number, 0 for none
    cl,       \* the client
    out,      \* what is queued for the client
    dev       \* the device

captureVars == <<hello, log, running, lastGrid, pos, tail, lossBase>>
linkVars == <<up, captureVars, cl, out, dev>>

----------------------------------------------------------------------------
(* The device (external). *)

QuietStream == [pos |-> 0, grid |-> 0, half |-> 0]

\* A reset ends the capture and forgets the configuration.
ResetDev(d) ==
    [d EXCEPT !.on = FALSE, !.setup = <<>>, !.reports = 0,
              !.stream = [c \in Dcs |-> QuietStream]]

FaultDev(d) == [d EXCEPT !.faults = @ + 1]

----------------------------------------------------------------------------
(* The queue for the client. *)

NoCounts == [d \in Dcs |-> 0]

NoClient ==
    [fd |-> 0, streaming |-> FALSE, attaching |-> FALSE, grid |-> 0, started |-> {},
     dropped |-> NoCounts, droppedCtl |-> 0]

\* The totals of all drops, which only STATUS tells, are left out.
CountDrop(c, m) ==
    IF m.type = "DATA" THEN [c EXCEPT !.dropped[m.ch] = @ + Len(m.data)]
    ELSE [c EXCEPT !.droppedCtl = @ + 1]

Owed(c, m) == IF m.type = "DATA" THEN c.dropped[m.ch] ELSE 0

Announces(c, m) ==
    IF m.type = "DATA" THEN c.dropped[m.ch] > 0 ELSE c.droppedCtl > 0

\* The overflow event before m; its own size is not counted against the limit.
Announcement(c, m) ==
    Overflow(IF m.type = "DATA" THEN m.ch ELSE 0, Owed(c, m), c.droppedCtl, TRUE)

\* What the announcement tells is not owed any more.
Told(c, m) ==
    IF m.type = "DATA" THEN [c EXCEPT !.dropped[m.ch] = 0, !.droppedCtl = 0]
    ELSE [c EXCEPT !.droppedCtl = 0]

\* Mutant: the event comes after the item.
EnqueueLate(q, m) ==
    IF QueuedUnits(q.out) + Units(m) > QueueMax
    THEN [q EXCEPT !.cl = CountDrop(q.cl, m)]
    ELSE IF ~Announces(q.cl, m)
    THEN [q EXCEPT !.out = Append(@, m)]
    ELSE [q EXCEPT !.cl = Told(q.cl, m), !.out = @ \o <<m, Announcement(q.cl, m)>>]

\* q is the client, its queue, and the pull its items are from.
Enqueue(q, m) ==
    IF QueuedUnits(q.out) + Units(m) > QueueMax
    THEN [q EXCEPT !.cl = CountDrop(q.cl, m)]
    ELSE IF ~Announces(q.cl, m)
    THEN [q EXCEPT !.out = Append(@, m)]
    ELSE [q EXCEPT !.cl = Told(q.cl, m), !.out = @ \o <<Announcement(q.cl, m), m>>]

EnqueueAll(q, ms) == FoldLeft(Enqueue, q, ms)

----------------------------------------------------------------------------
(* Connections. *)

\* close() with what is still unread on this end.
CloseLinkEnd(c) ==
    /\ linkEnd' = linkEnd \ {c}
    /\ toLink' = [toLink EXCEPT ![c] = <<>>]

DropClient ==
    /\ cl' = NoClient
    /\ out' = <<>>
    /\ CloseLinkEnd(cl.fd)

Welcome == [type |-> "WELCOME", runs |-> running, data |-> <<>>]
Busy == [type |-> "BUSY", data |-> <<>>]

AcceptClient ==
    /\ up
    /\ backlog # <<>>
    /\ backlog' = Tail(backlog)
    /\ LET c == Head(backlog) IN
       IF cl.fd # 0
       THEN /\ toClient' = [toClient EXCEPT ![c] =
                                IF c \in clientEnd THEN Append(@, Busy) ELSE @]
            /\ CloseLinkEnd(c)
            /\ UNCHANGED <<cl, out>>
       ELSE /\ cl' = [NoClient EXCEPT !.fd = c]
            /\ out' = <<Welcome>>
            /\ UNCHANGED <<toLink, toClient, linkEnd>>
    /\ UNCHANGED <<clientEnd, up, captureVars, dev>>

\* recv() gives the end of the stream: the client has closed, all it sent is read.
ClientGone ==
    /\ up
    /\ cl.fd # 0
    /\ cl.fd \notin clientEnd
    /\ toLink[cl.fd] = <<>>
    /\ DropClient
    /\ UNCHANGED <<toClient, clientEnd, backlog, up, captureVars, dev>>

\* What the socket takes now; a client that has closed fails it.
ClientWrite ==
    /\ up
    /\ cl.fd # 0
    /\ out # <<>>
    /\ IF cl.fd \notin clientEnd
       THEN DropClient /\ UNCHANGED toClient
       ELSE LET room == SockMax - Len(toClient[cl.fd])
                n == IF Len(out) < room THEN Len(out) ELSE room
            IN /\ n > 0
               /\ toClient' = [toClient EXCEPT ![cl.fd] = @ \o SubSeq(out, 1, n)]
               /\ out' = SubSeq(out, n + 1, Len(out))
               /\ UNCHANGED <<cl, linkEnd, toLink>>
    /\ UNCHANGED <<clientEnd, backlog, up, captureVars, dev>>

----------------------------------------------------------------------------
(* Requests. *)

\* The next request of the client, taken from the socket.
Request(type, req) ==
    /\ up
    /\ cl.fd # 0
    /\ toLink[cl.fd] # <<>>
    /\ req = Head(toLink[cl.fd])
    /\ req.type = type
    /\ toLink' = [toLink EXCEPT ![cl.fd] = Tail(@)]
    /\ UNCHANGED <<toClient, clientEnd, linkEnd, backlog, up>>

\* Mutant: an error is answered, then the handler goes on.
AnswerFallsThrough(req, status, rest, join) ==
    out' = IF status = "ok" THEN Append(out, Reply(req, status, rest, join))
           ELSE out \o <<Reply(req, status, rest, join), Reply(req, "ok", rest, join)>>

\* A reply is never dropped, whatever the queue's length.
Answer(req, status, rest, join) == out' = Append(out, Reply(req, status, rest, join))

\* capture_end(): the arrays of the capture go, the client gets no more items.
EndedClient == [cl EXCEPT !.streaming = FALSE, !.attaching = FALSE]

EndCapture ==
    /\ running' = FALSE
    /\ cl' = EndedClient
    /\ lastGrid' = NoCounts
    /\ pos' = NoCounts
    /\ tail' = [d \in Dcs |-> <<>>]

EndIfRunning ==
    IF running THEN EndCapture
    ELSE UNCHANGED <<running, cl, lastGrid, pos, tail>>

\* A reset that fails may have reached the device or not.
Hellos(d) == {<<"ok", ResetDev(d)>>} \cup
             (IF d.faults < MaxFaults
              THEN {<<"error", FaultDev(d)>>, <<"error", FaultDev(ResetDev(d))>>} ELSE {})

\* Mutant: the configuration of before stays in the log.
OnHelloKeepsLog(req) ==
    /\ Request("HELLO", req)
    /\ EndIfRunning
    /\ \E h \in Hellos(IF running THEN ResetDev(dev) ELSE dev) :
          /\ dev' = h[2]
          /\ hello' = (hello \/ h[1] = "ok")
          /\ Answer(req, h[1], "none", NoJoin)
    /\ UNCHANGED <<log, lossBase>>

\* A capture that runs is stopped, with a reset of its own, before the hello.
OnHello(req) ==
    /\ Request("HELLO", req)
    /\ EndIfRunning
    /\ log' = <<>>
    /\ \E h \in Hellos(IF running THEN ResetDev(dev) ELSE dev) :
          /\ dev' = h[2]
          /\ hello' = (hello \/ h[1] = "ok")
          /\ Answer(req, h[1], "none", NoJoin)
    /\ UNCHANGED lossBase

\* Mutant: only for a client that gets the items.
OnStopIfStreaming(req) ==
    /\ Request("STOP", req)
    /\ EndIfRunning
    /\ dev' = IF running /\ cl.streaming THEN ResetDev(dev) ELSE dev
    /\ Answer(req, "ok", "none", NoJoin)
    /\ UNCHANGED <<hello, log, lossBase>>

OnStop(req) ==
    /\ Request("STOP", req)
    /\ EndIfRunning
    /\ dev' = IF running THEN ResetDev(dev) ELSE dev
    /\ Answer(req, "ok", "none", NoJoin)
    /\ UNCHANGED <<hello, log, lossBase>>

\* How a configuration message may end: applied, rejected, or an error either way.
Configs(d, reg) ==
    LET applied == [d EXCEPT !.setup = Append(@, reg), !.on = @ \/ reg = "capture"] IN
    {<<"ok", "accepted", applied>>, <<"ok", "rejected", d>>} \cup
    (IF d.faults < MaxFaults
     THEN {<<"error", "none", FaultDev(d)>>, <<"error", "none", FaultDev(applied)>>} ELSE {})

RefuseConfig(req) ==
    /\ Request("CONFIG", req)
    /\ running \/ ~hello
    /\ Answer(req, "error", "none", NoJoin)
    /\ UNCHANGED <<captureVars, cl, dev>>

\* capture_begin() fails: the device captures, the link does not follow.
BeginFails ==
    /\ dev.faults < MaxFaults
    /\ UNCHANGED <<running, lastGrid, pos, tail, lossBase, cl>>

CaptureBegin ==
    /\ running' = TRUE
    /\ lossBase' = 0
    /\ lastGrid' = NoCounts
    /\ pos' = NoCounts
    /\ tail' = [d \in Dcs |-> <<>>]
    /\ cl' = [cl EXCEPT !.streaming = TRUE, !.started = {}, !.dropped = NoCounts]

OnConfig(req) ==
    /\ Request("CONFIG", req)
    /\ ~running
    /\ hello
    /\ \E r \in Configs(dev, req.reg) :
          /\ Answer(req, r[1], r[2], NoJoin)
          /\ log' = IF r[1] = "ok" THEN Append(log, <<req.reg, r[2]>>) ELSE log
          /\ IF req.reg = "capture" /\ r[2] = "accepted"
             THEN \/ CaptureBegin /\ dev' = r[3]
                  \/ BeginFails /\ dev' = FaultDev(r[3])
             ELSE /\ dev' = r[3]
                  /\ UNCHANGED <<running, lastGrid, pos, tail, lossBase, cl>>
    /\ UNCHANGED hello

\* The grid count every data channel has still to reach.
JoinGrid == 1 + CHOOSE g \in {lastGrid[d] : d \in Dcs} : \A d \in Dcs : g >= lastGrid[d]

\* Mutant: no reply once the capture has ended.
OnAttachIfRunning(req) ==
    /\ Request("ATTACH", req)
    /\ IF ~running
       THEN UNCHANGED <<cl, out>>
       ELSE /\ Answer(req, "ok", "none", [grid |-> JoinGrid, log |-> log, base |-> lossBase])
            /\ cl' = [cl EXCEPT !.streaming = FALSE, !.attaching = TRUE,
                                !.grid = JoinGrid, !.started = {}]
    /\ UNCHANGED <<captureVars, dev>>

OnAttach(req) ==
    /\ Request("ATTACH", req)
    /\ IF ~running
       THEN Answer(req, "error", "none", NoJoin) /\ UNCHANGED cl
       ELSE /\ Answer(req, "ok", "none", [grid |-> JoinGrid, log |-> log, base |-> lossBase])
            /\ cl' = [cl EXCEPT !.streaming = FALSE, !.attaching = TRUE,
                                !.grid = JoinGrid, !.started = {}]
    /\ UNCHANGED <<captureVars, dev>>

----------------------------------------------------------------------------
(* The capture's items. *)

\* A pull under way: what it has taken and seen, and what tee_read() keeps up to date.
PullStart ==
    [dev |-> dev, taken |-> <<>>, seen |-> <<>>, lastGrid |-> lastGrid, base |-> lossBase,
     pos |-> pos,
     tail |-> [d \in Dcs |->
                 LET over == Len(tail[d]) - TailKeep IN
                 IF over > 0 THEN SubSeq(tail[d], over + 1, Len(tail[d])) ELSE tail[d]]]

Sends(p) == {d \in Dcs : p.dev.stream[d].pos < MaxPos[d]}

\* One unit of data channel d; hb is the heartbeat it starts, if any.
TeeData(p, d, hb) ==
    LET s == p.dev.stream[d]
        unit == [p |-> s.pos, hb |-> hb]
    IN [p EXCEPT !.dev.stream[d] = [pos |-> s.pos + 1, half |-> hb,
                                    grid |-> IF hb > 0 THEN hb ELSE s.grid],
                 !.taken = Append(@, Data(d, <<unit>>)),
                 !.pos[d] = @ + 1, !.tail[d] = Append(@, unit)]

\* on_heartbeat(): the unit that completes a heartbeat, where it started in its stream.
TeeHeartbeat(p, d) ==
    LET s == p.dev.stream[d] IN
    [TeeData(p, d, 0) EXCEPT
        !.lastGrid[d] = s.half,
        !.seen = Append(@, [dc |-> d, grid |-> s.half, pos |-> p.pos[d] - 1])]

\* A loss report, kept for a client that joins later.
TeeReport(p) ==
    [p EXCEPT !.dev.reports = @ + 1, !.base = p.dev.reports + 1,
              !.taken = Append(@, Control(p.dev.reports + 1))]

\* The backend's queue has dropped a unit: an item that says so comes in its place.
TeeOverflow(p, d) ==
    LET s == p.dev.stream[d] IN
    [p EXCEPT !.dev.stream[d] = [pos |-> s.pos + 1, half |-> 0, grid |-> s.grid],
              !.taken = Append(@, Overflow(d, 1, 0, FALSE))]

\* What tee_read() may give next.  A heartbeat whose check fails is not handled.
TeeRead(p) ==
    {TeeData(p, d, 0) : d \in Sends(p)}
    \cup {TeeData(p, d, p.dev.stream[d].grid + 1) :
              d \in {c \in Sends(p) : p.dev.stream[c].half = 0}}
    \cup {TeeHeartbeat(p, d) : d \in {c \in Sends(p) : p.dev.stream[c].half > 0}}
    \cup {TeeOverflow(p, d) : d \in {c \in Sends(p) : BackendDrops}}
    \cup (IF p.dev.reports < MaxReports THEN {TeeReport(p)} ELSE {})

PullOn(ps, i) == ps \cup UNION {TeeRead(p) : p \in ps}

\* The pulls of up to PullMax items.
Pulls == FoldLeft(PullOn, {PullStart}, [i \in 1..PullMax |-> i])

\* DATA of the data channels that began in an earlier pull.
ForwardBegun(q, m) == IF m.type = "DATA" /\ m.ch \in q.cl.started THEN Enqueue(q, m) ELSE q

\* Where data channel d's tail begins in what was taken of it.
TailPos(p, d) == p.pos[d] - Len(p.tail[d])

\* Mutant: any heartbeat starts the stream.
StartsAtAny(p, c, d) ==
    {i \in DOMAIN p.seen : p.seen[i].dc = d /\ p.seen[i].pos >= TailPos(p, d)}

\* The heartbeats data channel d may begin at, that its tail still holds.
StartsAt(p, c, d) ==
    {i \in DOMAIN p.seen :
        /\ p.seen[i].dc = d
        /\ p.seen[i].grid >= c.grid
        /\ p.seen[i].pos >= TailPos(p, d)}

\* The stream from the first of them on.
FirstData(p, c, d) ==
    LET i == CHOOSE j \in StartsAt(p, c, d) : \A k \in StartsAt(p, c, d) : j <= k
    IN Data(d, SubSeq(p.tail[d], p.seen[i].pos - TailPos(p, d) + 1, Len(p.tail[d])))

\* Data channel d begins, if it can and has not.
StartOn(q, d) ==
    IF d \in q.cl.started \/ StartsAt(q.pull, q.cl, d) = {} THEN q
    ELSE [Enqueue(q, FirstData(q.pull, q.cl, d)) EXCEPT !.cl.started = @ \cup {d}]

Attached(q) ==
    LET begun == FoldLeft(ForwardBegun, q, q.pull.taken)
        after == FoldLeft(StartOn, begun, [i \in 1..DcCount |-> i - 1])
    IN [after EXCEPT !.cl.attaching = (after.cl.started # Dcs),
                     !.cl.streaming = (after.cl.started = Dcs)]

Forwarded(q) ==
    IF q.cl.attaching THEN Attached(q)
    ELSE IF q.cl.streaming THEN EnqueueAll(q, q.pull.taken)
    ELSE q

Forward(p) == Forwarded([cl |-> cl, out |-> out, pull |-> p])

Pull ==
    /\ up
    /\ running
    /\ \E p \in Pulls :
          /\ p.taken # <<>>
          /\ dev' = p.dev
          /\ lastGrid' = p.lastGrid
          /\ pos' = p.pos
          /\ tail' = p.tail
          /\ lossBase' = p.base
          /\ cl' = Forward(p).cl
          /\ out' = Forward(p).out
    /\ UNCHANGED <<sockVars, up, hello, log, running>>

\* The backend fails: what was taken is passed on, then the capture ends.
PullFails ==
    /\ up
    /\ running
    /\ dev.faults < MaxFaults
    /\ \E p \in Pulls :
          /\ dev' = FaultDev(ResetDev(p.dev))
          /\ lossBase' = p.base
          /\ cl' = [Forward(p).cl EXCEPT !.streaming = FALSE, !.attaching = FALSE]
          /\ out' = Forward(p).out
    /\ running' = FALSE
    /\ lastGrid' = NoCounts
    /\ pos' = NoCounts
    /\ tail' = [d \in Dcs |-> <<>>]
    /\ UNCHANGED <<sockVars, up, hello, log>>

\* A signal ends the loop, a capture that runs, and the connection.
Quit ==
    /\ up
    /\ dev.faults < MaxFaults
    /\ up' = FALSE
    /\ running' = FALSE
    /\ lastGrid' = NoCounts
    /\ pos' = NoCounts
    /\ tail' = [d \in Dcs |-> <<>>]
    /\ dev' = FaultDev(IF running THEN ResetDev(dev) ELSE dev)
    /\ hello' = FALSE
    /\ log' = <<>>
    /\ lossBase' = 0
    /\ cl' = NoClient
    /\ out' = <<>>
    /\ linkEnd' = {}
    /\ backlog' = <<>>
    /\ toLink' = [c \in Conns |-> <<>>]
    /\ UNCHANGED <<toClient, clientEnd>>

----------------------------------------------------------------------------

LinkInit ==
    /\ up = TRUE
    /\ hello = FALSE
    /\ log = <<>>
    /\ running = FALSE
    /\ lastGrid = NoCounts
    /\ pos = NoCounts
    /\ tail = [d \in Dcs |-> <<>>]
    /\ lossBase = 0
    /\ cl = NoClient
    /\ out = <<>>
    /\ dev = [on |-> FALSE, setup |-> <<>>, faults |-> 0, reports |-> 0,
              stream |-> [d \in Dcs |-> QuietStream]]

Requests ==
    LET req == Head(toLink[cl.fd]) IN
    /\ cl.fd # 0
    /\ toLink[cl.fd] # <<>>
    /\ \/ OnHello(req)
       \/ OnStop(req)
       \/ RefuseConfig(req)
       \/ OnConfig(req)
       \/ OnAttach(req)

LinkNext ==
    \/ AcceptClient
    \/ ClientGone
    \/ Requests
    \/ ClientWrite
    \/ Pull
    \/ PullFails
    \/ Quit
=============================================================================
