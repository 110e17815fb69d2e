------------------------------- MODULE Remote -------------------------------
(***************************************************************************)
(* The link's client: the remote backend (host/capture/remote.c) and the   *)
(* capture session on it (host/capture/capture.c), which opens it, starts  *)
(* or joins a capture, reads its items and stops it.  A session runs one   *)
(* capture; the next one is on a new connection                            *)
(* (host/ui/session/session.c, CMD_START).                                 *)
(***************************************************************************)
EXTENDS LinkProto

CONSTANTS
    RequestIds,  \* bound: requests told apart, more than are under way at once
    MaxTimeouts, \* bound: requests that run into REMOTE_TIMEOUT_MS
    MayCrash     \* whether the client may end without a STOP while a capture runs

ASSUME RemoteAssumption == MayCrash \in BOOLEAN /\ RequestIds \in Nat \ {0, 1}

VARIABLES
    fd,        \* the connection, 0 for none
    conns,     \* the number of connections made
    sess,      \* how far the capture session is
    waiting,   \* the request waiting for its reply, if any
    lastId,    \* the last request's number, modulo RequestIds
    haveReply, \* a reply has been taken
    reply,     \* the last reply taken
    queue,     \* the items taken and not read
    linkRuns,  \* r->running
    timeouts,  \* the requests, by connection, that ran into their timeout
    joined,    \* what an ATTACH reply told
    setup      \* the configuration the session has

remoteVars == <<fd, conns, sess, waiting, lastId, haveReply, reply, queue, linkRuns,
                timeouts, joined, setup>>

None == Ask(0, "none", "none")
NoReply == [type |-> "none", of |-> "none", for |-> 0]

Sessions == {"closed", "opening", "greeted", "open", "ready", "set", "running", "over"}

----------------------------------------------------------------------------
(* Receiving. *)

\* take(): an item is queued, anything else is a reply; of several the last stays.
Taken(r, m) ==
    IF IsItem(m) THEN [r EXCEPT !.queue = Append(@, m)]
    ELSE [r EXCEPT !.have = TRUE, !.reply = m]

\* receive(): every whole message of what the socket has now.
Receive ==
    \E n \in 1..Len(toClient[fd]) :
       LET r == FoldLeft(Taken, [queue |-> queue, have |-> haveReply, reply |-> reply],
                         SubSeq(toClient[fd], 1, n))
       IN /\ toClient' = [toClient EXCEPT ![fd] = SubSeq(@, n + 1, Len(@))]
          /\ queue' = r.queue
          /\ haveReply' = r.have
          /\ reply' = r.reply

Eof == toClient[fd] = <<>> /\ fd \notin linkEnd

----------------------------------------------------------------------------
(* Opening and closing. *)

Connect ==
    /\ fd = 0
    /\ conns < MaxConns
    /\ fd' = conns + 1
    /\ conns' = conns + 1
    /\ sess' = "opening"
    /\ clientEnd' = clientEnd \cup {conns + 1}
    /\ linkEnd' = linkEnd \cup {conns + 1}
    /\ backlog' = Append(backlog, conns + 1)
    /\ lastId' = 0
    /\ haveReply' = FALSE
    /\ linkRuns' = FALSE
    /\ UNCHANGED <<toLink, toClient, waiting, reply, queue, timeouts, joined, setup>>

\* remote_close(): the connection and everything taken from it go.
CloseRemote ==
    /\ fd' = 0
    /\ sess' = "closed"
    /\ waiting' = None
    /\ queue' = <<>>
    /\ haveReply' = FALSE
    /\ reply' = NoReply
    /\ linkRuns' = FALSE
    /\ lastId' = 0
    /\ joined' = NoJoin
    /\ setup' = <<>>
    /\ clientEnd' = clientEnd \ {fd}
    /\ toClient' = [toClient EXCEPT ![fd] = <<>>]
    /\ UNCHANGED <<toLink, linkEnd, backlog, conns>>

\* The first message is WELCOME, or the link serves another client.
Welcomed ==
    /\ sess = "opening"
    /\ haveReply
    /\ IF reply.type = "WELCOME"
       THEN /\ linkRuns' = reply.runs
            /\ haveReply' = FALSE
            /\ reply' = NoReply
            /\ sess' = "greeted"
            /\ UNCHANGED <<fd, conns, waiting, lastId, queue, joined, setup,
                           sockVars>>
       ELSE CloseRemote
    /\ UNCHANGED timeouts

\* The session gives up: nothing more to do, an error, or the program ends.
Close ==
    /\ fd # 0
    /\ \/ waiting = None /\ sess \in {"open", "over"}
       \/ MayCrash /\ sess = "running"
       \/ Eof
    /\ CloseRemote
    /\ UNCHANGED timeouts

----------------------------------------------------------------------------
(* Requests. *)

\* The requests the session makes next: open_backend(), remote_attach() from
\* session.c's backend_open(), capture_start() and capture_stop().
NextRequests(n) ==
    CASE sess = "greeted" -> IF linkRuns THEN {Ask(n, "ATTACH", "none")}
                             ELSE {Ask(n, "HELLO", "none")}
      [] sess = "open"    -> {Ask(n, "HELLO", "none")}
      [] sess = "ready"   -> {Ask(n, "CONFIG", "rate")}
      [] sess = "set"     -> {Ask(n, "CONFIG", "capture")}
      [] sess = "running" -> {Ask(n, "STOP", "none")}
      [] OTHER            -> {}

\* request(): a reply taken before is forgotten, then the wait begins.
Send ==
    /\ fd # 0
    /\ waiting = None
    /\ lastId' = (lastId + 1) % RequestIds
    /\ \E q \in NextRequests(lastId') : waiting' = q /\ SendToLink(fd, q)
    /\ haveReply' = FALSE
    /\ UNCHANGED <<toClient, clientEnd, linkEnd, backlog, fd, conns, sess, reply, queue,
                   linkRuns, timeouts, joined, setup>>

\* The wait's receive(), and remote_read()'s when no item is queued.
ReceiveStep ==
    /\ fd # 0
    /\ \/ sess = "opening" /\ ~haveReply
       \/ waiting # None /\ ~haveReply
       \/ waiting = None /\ sess = "running" /\ queue = <<>>
    /\ Receive
    /\ UNCHANGED <<toLink, clientEnd, linkEnd, backlog, fd, conns, sess, waiting, lastId,
                   linkRuns, timeouts, joined, setup>>

\* A request that fails leaves the session where the caller can start over.
Failed(q) == IF sess = "greeted" THEN "over"
             ELSE IF q.type = "STOP" THEN "over"
             ELSE IF sess = "running" THEN "running" ELSE "open"

Answered == reply.type = "REPLY" /\ reply.of = waiting.type

Accepted == Answered /\ reply.status = "ok" /\ (waiting.type = "CONFIG" => reply.rest = "accepted")

\* What the session does with a reply it takes for the answer.
SessionAfter ==
    IF ~Accepted THEN Failed(waiting)
    ELSE CASE waiting.type = "ATTACH" -> "running"
           [] waiting.type = "HELLO" -> IF sess = "greeted" THEN "open" ELSE "ready"
           [] waiting.type = "CONFIG" -> IF waiting.reg = "capture" THEN "running" ELSE "set"
           [] waiting.type = "STOP" -> "over"
           [] OTHER -> sess

AddAccepted(regs, e) == IF e[2] = "accepted" THEN Append(regs, e[1]) ELSE regs

\* The configuration in a link's log.
AcceptedRegs(l) == FoldLeft(AddAccepted, <<>>, l)

Return ==
    /\ fd # 0
    /\ waiting # None
    /\ haveReply
    /\ haveReply' = FALSE
    /\ waiting' = None
    /\ sess' = SessionAfter
    /\ linkRuns' = CASE waiting.type = "STOP" -> FALSE
                     [] Accepted /\ waiting.type = "HELLO" -> FALSE
                     [] Accepted /\ waiting.type = "ATTACH" -> TRUE
                     [] Accepted /\ waiting.type = "CONFIG" -> linkRuns \/ waiting.reg = "capture"
                     [] OTHER -> linkRuns
    /\ queue' = IF waiting.type = "STOP" \/ (Accepted /\ waiting.type = "HELLO")
                THEN <<>> ELSE queue
    /\ joined' = IF Accepted /\ waiting.type = "ATTACH" THEN reply.join ELSE joined
    /\ setup' = CASE Accepted /\ waiting.type = "HELLO" -> <<>>
                  [] Accepted /\ waiting.type = "CONFIG" -> Append(setup, waiting.reg)
                  [] Accepted /\ waiting.type = "ATTACH" -> AcceptedRegs(reply.join.log)
                  [] OTHER -> setup
    /\ reply' = NoReply
    /\ UNCHANGED <<sockVars, fd, conns, lastId, timeouts>>

\* REMOTE_TIMEOUT_MS: the request is given up, its reply may still come.
Timeout ==
    /\ fd # 0
    /\ Cardinality(timeouts) < MaxTimeouts
    /\ waiting # None
    /\ ~haveReply
    /\ timeouts' = timeouts \cup {<<fd, waiting.n>>}
    /\ waiting' = None
    /\ sess' = Failed(waiting)
    /\ linkRuns' = IF waiting.type = "STOP" THEN FALSE ELSE linkRuns
    /\ queue' = IF waiting.type = "STOP" THEN <<>> ELSE queue
    /\ UNCHANGED <<sockVars, fd, conns, lastId, haveReply, reply, joined, setup>>

\* remote_read()
Read ==
    /\ fd # 0
    /\ sess = "running"
    /\ waiting = None
    /\ queue # <<>>
    /\ queue' = Tail(queue)
    /\ UNCHANGED <<sockVars, fd, conns, sess, waiting, lastId, haveReply, reply, linkRuns,
                   timeouts, joined, setup>>

----------------------------------------------------------------------------

RemoteInit ==
    /\ fd = 0
    /\ conns = 0
    /\ sess = "closed"
    /\ waiting = None
    /\ lastId = 0
    /\ haveReply = FALSE
    /\ reply = NoReply
    /\ queue = <<>>
    /\ linkRuns = FALSE
    /\ timeouts = {}
    /\ joined = NoJoin
    /\ setup = <<>>

RemoteNext ==
    \/ Connect
    \/ Welcomed
    \/ Send
    \/ ReceiveStep
    \/ Return
    \/ Timeout
    \/ Read
    \/ Close
=============================================================================
