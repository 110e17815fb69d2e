----------------------------- MODULE LinkSystem -----------------------------
(***************************************************************************)
(* The link and a client of it, composed: the device's capture as the      *)
(* client gets it, over connections that come and go.                      *)
(***************************************************************************)
EXTENDS Link, Remote

VARIABLE
    expect  \* per data channel, where the items read so far end (history)

vars == <<sockVars, linkVars, remoteVars, expect>>

Unknown == -1  \* nothing of it yet
Skipped == -2  \* an overflow event, no DATA yet
Broken == -3   \* a gap nothing announced

----------------------------------------------------------------------------
(* The stream of a data channel, read from the items that carry it. *)

UnitAfter(p, u) == IF p \in {Unknown, Skipped, u.p} THEN u.p + 1 ELSE Broken

\* Where data channel d's stream is after item m, from p.
After(d, p, m) ==
    IF m.type \notin {"DATA", "EVENT"} \/ m.ch # d THEN p
    ELSE IF m.type = "DATA" THEN FoldLeft(UnitAfter, p, m.data)
    ELSE IF m.bytes = 0 \/ p = Broken THEN p
    ELSE IF p \in {Unknown, Skipped} THEN Skipped
    ELSE p + m.bytes

\* at is where every data channel's stream is.
AfterItem(at, m) == [d \in Dcs |-> After(d, at[d], m)]

AfterAll(at, ms) == FoldLeft(AfterItem, at, ms)

SystemInit ==
    /\ SockInit
    /\ LinkInit
    /\ RemoteInit
    /\ expect = [d \in Dcs |-> Unknown]

LinkStep == LinkNext /\ UNCHANGED <<remoteVars, expect>>

\* Once the link has ended nobody listens.
RemoteStep ==
    /\ UNCHANGED linkVars
    /\ fd = 0 => up
    /\ \/ /\ Read
          /\ expect' = AfterItem(expect, Head(queue))
       \/ /\ RemoteNext
          /\ ~Read
          /\ expect' = IF sess' = "running" /\ sess = "running" THEN expect
                       ELSE [d \in Dcs |-> Unknown]

Next == LinkStep \/ RemoteStep

Spec == SystemInit /\ [][Next]_vars

\* link_main()'s loop goes on, a request waits for its reply, and what comes is read.
Fairness ==
    /\ WF_vars((Requests \/ ClientGone) /\ UNCHANGED <<remoteVars, expect>>)
    /\ WF_vars(AcceptClient /\ UNCHANGED <<remoteVars, expect>>)
    /\ WF_vars(ClientWrite /\ UNCHANGED <<remoteVars, expect>>)
    /\ WF_vars(RemoteStep /\ (ReceiveStep \/ Return \/ Welcomed))
    /\ WF_vars(RemoteStep /\ Close /\ Eof)

FairSpec == Spec /\ Fairness

----------------------------------------------------------------------------
(* What is on its way to the client, in order. *)
Pipe == queue \o (IF fd = 0 THEN <<>> ELSE toClient[fd])
              \o (IF cl.fd = fd THEN out ELSE <<>>)

TypeOK ==
    /\ clientEnd \subseteq Conns
    /\ linkEnd \subseteq Conns
    /\ cl.fd \in {0} \cup linkEnd
    /\ fd \in {0} \cup clientEnd
    /\ sess \in Sessions
    /\ cl.started \subseteq Dcs
    /\ cl.dropped \in [Dcs -> Nat]
    /\ running \in BOOLEAN
    /\ dev.faults \in 0..MaxFaults

Follows == fd # 0 /\ cl.fd = fd /\ running /\ sess = "running"

\* A request on this connection ran into its timeout: what is answered may be late.
Late == \E t \in timeouts : t[1] = fd

\* Each data channel's stream, from the first unit a client gets to the last one the
\* link took, is in its items or announced by an overflow event at its place, as long as
\* no request on the connection was given up: after a late answer the items of an earlier
\* capture can be among those of the next
\* (link.c enqueue(), forward(), on_attach(); remote.c take()).
StreamAnnounced ==
    (Follows /\ ~Late) =>
        \A d \in Dcs :
           LET end == AfterAll(expect, Pipe)[d] IN
           (cl.streaming \/ d \in cl.started) =>
               /\ end # Broken
               /\ end \notin {Unknown, Skipped} => end + cl.dropped[d] = dev.stream[d].pos

\* The first item of data channel d on its way is the i-th.
FirstOf(d, i) ==
    /\ Pipe[i].type \in {"DATA", "EVENT"} /\ Pipe[i].ch = d
    /\ \A j \in 1..i - 1 : Pipe[j].type \in {"DATA", "EVENT"} => Pipe[j].ch # d

\* A client that joins starts each data channel at the first unit of a heartbeat of the
\* grid count it was told, or a later one (link.c forward(), docs/link-protocol.md,
\* ATTACH): the first DATA it reads of the channel begins with it, if none was dropped and
\* no request on the connection was given up.
JoinsAtHeartbeat ==
    (Follows /\ ~Late /\ joined # NoJoin) =>
        \A d \in Dcs, i \in DOMAIN Pipe :
           (expect[d] = Unknown /\ FirstOf(d, i) /\ Pipe[i].type = "DATA") =>
               Pipe[i].data[1].hb >= joined.grid

\* The configuration the session has is the one the device captures with, whether it
\* started the capture or joined it, if no request ever ran into its timeout, or none on
\* this connection and no source operation has failed
\* (link.c on_hello(), on_config(), on_attach(); capture.c capture_start()).
SetupComplete ==
    (Follows /\ (timeouts = {} \/ (dev.faults = 0 /\ ~Late))) => setup = dev.setup

\* The request of reply `for` is answered by it when request() returns.
Answers == waiting # None /\ haveReply /\ Answered

\* What a request returns as its answer is the answer to it, as long as no request
\* before it on the connection was given up (remote.c request()).
ReplyAnswers ==
    (Answers /\ ~Late) => reply.for = waiting.n

\* The same of every request (remote.c:355, "Sends a request and waits for its reply").
ReplyIsForRequest == Answers => reply.for = waiting.n

\* A request is answered, or its connection ends, without any timeout
\* (link.c never waits for the client; remote.c request(), receive()).
RequestReturns == waiting # None ~> waiting = None

\* When the link has said that STOP was done the device does not capture, whoever started
\* the capture, as long as no source operation has failed (link.c on_stop(),
\* docs/link-protocol.md, STOP: "The link ends the capture by resetting the device").
StopStops ==
    (Answers /\ waiting.type = "STOP" /\ reply.for = waiting.n /\ dev.faults = 0) => ~dev.on
=============================================================================
