----------------------------- MODULE LinkProto -----------------------------
(***************************************************************************)
(* The messages between bus-replay link and its client, and the sockets    *)
(* they travel on (host/capture/linkproto.c).                              *)
(*                                                                         *)
(* A message is a record.  Lengths are counted in units: an item's header  *)
(* is one unit and each stream unit it carries is one.  A stream unit      *)
(* stands for some bytes of a data channel: p is its place in what the     *)
(* device sent, hb the grid count of the heartbeat that starts in it, or   *)
(* 0.                                                                      *)
(***************************************************************************)
EXTENDS Integers, Sequences, SequencesExt, FiniteSets

CONSTANTS
    DcCount,  \* the device's data channels
    MaxConns, \* bound: connections clients make
    SockMax   \* messages a socket's buffer holds towards the client

ASSUME SizesAssumption ==
    /\ DcCount \in Nat \ {0}
    /\ MaxConns \in Nat \ {0}
    /\ SockMax \in Nat \ {0}

VARIABLES
    toLink,    \* per connection, the requests the link has not read
    toClient,  \* per connection, what the link sent and the client has not read
    clientEnd, \* the connections whose client end is open
    linkEnd,   \* the connections the link holds, or has in its backlog
    backlog    \* connections made and not accepted, in their order

sockVars == <<toLink, toClient, clientEnd, linkEnd, backlog>>

Dcs == 0..DcCount - 1

Conns == 1..MaxConns

Data(d, units) == [type |-> "DATA", ch |-> d, data |-> units]

Control(n) == [type |-> "CONTROL", n |-> n, data |-> <<>>]

\* An overflow event: of the backend's queue (own = FALSE) or of the link's.
Overflow(d, bytes, ctl, own) ==
    [type |-> "EVENT", ch |-> d, bytes |-> bytes, ctl |-> ctl, own |-> own, data |-> <<>>]

IsItem(m) == m.type \in {"DATA", "CONTROL", "EVENT"}

\* A request; reg is what a CONFIG sets.
Ask(n, type, reg) == [n |-> n, type |-> type, reg |-> reg]

\* What an ATTACH reply tells besides: the grid count, the configuration and the loss base.
NoJoin == [grid |-> 0, log |-> <<>>, base |-> 0]

\* for is the request's number: it tells requests apart here, the code has none.
Reply(req, status, rest, join) ==
    [type |-> "REPLY", of |-> req.type, for |-> req.n, status |-> status, rest |-> rest,
     join |-> join, data |-> <<>>]

Units(m) == 1 + Len(m.data)

AddUnits(n, m) == n + Units(m)

QueuedUnits(q) == FoldLeft(AddUnits, 0, q)

\* link_send() of a whole request.  The peer may have gone.
SendToLink(c, req) ==
    toLink' = [toLink EXCEPT ![c] = IF c \in linkEnd THEN Append(@, req) ELSE @]

SockInit ==
    /\ toLink = [c \in Conns |-> <<>>]
    /\ toClient = [c \in Conns |-> <<>>]
    /\ clientEnd = {}
    /\ linkEnd = {}
    /\ backlog = <<>>
=============================================================================
