-------------------------- MODULE AnnouncedStream --------------------------
(***************************************************************************)
(* What every queue on the path of the captured data promises              *)
(* (docs/capture-file.md, Overflow): bytes may be dropped, but the other   *)
(* end is told.  Per data channel, what comes out of the queue are pieces  *)
(* that follow each other without overlap or hole, each the bytes of an    *)
(* interval of the stream or the announcement that an interval of that     *)
(* many bytes was dropped: each piece begins where those before it end, so *)
(* the pieces are a set, and their places in the stream are their order.   *)
(***************************************************************************)
EXTENDS Naturals

CONSTANT Streams     \* the data channels

VARIABLES
    given,           \* per data channel, bytes put in
    told             \* per data channel, the pieces that came out

avars == <<given, told>>

Piece(kind, from, to) == [kind |-> kind, from |-> from, to |-> to]

\* What the pieces reach up to.
End(pieces) ==
    IF pieces = {} THEN 0
    ELSE CHOOSE end \in {p.to : p \in pieces} : \A p \in pieces : p.to <= end

Gap(ch) ==
    IF End(told[ch]) < given[ch] THEN {Piece("gap", End(told[ch]), given[ch])} ELSE {}

AInit ==
    /\ given = [ch \in Streams |-> 0]
    /\ told = [ch \in Streams |-> {}]

\* Bytes are put in, and for now nothing is said of them.
Drop(ch) ==
    /\ \E n \in 1 .. given'[ch] - given[ch] : given' = [given EXCEPT ![ch] = @ + n]
    /\ UNCHANGED told

\* The bytes dropped so far are announced.
Announce(ch) ==
    /\ told' = [told EXCEPT ![ch] = @ \cup Gap(ch)]
    /\ UNCHANGED given

\* Bytes come out as they are put in, after the announcement of those dropped before.
Deliver(ch) ==
    \E n \in 1 .. given'[ch] - given[ch] :
        /\ given' = [given EXCEPT ![ch] = @ + n]
        /\ told' = [told EXCEPT ![ch] =
                        @ \cup Gap(ch) \cup {Piece("data", given[ch], given[ch] + n)}]

ANext == \E ch \in Streams : Drop(ch) \/ Announce(ch) \/ Deliver(ch)

ASpec == AInit /\ [][ANext]_avars
=============================================================================
