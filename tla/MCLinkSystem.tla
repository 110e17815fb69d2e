---------------------------- MODULE MCLinkSystem ----------------------------
EXTENDS LinkSystem

\* One heartbeat of each data channel.
MCMid == [d \in Dcs |-> 2]

\* Enough for an item to be under way when a request is.
MCShort == [d \in Dcs |-> 1]
=============================================================================
