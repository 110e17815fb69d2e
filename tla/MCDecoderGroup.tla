--------------------------- MODULE MCDecoderGroup ---------------------------
(***************************************************************************)
(* Two lines on two data channels, every way they can change in a few      *)
(* ticks with any one change lost, or all of line 0's; a group there from  *)
(* the start and one added later.                                          *)
(***************************************************************************)
EXTENDS DecoderGroup

CONSTANTS d0, d1, SmallTicks

MCDataChannels == {d0, d1}
MCBlock == (d0 :> {0}) @@ (d1 :> {1})
(* Line 1 changes once, or most of the time. *)
ChangesOf(k, ch) == {x \in k.changes : x.ch = ch}
TicksOf(k, ch) == {x.tick : x \in ChangesOf(k, ch)}
OneLost == {k \in Lines!SmallCaptures(SmallTicks) : TicksOf(k, 1) \in {{2}, {1, 3, 4}}}
AllOf0Lost == {[k EXCEPT !.drop = ChangesOf(k, 0)] : k \in {k \in OneLost : TicksOf(k, 1) = {2}}}
MCCaptures == OneLost \union AllOf0Lost
=============================================================================
