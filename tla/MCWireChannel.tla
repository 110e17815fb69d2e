--------------------------- MODULE MCWireChannel ---------------------------
(* Values of the constants of WireChannel for TLC. *)
EXTENDS WireChannel

(* The start of a capture, and a join just before the index wraps. *)
MCStarts == {[grid |-> 0, joins |-> FALSE], [grid |-> IndexMod - 2, joins |-> TRUE]}
=============================================================================
