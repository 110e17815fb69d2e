----------------------------- MODULE CodecItem -----------------------------
(***************************************************************************)
(* What the decoders emit (host/codec/item.c), and what every decoder      *)
(* keeps for its session (struct codec_dec): the lines it reads, its       *)
(* horizon, and here the items emitted and not yet taken by the session.   *)
(***************************************************************************)
EXTENDS Integers, Sequences, FiniteSets, SequencesExt

NoItem == [dec |-> 0]

(* The members of S in a strict order of theirs. *)
Ranked(S, Before(_, _)) ==
  [i \in 1..Cardinality(S) |->
     CHOOSE x \in S : Cardinality({y \in S : Before(y, x)}) = i - 1]

(* codec_item_new(); body is what the kind of item holds, readings the     *)
(* children a decoder stacked on it adds.                                  *)
Item(dec, start, body) ==
  [ dec |-> dec, start |-> start, end |-> start, loss |-> FALSE, incomplete |-> FALSE,
    body |-> body, readings |-> << >> ]

Open(item) == item # NoItem

(* codec_emit() hands the item to the session. *)
Emit(s, item) == [s EXCEPT !.emitted = Append(@, item)]

(* Mutant: a decoder does not say what it still holds open. *)
HorizonUnsaid(s, tick) == s

(* codec_horizon() *)
Horizon(s, tick) == [s EXCEPT !.horizon = IF tick < @ THEN tick ELSE @]

(* Mutant: a loss in the open item's first tick does not mark it. *)
MarkOpenLater(item, end) ==
  IF Open(item) /\ item.start < end THEN [item EXCEPT !.loss = TRUE] ELSE item

(* A loss may have taken records of the open item. *)
MarkOpen(item, end) ==
  IF Open(item) /\ item.start <= end THEN [item EXCEPT !.loss = TRUE] ELSE item

Decoder(dec, kind, lines, lower, state) ==
  [ dec |-> dec, kind |-> kind, lines |-> lines, lower |-> lower, horizon |-> 0,
    emitted |-> << >> ] @@ state
=============================================================================
