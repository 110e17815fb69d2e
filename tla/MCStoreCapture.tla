--------------------------- MODULE MCStoreCapture ---------------------------
(***************************************************************************)
(* Two data channels of one channel each.                                  *)
(***************************************************************************)
EXTENDS StoreCapture

CONSTANTS d0, d1

MCDataChannels == {d0, d1}
MCBlock == (d0 :> {0}) @@ (d1 :> {1})
=============================================================================
