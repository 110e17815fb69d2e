--------------------------- MODULE MCViewSession ---------------------------
(***************************************************************************)
(* The commands of a UI with one protocol decoder, and one stacked on it.  *)
(***************************************************************************)
EXTENDS ViewSession

Of(type) == [type |-> type]

MCCommands ==
  {[type |-> "open", backend |-> b] : b \in Backends}
    \union {[type |-> "add", label |-> "i2c", stacked |-> s] : s \in BOOLEAN}
    \union {[type |-> "record", set |-> TRUE], [type |-> "remove", label |-> "i2c"]}
    \union {Of("hello"), Of("start"), Of("stop"), Of("close")}
=============================================================================
