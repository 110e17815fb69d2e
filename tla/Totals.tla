------------------------------- MODULE Totals -------------------------------
(***************************************************************************)
(* The running total of a function on 1 .. n, with no recursive operator.  *)
(***************************************************************************)
EXTENDS Integers

\* f[1] + ... + f[n]
Total(f, n) ==
    LET t[i \in 0 .. n] == IF i = 0 THEN 0 ELSE t[i - 1] + f[i]
    IN  t[n]
=============================================================================
