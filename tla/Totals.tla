-------------------------------- MODULE Totals --------------------------------
(***************************************************************************)
(* The total of a table, as a recursive function: the properties that      *)
(* compare a running total of the code with what it should be use it, and  *)
(* Lemmas proves about it.                                                 *)
(***************************************************************************)
EXTENDS Integers

(* f[1] + ... + f[n] *)
SumUpTo(f, n) ==
  LET sum[i \in 0..n] == IF i = 0 THEN 0 ELSE sum[i-1] + f[i] IN sum[n]

=============================================================================
