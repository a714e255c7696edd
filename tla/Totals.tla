------------------------------- MODULE Totals -------------------------------
(***************************************************************************)
(* The sum of a sequence of numbers, by its partial sums: a function, and  *)
(* not a fold, so that it can be reasoned about from the left.             *)
(***************************************************************************)
EXTENDS Integers, Sequences

PartialSums(w) ==
  LET sum[k \in 0 .. Len(w)] == IF k = 0 THEN 0 ELSE sum[k - 1] + w[k]
  IN  sum

TotalOf(w) == PartialSums(w)[Len(w)]
=============================================================================
