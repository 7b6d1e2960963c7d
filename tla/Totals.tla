---------------------------------- MODULE Totals ----------------------------------
(***************************************************************************)
(* Sums over sequences of numbers, as a recursive function, and over sets. *)
(***************************************************************************)
EXTENDS Integers, Sequences, FiniteSetsExt

Sum(s) ==
  LET upTo[k \in 0..Len(s)] == IF k = 0 THEN 0 ELSE upTo[k - 1] + s[k]
  IN upTo[Len(s)]

SumOver(f, S) == MapThenSumSet(LAMBDA x : f[x], S)
===================================================================================
