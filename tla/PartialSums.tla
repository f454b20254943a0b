---------------------------- MODULE PartialSums -----------------------------
(***************************************************************************)
(* The sum of the first entries of a sequence of integers, as a recursive  *)
(* function, so that PartialSumsProofs can reason about it by induction.   *)
(* Blocks add up gas, fees and data-availability sizes in this way.        *)
(***************************************************************************)
EXTENDS Integers

SumTo(w, n) ==
  LET s[k \in 0 .. n] == IF k = 0 THEN 0 ELSE s[k - 1] + w[k] IN s[n]
=============================================================================
