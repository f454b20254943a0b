---------------------------- MODULE MCL1FeeCache ----------------------------
(* Two threads refresh the cache of one validator while the head moves.      *)
EXTENDS L1FeeCache, TLC

CONSTANTS c1, c2

MCSymmetry == Permutations({c1, c2})
=============================================================================
