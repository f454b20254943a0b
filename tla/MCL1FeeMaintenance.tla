------------------------- MODULE MCL1FeeMaintenance -------------------------
(* The maintenance task, the cache, the engine and one validation.           *)
EXTENDS L1FeeMaintenance
=============================================================================
