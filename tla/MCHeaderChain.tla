---------------------------- MODULE MCHeaderChain ----------------------------
(* Small instance of HeaderChain: TsukiV2 activates in the middle of the run,  *)
(* the overhead slot is unset, small, or above every clamp.                    *)
EXTENDS HeaderChain

MCFeeParams == [before |-> [denominator |-> 2, elasticity |-> 2],
                from |-> [denominator |-> 3, elasticity |-> 4]]
=============================================================================
