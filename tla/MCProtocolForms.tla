-------------------------- MODULE MCProtocolForms --------------------------
(* Two bodies per type, two signatures, a zero, a common and an oversized  *)
(* L1 fee, the blob type as the foreign one; base fees below, between and  *)
(* at the fee caps.                                                        *)
EXTENDS RpcForms, TLC

CONSTANTS ra, rb, alice

MCBodiesOf(type) ==
  IF type = L1 THEN {[sender |-> alice, index |-> i, rest |-> ra] : i \in {0, 1}}
  ELSE {[nonce |-> 0, cap |-> 2, tip |-> IF type \in OneFee THEN None ELSE 1, rest |-> ra],
        [nonce |-> 1, cap |-> 4, tip |-> IF type \in OneFee THEN None ELSE 0, rest |-> rb]}
=============================================================================
