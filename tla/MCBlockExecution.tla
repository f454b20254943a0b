-------------------------- MODULE MCBlockExecution --------------------------
(* Five transactions of two senders: an L1 message of each, a legacy one   *)
(* whose nonce is right only after the L1 message, one that moves the gas  *)
(* oracle, and one that is priced below the base fee and reverts.          *)
(* The chain has a fee vault and pays it whatever recipient is suggested,  *)
(* or has none and the engine suggests the zero address or another one.    *)
EXTENDS BlockExecution, TLC

CONSTANTS vault, recipient, a, b, l1a, l1b, legacy, setter, cheap

Tx(type, sender, nonce, gas, used, price, tip, data, rlp, ok, sets) ==
  [type |-> type, sender |-> sender, nonce |-> nonce, gas |-> gas, used |-> used,
   price |-> price, tip |-> tip, ok |-> ok, sets |-> sets,
   data |-> [len |-> data, zstd |-> 2], rlp |-> [len |-> rlp, zstd |-> 3]]

MCTxs     == {l1a, l1b, legacy, setter, cheap}
MCSenders == {a, b}
MCOthers  == {vault, recipient, Zero}
MCChains  ==
  {[vault |-> v, suggested_fee_recipient |-> r, timestamp |-> 5, gas_limit |-> 7,
    base_fee |-> 2] : <<v, r>> \in {<<vault, recipient>>, <<None, Zero>>, <<None, recipient>>}}
MCSpecIdAt(timestamp, number) == IF timestamp >= 5 THEN "TSUKI" ELSE "FEYNMAN"
MCAttr    ==
  l1a    :> Tx(126, a, 0, 2, 1, 0, None, 4, 6, TRUE, None) @@
  l1b    :> Tx(126, b, 0, 2, 2, 0, None, 0, 2, FALSE, None) @@
  legacy :> Tx(0, a, 1, 2, 1, 3, None, 1, 4, TRUE, None) @@
  setter :> Tx(2, b, 0, 2, 1, 4, 1, 4, 6, TRUE, 2) @@
  cheap  :> Tx(4, b, 1, 2, 2, 1, 1, 0, 2, FALSE, None)

MCParentState ==
  [accounts |-> [s \in MCSenders \cup MCOthers |-> [nonce |-> 0, balance |-> 30]], oracle |-> 1]

\* A cost in which each of the four inputs shows.
MCL1Cost(rlp, ratio, size, oracle) ==
  oracle * (IF ratio > 100 THEN 1 ELSE 2) + size + rlp.len
=============================================================================
