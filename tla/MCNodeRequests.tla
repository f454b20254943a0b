--------------------------- MODULE MCNodeRequests ---------------------------
(* Two calls with one transaction; two payload requests, of the local miner *)
(* or of three other kinds: one like the miner's with a forced transaction, *)
(* one without the pool and with a gas limit, and one whose extra data is   *)
(* hashed to the same bytes as the pool's part and the gas limit of that.   *)
EXTENDS EngineRequests

Plain ==
  [parent |-> 0, timestamp |-> 1, randao |-> 0, recipient |-> 0,
   withdrawals |-> None, beaconRoot |-> None, transactions |-> None,
   noTxPool |-> FALSE, hint |-> NoHint, gasLimit |-> None]
Bare == [Plain EXCEPT !.timestamp = 0, !.noTxPool = TRUE]

MCAttributes ==
  {[Plain EXCEPT !.transactions = <<7>>],
   [Bare EXCEPT !.gasLimit = 1],
   [Bare EXCEPT !.noTxPool = FALSE, !.hint.extraData = Be(1, 1) \o Be(8, 0) \o Be(8, 1)]}
=============================================================================
