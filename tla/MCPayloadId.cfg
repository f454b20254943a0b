SPECIFICATION NodeSpec
CONSTANTS
  Txs = {t1}
  Callers = {c1}
  Requests = {q1, q2}
  Attributes <- MCAttributes
  Versions = {2, 3}
  GasLimit = 2
  None = None
  MaxBlocks = 2
INVARIANTS
  PayloadIdTellsInputs
CHECK_DEADLOCK FALSE
