SPECIFICATION FairBuilderSpec
CONSTANTS
  small = small
  large = large
  m1 = m1
  m2 = m2
  f = f
  blob = blob
  a1 = a1
  a2 = a2
  b1 = b1
  NoLimit = NoLimit
  Codes = {small, large}
  CodeBytes <- MCCodeBytes
  MaxCodeBytes = 3
  MaxSteps = 4
  AuthReserve = 2
  MaxAuths = 1
  U64Max = 4
  Txs = {m1, m2, f, blob, a1, a2, b1}
  Attr <- MCAttr
  ForcedChoices <- MCForced
  PoolChoices <- MCPool
  Configs <- MCConfigs
  BlockGasLimit = 4
  MinTxGas = 2
  MinTxDa = 1
  BestFees = {NoLimit, 2}
INVARIANTS AccountingExact BudgetDecision BlockFitsCodeBudget BlockFitsLimits BuiltL1Order ForcedKept NoNonceGap
PROPERTIES BuildEnds
CHECK_DEADLOCK FALSE
