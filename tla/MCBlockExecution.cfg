SPECIFICATION ExecutionSpec
CONSTANTS
  a = a
  b = b
  l1a = l1a
  l1b = l1b
  legacy = legacy
  setter = setter
  cheap = cheap
  None = None
  Txs <- MCTxs
  Attr <- MCAttr
  Senders <- MCSenders
  ParentState <- MCParentState
  L1Cost <- MCL1Cost
  vault = vault
  recipient = recipient
  Zero = Zero
  Others <- MCOthers
  Chains <- MCChains
  SpecIdAt <- MCSpecIdAt
  ParentNumber = 1
  Precision = 10
  MaxRatio = 1000
  MaxOffers = 7
INVARIANTS
  CommittedIsAccounted
  ChecksRestored
  FeesAreCharged
  ImportAgrees
CHECK_DEADLOCK FALSE
