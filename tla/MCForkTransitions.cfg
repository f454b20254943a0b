SPECIFICATION TSpec
CONSTANTS
  U64Max = 99
  None = None
  Networks <- MCNetworks
  Penalties = {2, 3}
  InitialPenalty = 1
  NoSetting = none
  MaxTime = 4
  MaxBlocks = 4
INVARIANTS
  HookFollowsState
  ContractsMatchForks
  OwnerSettingKept
  RulesHaveContracts
  PeersFollowRules
