SPECIFICATION HSpec
CONSTANTS
  MaxTime = 3
  MaxGasLimit = 11
  MinGasLimit = 8
  BoundDivisor = 4
  GasTarget = 11
  AttributeGas = {none, 15}
  None = none
  TsukiV2Time = 2
  MaxFee = 7
  PreTsukiV2MaxFee = 4
  FeeParams <- MCFeeParams
  DefaultOverhead = 2
  Slots = {0, 1, 40}
  U64Max = 20
INVARIANTS
  ChildAfterPrediction
