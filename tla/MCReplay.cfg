SPECIFICATION Spec
CONSTANTS
  Functions = {"f", "g"}
  Inputs <- MCTwoInputs
  Outputs <- MCOutputs
  Configs <- MCConfigs
  ContentHash <- MCContentHash
  MaxOffers <- MCMaxOffers
  Path <- MCPath
  Compressions = {FALSE}
  MaxFailures <- MCMaxFailures
  Filters = {{1, 2}, {2}}
  Answer <- MCAnswer
INVARIANTS
  IInv
  FirstCallsCaptured
  LastCallCaptured
  InCallOrder
  NoCallTwice
  ReadBack
  ReplayComplete
  ErrorHasCause
PROPERTY
  ImplementsDurableLog
