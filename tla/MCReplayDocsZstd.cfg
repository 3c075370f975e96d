SPECIFICATION Spec
CONSTANTS
  Functions = {"f", "g"}
  Inputs <- MCTwoInputs
  Outputs <- MCOutputs
  Configs <- MCConfigs
  ContentHash <- MCContentHash
  MaxOffers <- MCMaxOffers
  Path <- MCPath
  Compressions = {TRUE}
  MaxFailures <- MCMaxFailures
  Filters = {{1, 2}, {1}}
  Answer <- MCAnswer
INVARIANT
  FlushedLogsRead
