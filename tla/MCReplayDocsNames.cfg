SPECIFICATION Spec
CONSTANTS
  Functions = {"f", "g"}
  Inputs <- MCTwoInputs
  Outputs <- MCOutputs
  Configs <- MCConfigs
  ContentHash <- MCContentHash
  MaxOffers <- MCMaxOffers
  Path <- MCSharedPath
  Compressions = {FALSE}
  MaxFailures <- MCMaxFailures
  Filters = {{1}}
  Answer <- MCAnswer
INVARIANT
  OneFilePerFunction
