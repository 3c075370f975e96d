SPECIFICATION Spec
CONSTANTS
  Threads = {t1, t2}
  NoThread = NoThread
  Functions = {"f"}
  Inputs <- MCInputs
  Outputs <- MCOutputs
  Configs <- MCConfigs
  ContentHash <- MCContentHash
  Uncreatable = {}
  MaxCalls = 2
  MaxFlushes = 1
  MaxFailures = 0
INVARIANT RowsResolveAfterExit
