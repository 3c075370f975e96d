SPECIFICATION Spec
CONSTANTS
  Threads = {t1, t2}
  NoThread = NoThread
  Functions = {"f", "g"}
  Inputs <- MCInputs
  Outputs <- MCOutputs
  Configs <- MCConfigs
  ContentHash <- MCContentHash
  Uncreatable = {"g"}
  MaxCalls = 2
  MaxFlushes = 1
  MaxFailures = 1
SYMMETRY Symmetry
INVARIANTS
  IInv
  RowsNumbered
  DeepSeqResolves
  RowsShareNoEntry
  FlushedRowsOnDisk
  OneEntryPerInput
