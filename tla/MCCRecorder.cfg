SPECIFICATION Spec
CONSTANTS
  Threads <- MCThreads
  Uses <- Shared
  NoThread = 0
  Functions = {"f"}
  Inputs <- MCInputs
  Outputs <- MCOutputs
  ContentHash <- MCContentHash
  Configs <- MCConfigs
  Uncreatable = {}
  MaxCalls = 3
  MaxFlushes = 1
INVARIANTS
  IInv
  RowsInOrder
  DeepSeqFindsEntry
  OvershootBounded
  FlushedRowsOnDisk
