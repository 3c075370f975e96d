SPECIFICATION Spec
CONSTANTS
  Threads <- MCThreads
  Uses <- Owned
  NoThread = 0
  Functions = {"f", "g"}
  Inputs <- MCInputs
  Outputs <- MCOutputs
  ContentHash <- MCContentHash
  Configs <- MCConfigs
  Uncreatable = {"g"}
  MaxCalls = 3
  MaxFlushes = 0
INVARIANTS
  DeepSeqUnique
PROPERTY ImplementsTraceLog
