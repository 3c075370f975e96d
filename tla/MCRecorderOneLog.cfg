SPECIFICATION FairSpec
CONSTANTS
  Threads = {t1, t2}
  NoThread = NoThread
  Functions = {"f"}
  Inputs <- MCTwoInputs
  Outputs <- MCOutputs
  Configs <- MCFirstLast
  ContentHash <- MCContentHash
  Uncreatable = {"f"}
  MaxCalls = 3
  MaxFlushes = 1
  MaxFailures = 1
INVARIANT
  EntriesHaveRows
PROPERTIES
  ImplementsTraceLog
  FinishEnds
