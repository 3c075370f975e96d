SPECIFICATION RunsSpec
CONSTANTS
  Functions = {"f", "g"}
  InputHashes = {"x", "y"}
  OutputHashes = {"o", "p"}
  AllOptions <- MCAllOptions
  TracePairs <- MCTracePairs
  Threads <- MCThreads
  Programs <- MCPrograms
  Implementations <- MCImplementations
INVARIANTS
  RInv
  DivergenceReported
  EqualTracesPass
  ListedFunctionsDiffer
  SummaryConsistent
  OccurrencesExact
  AgreeingRunsMatch
  RealDifferenceListed
  CallsComparedWithThemselves
