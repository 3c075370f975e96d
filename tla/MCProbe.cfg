SPECIFICATION Spec
CONSTANTS
  Programs <- MCPrograms
  Helpers <- MCHelpers
  Objects = {o1, o2}
  Callee <- MCCallee
INVARIANTS
  RowParity
  EntryParity
  FinishedOnce
  StreamsTellApart
  DeriveFaithful
  PolicyTextsAgree
CHECK_DEADLOCK FALSE
