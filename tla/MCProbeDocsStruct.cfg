SPECIFICATION Spec
CONSTANTS
  Programs <- MCBytesPrograms
  Helpers <- MCBytesHelpers
  Objects = {o1}
  Callee <- MCCallee
INVARIANT
  RowParity
CHECK_DEADLOCK FALSE
