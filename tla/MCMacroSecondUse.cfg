CONSTANTS
  Programs <- MCPrograms
  Functions = {"f"}
  MaxDepth = 8
SPECIFICATION Spec
INVARIANT EveryUseAsWritten
CHECK_DEADLOCK FALSE
