CONSTANTS
  Arities = {0, 1}
  MaxBody = 4
  MaxArguments = 2
SPECIFICATION Spec
INVARIANTS
  BlocksWellFormed
  PhisNamePredecessors
  RunsAsWritten
  UsesAreDefined
CHECK_DEADLOCK FALSE
