CONSTANTS
  Arities = {0}
  MaxBody = 4
  MaxArguments = 2
SPECIFICATION Spec
INVARIANT FunctionsVerify
CHECK_DEADLOCK FALSE
