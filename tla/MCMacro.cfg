CONSTANTS
  Programs <- MCPrograms
  Functions = {"f"}
  MaxDepth = 8
SPECIFICATION Spec
INVARIANTS
  TypeOK
  ExpandsAsWritten
PROPERTY
  UsesStayAsWritten
CHECK_DEADLOCK FALSE
