CONSTANTS
  local = local
  global = global
  int = int
  struct = struct
  inner = inner
  pointer = pointer
  function = function
  functionPointer = functionPointer
  overload = overload
  overloadPointer = overloadPointer
  Void = Void
  Names = {local, global}
  Types = {int, struct, inner, pointer, function, functionPointer, overload, overloadPointer, Void}
  FunctionTypes = {function, overload}
  VariableTypes = {struct}
  DatatypeTypes = {struct, inner}
  Pointee <- MCPointee
  PointerTo <- MCPointerTo
  Locals <- MCLocals
  Properties <- MCProperties
  Chains <- MCChains
  HalfInt = 4
  MaxNodes = 3
  MaxProperties = 2
  MaxAccesses = 1
SPECIFICATION Spec
INVARIANTS
  NodesOwnedOnce
  TypesAgree
  SameMembers
CHECK_DEADLOCK FALSE
