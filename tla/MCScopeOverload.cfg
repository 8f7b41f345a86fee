CONSTANTS
  Names = {"a", "f"}
  Types <- MCTypes
  Void = "void"
  Bool = "i1"
  NoType = "null"
  Numeric = {"i1"}
  SpecialForms = {}
  Symbols <- TwoOverloads
  Signatures <- OneArgument
  MaxCode = 4
SPECIFICATION Spec
INVARIANT CallsMatchTheirOverload
