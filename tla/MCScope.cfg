CONSTANTS
  Names = {"a", "f", "x"}
  Types <- MCTypes
  Void = "void"
  Bool = "i1"
  NoType = "null"
  Numeric = {"i1"}
  SpecialForms = {"let", "for", "if", "set"}
  Symbols <- OneOverload
  Signatures <- BothArguments
  MaxCode = 6
SPECIFICATION Spec
INVARIANTS
  NoScopeLeaks
  IInv
  StacksAligned
  PassesAgree
  CheckedUnitsCompile
  CallsPassTheirArguments
PROPERTIES
  PluginsRestoreScopes
  TypeCheckIsLexical
