CONSTANTS
  Names = {"rt", "malloc", "+", "f", "g"}
  Types = {"f32", "ptr", "void"}
  Void = "void"
  Builtins <- MCBuiltins
  Forms <- MCForms
  MaxText = 2
  MaxModule = 7
  MaxCompiles = 3
SPECIFICATION Spec
INVARIANTS
  SignaturesUnique
  CompiledCodeIsComplete
  CompilesWholeProgram
  IInv
PROPERTY ProgramOnlyGrows
