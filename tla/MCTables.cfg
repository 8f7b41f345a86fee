CONSTANTS
  Texts = {"", "+"}
  Empty = ""
  TypeNames = {"i8", "ptr", "tuple", "void"}
  MaxSize = 2
  MaxCalls = 3
  Floats <- MCFloats
  Signed <- MCSigned
  Unsigned <- MCUnsigned
  Bits <- MCBits
  LongBits = 3
  Numbers <- MCNumbers
  FloatValues <- MCFloatValues
SPECIFICATION Spec
INVARIANTS
  TypeOK
  EqualIfSame
  ReferencesLive
  OperatorsCompute
  TypesLowerOnce
CHECK_DEADLOCK FALSE
