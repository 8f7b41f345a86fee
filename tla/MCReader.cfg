CONSTANTS
  Alphabet = {"(", ")", "[", "]", "|", ";", "newline", "a", "1"}
  MaxLength = 5
  Digits = {"1"}
  Signs = {"-"}
  Point = "."
SPECIFICATION Spec
INVARIANTS
  TypeOK
  ReadsEveryToken
  AcceptsOnlyClosedText
  RejectsForAReason
PROPERTY StopsWhenNotStray
CHECK_DEADLOCK FALSE
