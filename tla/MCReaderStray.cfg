CONSTANTS
  Alphabet = {"(", ")", "a"}
  MaxLength = 3
  Digits = {"1"}
  Signs = {"-"}
  Point = "."
SPECIFICATION Spec
PROPERTY ReadStops
CHECK_DEADLOCK FALSE
