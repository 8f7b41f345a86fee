--------------------------- MODULE NumericOperators ---------------------------
(***************************************************************************)
(* The numeric operators every compiler begins with, and the constants     *)
(* they are applied to: which overloads of which names are registered, the *)
(* instruction each compiles to, and what the instruction computes.        *)
(*                                                                         *)
(* An integer value is its bits, a number below 2^Bits[type].  A floating  *)
(* point value is << >>, not a number, or <<n>>; only the order of these   *)
(* is modelled, and an arithmetic result is the term that makes it.        *)
(***************************************************************************)
EXTENDS Integers, Sequences, SequencesExt

CONSTANTS
  Floats, Signed, Unsigned,  \* the names of the types, in the order of the lists
  Bits,                      \* the width of each integer type
  LongBits                   \* the width of what stol and stoll return

Integer == ToSet(Signed) \cup ToSet(Unsigned)

ASSUME WidthsAssumption ==
  /\ Bits \in [Integer -> Nat \ {0}]
  /\ LongBits \in Nat /\ \A type \in Integer : Bits[type] <= LongBits

\* Each type is in one list, once.
ASSUME ListsAssumption ==
  /\ Floats \in Seq(ToSet(Floats)) /\ Signed \in Seq(ToSet(Signed)) /\ Unsigned \in Seq(ToSet(Unsigned))
  /\ \A list \in {Floats, Signed, Unsigned} : \A i, j \in DOMAIN list : list[i] = list[j] => i = j
  /\ ToSet(Floats) \cap Integer = {} /\ ToSet(Signed) \cap ToSet(Unsigned) = {}

\* What a power of two is; the provers know it of no exponent but a number.
ASSUME PowersAssumption ==
  \A w \in 1 .. LongBits : 2 ^ (w - 1) \in Nat \ {0} /\ 2 ^ w = 2 * 2 ^ (w - 1)

-----------------------------------------------------------------------------
(* What is registered.                                                      *)

Registration(op, types, instr, bool) == [op |-> op, types |-> types, instr |-> instr, bool |-> bool]

\* Both lists, signed first, as register_binary_integer_fn goes through them.
AnyInteger == Signed \o Unsigned

FloatArithmetic ==
  << Registration("+", Floats, "FAdd", FALSE), Registration("-", Floats, "FSub", FALSE),
     Registration("*", Floats, "FMul", FALSE), Registration("/", Floats, "FDiv", FALSE) >>

\* Mutant of IntegerArithmetic: one division for both kinds.
IntegerArithmeticOneDivision ==
  << Registration("+", AnyInteger, "Add", FALSE), Registration("-", AnyInteger, "Sub", FALSE),
     Registration("*", AnyInteger, "Mul", FALSE), Registration("/", AnyInteger, "SDiv", FALSE) >>

IntegerArithmetic ==
  << Registration("+", AnyInteger, "Add", FALSE), Registration("-", AnyInteger, "Sub", FALSE),
     Registration("*", AnyInteger, "Mul", FALSE),
     Registration("/", Signed, "SDiv", FALSE), Registration("/", Unsigned, "UDiv", FALSE) >>

FloatComparisons ==
  << Registration("<", Floats, "FCmpULT", TRUE), Registration(">", Floats, "FCmpUGT", TRUE),
     Registration("==", Floats, "FCmpUEQ", TRUE), Registration("!=", Floats, "FCmpUNE", TRUE),
     Registration(">=", Floats, "FCmpUGE", TRUE), Registration("<=", Floats, "FCmpULE", TRUE) >>

IntegerComparisons ==
  << Registration("==", AnyInteger, "ICmpEQ", TRUE), Registration("!=", AnyInteger, "ICmpNE", TRUE),
     Registration("<", Unsigned, "ICmpULT", TRUE), Registration("<=", Unsigned, "ICmpULE", TRUE),
     Registration(">", Unsigned, "ICmpUGT", TRUE), Registration(">=", Unsigned, "ICmpUGE", TRUE),
     Registration("<", Signed, "ICmpSLT", TRUE), Registration("<=", Signed, "ICmpSLE", TRUE),
     Registration(">", Signed, "ICmpSGT", TRUE), Registration(">=", Signed, "ICmpSGE", TRUE) >>

\* register_binary_functions, call by call.
Registrations == FloatArithmetic \o IntegerArithmetic \o FloatComparisons \o IntegerComparisons

Operators == {Registrations[k].op : k \in DOMAIN Registrations}

-----------------------------------------------------------------------------
(* Constants.                                                               *)

\* The number that w bits stand for in two's complement.
SignedValue(w, bits) == IF bits >= 2 ^ (w - 1) THEN bits - 2 ^ w ELSE bits

\* stol and stoll throw for what does not fit a long, also if the type is u64.
Parses(n) == n \in -(2 ^ (LongBits - 1)) .. 2 ^ (LongBits - 1) - 1

\* str_to_num: the long is cut to the width of the type.
ConstantBits(type, n) == n % 2 ^ Bits[type]

-----------------------------------------------------------------------------
(* What the instructions of LLVM compute, over w bits.                      *)

\* Division traps on zero, and on the one quotient that is too large.
Traps(instr, w, a, b) ==
  \/ instr \in {"SDiv", "UDiv"} /\ b = 0
  \/ instr = "SDiv" /\ SignedValue(w, a) = -(2 ^ (w - 1)) /\ SignedValue(w, b) = -1

\* Division that truncates towards zero.
Quotient(m, n) ==
  LET magnitude == (IF m < 0 THEN -m ELSE m) \div (IF n < 0 THEN -n ELSE n)
  IN  IF (m < 0) = (n < 0) THEN magnitude ELSE -magnitude

Arithmetic(instr, w, a, b) ==
  CASE instr = "Add"  -> (a + b) % 2 ^ w
    [] instr = "Sub"  -> (a - b) % 2 ^ w
    [] instr = "Mul"  -> (a * b) % 2 ^ w
    [] instr = "UDiv" -> a \div b
    [] instr = "SDiv" -> Quotient(SignedValue(w, a), SignedValue(w, b)) % 2 ^ w

Comparison(instr, a, b) ==
  CASE instr \in {"ICmpEQ", "FCmpUEQ"} -> a = b
    [] instr \in {"ICmpNE", "FCmpUNE"} -> a # b
    [] instr \in {"ICmpULT", "ICmpSLT", "FCmpULT"} -> a < b
    [] instr \in {"ICmpULE", "ICmpSLE", "FCmpULE"} -> a <= b
    [] instr \in {"ICmpUGT", "ICmpSGT", "FCmpUGT"} -> a > b
    [] instr \in {"ICmpUGE", "ICmpSGE", "FCmpUGE"} -> a >= b

ExecuteInteger(instr, w, a, b) ==
  CASE instr \in {"Add", "Sub", "Mul", "UDiv", "SDiv"} -> Arithmetic(instr, w, a, b)
    [] instr \in {"ICmpSLT", "ICmpSLE", "ICmpSGT", "ICmpSGE"} ->
         Comparison(instr, SignedValue(w, a), SignedValue(w, b))
    [] OTHER -> Comparison(instr, a, b)

\* The U of FCmpULT is unordered: true if an operand is not a number.
ExecuteFloat(instr, a, b) ==
  IF instr \in {"FAdd", "FSub", "FMul", "FDiv"} THEN <<instr, a, b>>
  ELSE a = << >> \/ b = << >> \/ Comparison(instr, a[1], b[1])

-----------------------------------------------------------------------------
(* What the operators mean, on the numbers of a type.                       *)

Represents(type, n) ==
  IF type \in ToSet(Signed) THEN n \in -(2 ^ (Bits[type] - 1)) .. 2 ^ (Bits[type] - 1) - 1
  ELSE n \in 0 .. 2 ^ Bits[type] - 1

Meaning(op, m, n) ==
  CASE op = "+" -> m + n
    [] op = "-" -> m - n
    [] op = "*" -> m * n
    [] op = "/" -> Quotient(m, n)
    [] op = "<" -> m < n
    [] op = ">" -> m > n
    [] op = "<=" -> m <= n
    [] op = ">=" -> m >= n
    [] op = "==" -> m = n
    [] op = "!=" -> m # n
=============================================================================
