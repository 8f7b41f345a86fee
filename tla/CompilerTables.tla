---------------------------- MODULE CompilerTables ----------------------------
(***************************************************************************)
(* What a new compiler registers, and what its tables are used for: the    *)
(* numeric operators and the runtime are defined under interned names and  *)
(* types; calls are resolved by comparing references; and each compile     *)
(* lowers types to LLVM, by reference too.  Clients go on interning        *)
(* between any two of these steps.                                         *)
(***************************************************************************)
EXTENDS Interning, NumericOperators

CONSTANTS
  Numbers,      \* the integers written in a text
  FloatValues   \* the floating point values compared

ASSUME NumbersAssumption ==
  Numbers \subseteq Int /\ \A x \in FloatValues : x \in Seq(Int) /\ Len(x) <= 1

VARIABLES
  phase,       \* "create", "use", a compile's "compile" and "second" pass, or what
               \* a call gave: "return", "failed"
  registered,  \* [call, type]: which of Registrations is next, and for which of its types
  functions,   \* the functions of _symbol_map: [name, type, args, ret, instr]
  lowering,    \* [cache, structs, open]: _type_map, how many structs LLVM has, and the
               \* calls of type_ref_type under way, each [type, next, parts]: its type, the
               \* next of the types this is made of, and what those before it were lowered to
  answers,     \* history: what this compile has lowered, each with the result
  result       \* the call just evaluated, and what it gives

internVars == <<tables, handed, calls>>
vars == <<internVars, phase, registered, functions, lowering, answers, result>>

NoResult == << >>

-----------------------------------------------------------------------------
(* The constructor of compiler_impl.                                        *)

\* What define_function is asked for: a name, types, and what the body does.
Function(op, args, ret, instr) == [op |-> op, args |-> args, ret |-> ret, instr |-> instr]

\* define_function throws if the name has a function of this type.
Define(s, f) ==
  LET name == RegisterName(s.tables, <<f.op>>)
      type == GetTypeRef(name.tables, "fn", f.args)
      is(g) == g.name = name.ref /\ g.type = type.ref
  IN  [tables    |-> type.tables,
       thrown    |-> s.thrown \/ \E k \in DOMAIN s.functions : is(s.functions[k]),
       functions |-> Append(s.functions, [name |-> name.ref, type |-> type.ref, args |-> f.args,
                                          ret |-> f.ret, instr |-> f.instr])]

\* register_binary_function, after the types are looked up.
RegisterBinary(s, registration, type) ==
  LET bool == GetTypeRef(s.tables, "i1", << >>)
      item == GetTypeRef(bool.tables, type, << >>)
  IN  Define([s EXCEPT !.tables = RegisterStrings(item.tables, <<"lhs", "rhs">>)],
             Function(registration.op, <<item.ref, item.ref>>,
                      IF registration.bool THEN bool.ref ELSE item.ref, registration.instr))

Defined(t) == [tables |-> t, functions |-> functions, thrown |-> FALSE]

\* One call of register_numeric_binary_fn for one list of types after another, type by type.
RegisterOperator ==
  /\ phase = "create" /\ registered.call \in DOMAIN Registrations
  /\ registered.type \in DOMAIN Registrations[registered.call].types
  /\ LET registration == Registrations[registered.call]
         done == RegisterBinary(Defined(tables), registration, registration.types[registered.type])
     IN  /\ tables' = done.tables /\ functions' = done.functions
         /\ phase' = IF done.thrown THEN "failed" ELSE "create"
  /\ registered' = [registered EXCEPT !.type = @ + 1]
  /\ UNCHANGED <<handed, calls, lowering, answers, result>>

NextRegistration ==
  /\ phase = "create" /\ registered.call \in DOMAIN Registrations
  /\ registered.type > Len(Registrations[registered.call].types)
  /\ registered' = [call |-> registered.call + 1, type |-> 1]
  /\ UNCHANGED <<internVars, phase, functions, lowering, answers, result>>

\* define_function without names for the arguments makes them up, on a stream that
\* keeps what it was given before.
MadeUpNames == <<"arg0", "arg0arg1", "arg0arg1arg2">>
DefineUnnamed(s, f) ==
  Define([s EXCEPT !.tables = RegisterStrings(@, SubSeq(MadeUpNames, 1, Len(f.args)))], f)

\* rt, malloc and free.  The types of the three come first here, in their order.
DefineRuntime ==
  /\ phase = "create" /\ registered.call > Len(Registrations)
  /\ LET rt     == RegisterName(tables, <<"rt">>)
         i32    == GetTypeRef(rt.tables, "i32", << >>)
         rtPtr  == GetTypeRef(i32.tables, "ptr", <<i32.ref>>)
         u8     == GetTypeRef(rtPtr.tables, "u8", << >>)
         u8Ptr  == GetTypeRef(u8.tables, "ptr", <<u8.ref>>)
         u32    == GetTypeRef(u8Ptr.tables, "u32", << >>)
         void   == GetTypeRef(u32.tables, "void", << >>)
         unqual == GetTypeRef(void.tables, "unqual", << >>)
         ptr    == GetTypeRef(unqual.tables, "ptr", <<unqual.ref>>)
         malloc == DefineUnnamed(Defined(ptr.tables),
                     Function("malloc", <<rtPtr.ref, u32.ref, u8.ref>>, u8Ptr.ref, "rt_malloc"))
         free   == DefineUnnamed(malloc, Function("free", <<rtPtr.ref, ptr.ref>>, void.ref, "rt_free"))
     IN  /\ tables' = free.tables /\ functions' = free.functions
         /\ phase' = IF free.thrown THEN "failed" ELSE "use"
  /\ UNCHANGED <<handed, calls, registered, lowering, answers, result>>

-----------------------------------------------------------------------------
(* Calls of operators.                                                      *)

\* type_check_function_application: the overload whose arguments have these types,
\* or else the last one it has tried.
Resolve(name, args) ==
  LET named == {k \in DOMAIN functions : functions[k].name = name}
      fits  == {k \in named : functions[k].args = args}
  IN  functions[IF fits # {} THEN Min(fits) ELSE Max(named)]

\* Two constants as they are written, and their bits.
IntegerOperands(type) ==
  {[lhs |-> m, rhs |-> n, a |-> ConstantBits(type, m), b |-> ConstantBits(type, n)] :
     m, n \in {k \in Numbers : Parses(k)}}
FloatOperands == {[lhs |-> x, rhs |-> y, a |-> x, b |-> y] : x, y \in FloatValues}

\* (op lhs|type rhs|type), type checked, compiled and run; a trap would be the end.
Evaluate(op, type) ==
  /\ phase = "use" /\ Asking
  /\ LET name  == RegisterName(tables, <<op>>)
         item  == GetTypeRef(name.tables, type, << >>)
         instr == Resolve(name.ref, <<item.ref, item.ref>>).instr
         execute(call) == IF type \in Integer THEN ExecuteInteger(instr, Bits[type], call.a, call.b)
                          ELSE ExecuteFloat(instr, call.a, call.b)
     IN  /\ tables' = item.tables
         /\ \E call \in IF type \in Integer THEN IntegerOperands(type) ELSE FloatOperands :
              /\ type \in Integer => ~Traps(instr, Bits[type], call.a, call.b)
              /\ result' = [op |-> op, type |-> type, lhs |-> call.lhs, rhs |-> call.rhs,
                            value |-> execute(call)]
  /\ phase' = "return"
  /\ UNCHANGED <<handed, registered, functions, lowering, answers>>

Return ==
  /\ phase = "return"
  /\ phase' = "use" /\ result' = NoResult
  /\ UNCHANGED <<internVars, registered, functions, lowering, answers>>

-----------------------------------------------------------------------------
(* Lowering.                                                                *)

\* The base numeric types in the order of their list, and llvm_constant_map, what
\* each is to LLVM, which has no signs.
NumericNames == <<"f32", "f64", "i1", "i8", "u8", "i16", "u16", "i32", "u32", "i64", "u64">>
LLVMNames    == <<"float", "double", "int1", "int8", "int8", "int16", "int16",
                  "int32", "int32", "int64", "int64">>
LLVMNumeric  == [text \in ToSet(NumericNames) |->
                   LLVMNames[CHOOSE i \in DOMAIN NumericNames : NumericNames[i] = text]]

\* An LLVM type.  Pointers to one type are one type; every struct is another, with
\* a number of its own.
LLVM(kind, number, parts) == [kind |-> kind, number |-> number, parts |-> parts]
Basic(kind) == LLVM(kind, 0, << >>)
Null == Basic("null")

TextOf(r) == CHOOSE text \in DOMAIN tables.strings \cup {Empty} :
               StringOf(tables, text) = tables.types[r].name
SpecsOf(r) == Content(tables, tables.types[r].specs)

IsVoid(r) == TextOf(r) = "void" /\ SpecsOf(r) = << >>

IsPointer(r) == TextOf(r) = "ptr" /\ Len(SpecsOf(r)) = 1
IsTuple(r) == TextOf(r) = "tuple"

\* What a type is made of: the type a pointer leads to, or those of a tuple, of which the
\* void ones are passed over.
Parts(r) == IF IsPointer(r) \/ IsTuple(r) THEN SpecsOf(r) ELSE << >>
Kept(r, i) == IsTuple(r) => ~IsVoid(Parts(r)[i])

\* What do_get_type_ref has a case for.
Lowerable(r) ==
  \/ IsPointer(r) \/ IsTuple(r) \/ TextOf(r) = "unqual" \/ IsVoid(r)
  \/ SpecsOf(r) = << >> /\ TextOf(r) \in DOMAIN LLVMNumeric

\* What it returns for a type whose parts are lowered.
Lowered(r, parts) ==
  CASE TextOf(r) = "ptr"    -> LLVM("ptr", 0, parts)
    [] TextOf(r) = "tuple"  -> LLVM("struct", lowering.structs + 1, parts)
    [] TextOf(r) = "unqual" -> LLVM("ptr", 0, <<Basic("int32")>>)
    [] TextOf(r) = "void"   -> Basic("void")
    [] OTHER                -> Basic(LLVMNumeric[TextOf(r)])

\* Each test of the name of a type interns what it is compared with.
Compared(r) ==
  LET text == TextOf(r)
      upTo == IF text \in DOMAIN LLVMNumeric THEN CHOOSE i \in DOMAIN NumericNames : NumericNames[i] = text
              ELSE Len(NumericNames)
  IN  CASE IsPointer(r) -> <<"ptr">>
        [] text = "tuple" -> <<"ptr", "tuple", "void">>
        [] text = "unqual" -> <<"ptr", "tuple", "unqual">>
        [] OTHER -> <<"ptr", "tuple", "unqual", "void">> \o
                    (IF SpecsOf(r) # << >> \/ text = "void" THEN << >> ELSE SubSeq(NumericNames, 1, upTo))

-----------------------------------------------------------------------------
(* A compile lowers types as it comes to them, with a _type_map of its own. *)

Compiling == phase \in {"compile", "second"}

BeginCompile ==
  /\ phase = "use" /\ Asking
  /\ phase' = "compile"
  /\ lowering' = [lowering EXCEPT !.cache = << >>]
  /\ UNCHANGED <<tables, handed, registered, functions, answers, result>>

\* Mutant of Known: only what is not made of other types is kept.
KnownIfBasic(r) == r \in DOMAIN lowering.cache /\ Parts(r) = << >>

Known(r) == r \in DOMAIN lowering.cache

Caching(r, llvm) == [k \in DOMAIN lowering.cache \cup {r} |-> IF k = r THEN llvm ELSE lowering.cache[k]]

\* type_ref_type of a type that is not in the cache: a null entry first.
Enter(r) ==
  /\ tables' = RegisterStrings(tables, Compared(r))
  /\ lowering' = [lowering EXCEPT !.cache = Caching(r, Null), !.open = Append(@, [type |-> r, next |-> 1, parts |-> << >>])]

\* The type of an argument, of a local, of a phi: any type a client has.
Lower(r) ==
  /\ Compiling /\ lowering.open = << >>
  /\ IF Known(r) THEN answers' = answers \cup {<<r, lowering.cache[r]>>} /\ UNCHANGED <<tables, lowering>>
     ELSE Enter(r) /\ UNCHANGED answers
  /\ UNCHANGED <<handed, calls, phase, registered, functions, result>>

Inner == Last(lowering.open)

\* The loop over the parts.  A part that is not known yet is entered, and known on the way back.
LowerPart ==
  /\ Compiling /\ lowering.open # << >> /\ Inner.next \in DOMAIN Parts(Inner.type)
  /\ LET part == Parts(Inner.type)[Inner.next]
         add  == IF Kept(Inner.type, Inner.next) THEN <<lowering.cache[part]>> ELSE << >>
     IN  IF Kept(Inner.type, Inner.next) /\ ~Known(part) THEN Enter(part)
         ELSE /\ lowering' = [lowering EXCEPT !.open = Append(Front(lowering.open),
                               [type |-> Inner.type, next |-> Inner.next + 1, parts |-> Inner.parts \o add])]
              /\ UNCHANGED tables
  /\ UNCHANGED <<handed, calls, phase, registered, functions, answers, result>>

PartsLowered == Compiling /\ lowering.open # << >> /\ Inner.next \notin DOMAIN Parts(Inner.type)

\* The type takes the place of the null; the outermost call has the answer.
EndLower ==
  /\ PartsLowered /\ Lowerable(Inner.type)
  /\ LET r    == Inner.type
         llvm == Lowered(r, Inner.parts)
     IN  /\ lowering' = [cache   |-> Caching(r, llvm),
                         structs |-> IF IsTuple(r) THEN lowering.structs + 1 ELSE lowering.structs,
                         open    |-> Front(lowering.open)]
         /\ answers' = IF Len(lowering.open) = 1 THEN answers \cup {<<r, llvm>>} ELSE answers
  /\ UNCHANGED <<internVars, phase, registered, functions, result>>

\* A throw ends the compile.
LowerThrows ==
  /\ PartsLowered /\ ~Lowerable(Inner.type)
  /\ phase' = "use" /\ answers' = {} /\ lowering' = [lowering EXCEPT !.open = << >>]
  /\ UNCHANGED <<internVars, registered, functions, result>>

\* The end of compile_first_pass, which makes module_init, and the first functions of
\* compile_second_pass, the operators, whose bodies load their arguments by name.
SecondPass ==
  /\ phase = "compile" /\ lowering.open = << >>
  /\ LET fn   == GetTypeRef(tables, "fn", << >>)
         init == RegisterName(fn.tables, <<"module_init">>)
         lhs  == RegisterName(init.tables, <<"lhs">>)
     IN  tables' = RegisterName(lhs.tables, <<"rhs">>).tables
  /\ phase' = "second"
  /\ UNCHANGED <<handed, calls, registered, functions, lowering, answers, result>>

EndCompile ==
  /\ phase = "second" /\ lowering.open = << >>
  /\ phase' = "use" /\ answers' = {}
  /\ UNCHANGED <<internVars, registered, functions, lowering, result>>

-----------------------------------------------------------------------------
\* The plugins are registered before the constructor comes to the operators.
Init ==
  /\ InternInit
  /\ tables = RegisterStrings(NoTables, <<"defn", "defmacro", "if", "let", "for", "set">>)
  /\ phase = "create" /\ registered = [call |-> 1, type |-> 1] /\ functions = << >>
  /\ lowering = [cache |-> << >>, structs |-> 0, open |-> << >>]
  /\ answers = {} /\ result = NoResult

ClientStep ==
  /\ phase = "use" /\ Ask
  /\ UNCHANGED <<phase, registered, functions, lowering, answers, result>>

Next ==
  \/ RegisterOperator \/ NextRegistration \/ DefineRuntime
  \/ ClientStep
  \/ \E op \in Operators, type \in Integer \cup ToSet(Floats) : Evaluate(op, type)
  \/ Return \/ BeginCompile \/ SecondPass \/ EndCompile
  \/ \E r \in TypeRefs : Lower(r)
  \/ LowerPart \/ EndLower \/ LowerThrows

Spec == Init /\ [][Next]_vars

-----------------------------------------------------------------------------
(* Properties.                                                              *)

TypeOK ==
  /\ \A b \in DOMAIN tables.buffers : tables.buffers[b] \in Seq(Int)
  /\ \A r \in DOMAIN tables.types : ToSet(SpecsOf(r)) \subseteq 1 .. r - 1
  /\ phase \in {"create", "use", "compile", "second", "return", "failed"}
  /\ registered \in [call : 1 .. Len(Registrations) + 1, type : Nat \ {0}]
  /\ TypeRefs \subseteq DOMAIN tables.types /\ DOMAIN lowering.cache \subseteq DOMAIN tables.types
  /\ lowering.open \in Seq([type : DOMAIN lowering.cache, next : Nat \ {0}, parts : Seq(Range(lowering.cache))])
  /\ lowering.structs \in Nat /\ calls \in 0 .. MaxCalls

\* A compiler can be made, and whatever was interned before, an operator applied to
\* two values of a type computes what it says, with the wrapping of the type; of
\* floating point values, if both are numbers.
OperatorsCompute ==
  /\ phase # "failed"
  /\ result # NoResult =>
       LET r == result IN
       IF r.type \in Integer
       THEN Represents(r.type, r.lhs) /\ Represents(r.type, r.rhs) =>
              r.value = IF r.op \in {"+", "-", "*", "/"}
                        THEN Meaning(r.op, r.lhs, r.rhs) % 2 ^ Bits[r.type]
                        ELSE Meaning(r.op, r.lhs, r.rhs)
       ELSE r.op \notin {"+", "-", "*", "/"} /\ r.lhs # << >> /\ r.rhs # << >> =>
              r.value = Meaning(r.op, r.lhs[1], r.rhs[1])

\* Where in the LLVM type of a type its i-th part is.
Position(r, i) == Cardinality({j \in 1 .. i : Kept(r, j)})

\* One compile has one LLVM type for a type, wherever and however often it comes to
\* it, alone or as a part of others, and two structs are never the same type to LLVM.
TypesLowerOnce ==
  Compiling =>
    /\ \A a, b \in answers : a[1] = b[1] => a[2] = b[2]
    /\ \A a, b \in answers : a[2] = b[2] /\ a[2].kind = "struct" => a[1] = b[1]
    /\ \A a \in answers :
         /\ a[2] # Null
         /\ \A i \in DOMAIN Parts(a[1]) :
              Kept(a[1], i) => a[2].parts[Position(a[1], i)] = lowering.cache[Parts(a[1])[i]]
=============================================================================
