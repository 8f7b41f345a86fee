--------------------------- MODULE ScopeResolution ---------------------------
(***************************************************************************)
(* How cclj resolves names, twice.                                         *)
(*                                                                         *)
(* A unit (a defn, or one top-level statement) is first type checked: the  *)
(* plugins walk the lisp data, keep the local variables in force in        *)
(* module_impl::_local_variable_typecheck_stack and build ast nodes.  The  *)
(* nodes are compiled later: every name is looked up again, in             *)
(* _local_variable_compile_stack, which is rebuilt during that second walk.*)
(* Nothing but discipline makes the second walk find what the first found. *)
(*                                                                         *)
(* The ast is kept in the order its second pass visits it, one instruction *)
(* per node (plus the entry of a scope and the binding of a variable).     *)
(* `frames' is the C++ stack of plugins still inside type_check, `nodes'   *)
(* the types of the ast nodes their callees have returned to them, and     *)
(* `results' the (value, type) pairs of the second pass.                   *)
(*                                                                         *)
(* History kept for the properties, never read by a guard: `env' and `stk' *)
(* of an instruction (scopes and pending types when its node was checked), *)
(* `env' of a frame (scopes when the plugin was called), and `at', the     *)
(* declaration a type-check entry stands for.                              *)
(***************************************************************************)
EXTENDS Integers, SequencesExt

CONSTANTS
  Names,          \* the identifiers a program may use
  Types,          \* the interned type_refs
  Void, Bool,     \* type_library's void and i1
  Numeric,        \* the base numeric types, those a constant can have
  SpecialForms,   \* the plugins registered: some of if, let, for and set
  NoType,         \* a null type_ref_ptr
  Symbols,        \* module_impl::_symbol_map, as the unit finds it
  Signatures,     \* the argument lists a defn may declare
  MaxCode         \* bound: instructions and open forms of one unit

Kinds == {"variable", "function"}

ASSUME NamesAssumption == Names # {}

ASSUME FormsAssumption == SpecialForms \subseteq {"if", "let", "for", "set"}

ASSUME TypesAssumption ==
  /\ Void \in Types /\ Bool \in Types /\ Void # Bool
  /\ Numeric \subseteq Types \ {Void}
  /\ NoType \notin Types

\* A variable has a type that is not void; a function has overloads, and the
\* type of a pointer to it.
ASSUME SymbolsAssumption ==
  /\ DOMAIN Symbols \subseteq Names
  /\ \A x \in DOMAIN Symbols :
       /\ Symbols[x].kind \in Kinds
       /\ Symbols[x].type \in Types \ {Void}
       /\ Symbols[x].kind = "function" =>
            /\ Symbols[x].overloads \in Seq([args : Seq(Types), ret : Types])
            /\ Symbols[x].overloads # << >>

\* Arguments of type void are left out: function_node_impl::initialize_function
\* dereferences a null alloca for them.
ASSUME SignaturesAssumption ==
  Signatures \subseteq Seq([name : Names, type : Types \ {Void}])

\* Where the value of a name is: a declaration site of the unit (positive), or
ModuleVariable == 0     \* the llvm::GlobalVariable of a module variable
NoValue        == -1    \* nowhere: a null llvm::Value*
FunctionRef    == -2    \* a function, as far as the type checker is concerned
Unresolved     == -3    \* the name is unknown: type_check_variable_access throws

VARIABLES
  phase,      \* idle, check (first walk), compile (second), broken (it threw)
  unit,       \* the unit: is it a defn, and its arguments
  frames, tscopes, nodes, code,     \* the first walk
  pc, cscopes, results              \* the second walk

checkVars   == <<frames, tscopes, nodes, code>>
compileVars == <<pc, cscopes, results>>
vars        == <<phase, unit, checkVars, compileVars>>

-----------------------------------------------------------------------------
(* Lookups: both scan the scopes from the innermost out, and each scope     *)
(* from its last entry to its first.                                        *)

Entry(scopes, p) == scopes[p[1]][p[2]]

\* The positions <<scope, entry>> that hold x, and those that hold it with a
\* value that is not null.
Entries(scopes, x) ==
  {p \in UNION {{i} \X DOMAIN scopes[i] : i \in DOMAIN scopes} : Entry(scopes, p).name = x}
ValuedEntries(scopes, x) == {p \in Entries(scopes, x) : Entry(scopes, p).at # NoValue}

\* Mutant of Innermost: each scope is scanned from its first entry.
InnermostScopeForward(P) ==
  LET i == Max({p[1] : p \in P})
  IN  <<i, Min({p[2] : p \in {q \in P : q[1] = i}})>>

\* The entry a backward scan meets first among the positions P.
Innermost(P) ==
  LET i == Max({p[1] : p \in P})
  IN  <<i, Max({p[2] : p \in {q \in P : q[1] = i}})>>

\* Mutant of TypeCheckAccess: "failed to resolve symbol" is not thrown.
TypeCheckAccessUnchecked(scopes, x) ==
  LET found == Entries(scopes, x)
      e     == Entry(scopes, Innermost(found))
  IN  IF found # {} THEN [type |-> e.type, at |-> e.at]
      ELSE [type |-> IF x \in DOMAIN Symbols THEN Symbols[x].type ELSE NoType,
            at |-> ModuleVariable]

\* module_impl::type_check_variable_access, for the only chain the plugins
\* build: a single name.
TypeCheckAccess(scopes, x) ==
  LET found == Entries(scopes, x) IN
  IF found # {}
  THEN LET e == Entry(scopes, Innermost(found)) IN [type |-> e.type, at |-> e.at]
  ELSE IF x \notin DOMAIN Symbols THEN [type |-> NoType, at |-> Unresolved]
  ELSE IF Symbols[x].kind = "variable"
  THEN [type |-> Symbols[x].type, at |-> ModuleVariable]
  ELSE IF Len(Symbols[x].overloads) = 1
  THEN [type |-> Symbols[x].type, at |-> FunctionRef]
  ELSE [type |-> NoType, at |-> Unresolved]

\* Mutant of CompileAccess: the module's symbols are searched first.
CompileAccessModuleFirst(scopes, x) ==
  LET found == ValuedEntries(scopes, x)
      e     == Entry(scopes, Innermost(found))
  IN  IF x \in DOMAIN Symbols /\ Symbols[x].kind = "variable"
      THEN [type |-> Symbols[x].type, at |-> ModuleVariable]
      ELSE IF found # {} THEN [type |-> e.type, at |-> e.at]
      ELSE [type |-> NoType, at |-> NoValue]

\* module_impl::lookup_compile_variable and load_variable: the scan stops at a
\* value, not at a name, and a function gives nothing.
CompileAccess(scopes, x) ==
  LET found == ValuedEntries(scopes, x) IN
  IF found # {}
  THEN LET e == Entry(scopes, Innermost(found)) IN [type |-> e.type, at |-> e.at]
  ELSE IF x \in DOMAIN Symbols /\ Symbols[x].kind = "variable"
  THEN [type |-> Symbols[x].type, at |-> ModuleVariable]
  ELSE [type |-> NoType, at |-> NoValue]

\* module_impl::store_variable: the location the store instruction writes.  A
\* module variable is written only when is_stack is left over from a null local.
StoreTarget(scopes, x) ==
  LET r == CompileAccess(scopes, x) IN
  IF r.at = ModuleVariable /\ Entries(scopes, x) = {} THEN NoValue ELSE r.at

\* type_check_function_application: the overload it leaves in result_function,
\* the first whose arguments match and else the last one tried.
ResolveOverload(overloads, args) ==
  LET matching == {i \in DOMAIN overloads : overloads[i].args = args}
  IN  IF matching = {} THEN Len(overloads) ELSE Min(matching)

-----------------------------------------------------------------------------
(* The first walk: type checking.                                           *)

Top == Last(frames)

\* The ast nodes handed to the plugin on top since it was called, or since it
\* last used one.
Delivered == Len(nodes) - Top.base

\* The plugin on top is about to call _type_checker.
WantsExpression ==
  /\ phase = "check"
  /\ Top.stage \in {"bind", "cond"} => Delivered = 0
  /\ Top.form = "if" => Delivered < 3
  /\ Top.form = "set" => Delivered < 1
  /\ Top.form = "unit" /\ ~unit.defn => Delivered < 1

Room == Len(code) + Len(frames) < MaxCode

Instr(op, name, type, n, at) ==
  [op |-> op, name |-> name, type |-> type, n |-> n, at |-> at,
   env |-> tscopes, stk |-> nodes]

Frame(form, stage, name, type, at) ==
  [form |-> form, stage |-> stage, name |-> name, type |-> type, at |-> at,
   base |-> Len(nodes), env |-> tscopes]

AnyName == CHOOSE x \in Names : TRUE

\* Drop the last n elements of s.
DropLast(s, n) == SubSeq(s, 1, Len(s) - n)

Scoped(f) == f.form \in {"let", "for"} \/ (f.form = "unit" /\ unit.defn)

\* Mutant of Reject: scopes are ended by the plugins and not by destructors.
RejectKeepingScopes ==
  /\ phase' = "idle"
  /\ frames' = << >> /\ nodes' = << >> /\ code' = << >>
  /\ UNCHANGED <<tscopes, unit, compileVars>>

\* An exception out of type_check: every type_check_variable_scope on the C++
\* stack pops its scope, and the walk is over.
Reject ==
  /\ phase'   = "idle"
  /\ tscopes' = DropLast(tscopes, Cardinality({k \in DOMAIN frames : Scoped(frames[k])}))
  /\ frames'  = << >> /\ nodes' = << >> /\ code' = << >>
  /\ UNCHANGED <<unit, compileVars>>

\* A plugin returns an ast node of type t: instruction i is its node, and it
\* replaces the n nodes below it.
Return(i, n, t) ==
  /\ code'  = Append(code, i)
  /\ nodes' = Append(DropLast(nodes, n), t)

\* The scope of a function's arguments, declared at the sites 1, 2, ...
ArgumentScope(args) ==
  [j \in DOMAIN args |-> [name |-> args[j].name, type |-> args[j].type, at |-> j]]

\* defn_compiler_plugin::type_check up to its body, or compiler_impl::type_check
\* taking up a top-level application.
BeginUnit(defn, args) ==
  /\ phase = "idle"
  /\ ~defn => args = << >>
  /\ phase'   = "check"
  /\ unit'    = [defn |-> defn, args |-> args]
  /\ tscopes' = IF defn
                THEN Append(tscopes, ArgumentScope(args))
                ELSE tscopes
  /\ frames'  = <<Frame("unit", "body", AnyName, Void, NoValue)>>
  /\ UNCHANGED <<nodes, code, compileVars>>

\* type_check_numeric_constant.
CheckConstant(t) ==
  /\ WantsExpression /\ Room
  /\ Return(Instr("const", AnyName, t, 0, NoValue), 0, t)
  /\ UNCHANGED <<phase, unit, frames, tscopes, compileVars>>

\* type_check_symbol.
CheckSymbol(x) ==
  /\ WantsExpression /\ Room
  /\ LET r == TypeCheckAccess(tscopes, x) IN
     IF r.at = Unresolved
     THEN Reject
     ELSE /\ Return(Instr("ref", x, r.type, 0, r.at), 0, r.type)
          /\ UNCHANGED <<phase, unit, frames, tscopes, compileVars>>

\* The head of a special form: if, let, for.  let and for open a scope.
OpenForm(form) ==
  /\ WantsExpression /\ Room
  /\ frames' = Append(frames,
                 Frame(form, IF form = "if" THEN "body" ELSE "bind", AnyName, Void, NoValue))
  /\ IF form = "if"
     THEN UNCHANGED <<tscopes, code>>
     ELSE /\ tscopes' = Append(tscopes, << >>)
          /\ code' = Append(code, Instr("enter", AnyName, Void, 0, NoValue))
  /\ UNCHANGED <<phase, unit, nodes, compileVars>>

\* set_plugin::type_check resolves its target before it checks the expression.
OpenSet(x) ==
  /\ WantsExpression /\ Room /\ "set" \in SpecialForms
  /\ LET r == TypeCheckAccess(tscopes, x) IN
     IF r.at = Unresolved
     THEN Reject
     ELSE /\ frames' = Append(frames, Frame("set", "body", x, r.type, r.at))
          /\ UNCHANGED <<phase, unit, tscopes, nodes, code, compileVars>>

\* type_check_function_application: find_function, before the arguments.
OpenCall(f) ==
  /\ WantsExpression /\ Room
  /\ IF f \in DOMAIN Symbols /\ Symbols[f].kind = "function"
     THEN /\ frames' = Append(frames, Frame("call", "args", f, Void, NoValue))
          /\ UNCHANGED <<phase, unit, tscopes, nodes, code, compileVars>>
     ELSE Reject

\* let and for bind a name to the expression just checked.
BindLocal(x) ==
  /\ phase = "check" /\ Top.stage = "bind" /\ Delivered = 1
  /\ LET site == Len(unit.args) + Len(code) + 1
         t    == Last(nodes)
     IN  /\ tscopes' = [tscopes EXCEPT ![Len(tscopes)] =
                          Append(@, [name |-> x, type |-> t, at |-> site])]
         /\ code' = Append(code, Instr("bind", x, t, 0, site))
  /\ nodes' = Front(nodes)
  /\ UNCHANGED <<phase, unit, frames, compileVars>>

\* The bindings are over: let goes on to its body, for to its condition.
EndBindings ==
  /\ phase = "check" /\ Top.stage = "bind" /\ Delivered = 0
  /\ frames' = [frames EXCEPT ![Len(frames)].stage =
                  IF Top.form = "let" THEN "body" ELSE "cond"]
  /\ UNCHANGED <<phase, unit, tscopes, nodes, code, compileVars>>

\* for checks that its condition is boolean.
CloseCondition ==
  /\ phase = "check" /\ Top.stage = "cond" /\ Delivered = 1
  /\ IF Last(nodes) # Bool
     THEN Reject
     ELSE /\ frames' = [frames EXCEPT ![Len(frames)].stage = "body"]
          /\ code' = Append(code, Instr("branch", AnyName, Bool, 0, NoValue))
          /\ nodes' = Front(nodes)
          /\ UNCHANGED <<phase, unit, tscopes, compileVars>>

\* Mutant of CloseScope: the scope is not ended.
CloseScopeKeepingIt ==
  /\ phase = "check" /\ Top.form \in {"let", "for"} /\ Top.stage = "body" /\ Delivered >= 1
  /\ LET t  == IF Top.form = "let" THEN Last(nodes) ELSE Void
         op == IF Top.form = "let" THEN "endlet" ELSE "endfor"
     IN  Return(Instr(op, AnyName, t, Delivered, NoValue), Delivered, t)
  /\ frames'  = Front(frames)
  /\ UNCHANGED <<phase, unit, tscopes, compileVars>>

\* let and for return: the scope ends, and a let has the type of its last form.
CloseScope ==
  /\ phase = "check" /\ Top.form \in {"let", "for"} /\ Top.stage = "body" /\ Delivered >= 1
  /\ LET t  == IF Top.form = "let" THEN Last(nodes) ELSE Void
         op == IF Top.form = "let" THEN "endlet" ELSE "endfor"
     IN  Return(Instr(op, AnyName, t, Delivered, NoValue), Delivered, t)
  /\ tscopes' = Front(tscopes)
  /\ frames'  = Front(frames)
  /\ UNCHANGED <<phase, unit, compileVars>>

\* Mutant of CloseIf: the types of the branches are not compared.
CloseIfUnchecked ==
  /\ phase = "check" /\ Top.form = "if" /\ Delivered = 3
  /\ nodes[Len(nodes) - 2] = Bool
  /\ Return(Instr("if", AnyName, nodes[Len(nodes) - 1], 3, NoValue), 3, nodes[Len(nodes) - 1])
  /\ frames' = Front(frames)
  /\ UNCHANGED <<phase, unit, tscopes, compileVars>>

\* if returns, once its three forms are checked.
CloseIf ==
  /\ phase = "check" /\ Top.form = "if" /\ Delivered = 3
  /\ LET n == Len(nodes) IN
     IF nodes[n - 2] # Bool \/ nodes[n - 1] # nodes[n]
     THEN Reject
     ELSE /\ Return(Instr("if", AnyName, nodes[n], 3, NoValue), 3, nodes[n])
          /\ frames' = Front(frames)
          /\ UNCHANGED <<phase, unit, tscopes, compileVars>>

\* set returns.
CloseSet ==
  /\ phase = "check" /\ Top.form = "set" /\ Delivered = 1
  /\ IF Last(nodes) # Top.type
     THEN Reject
     ELSE /\ Return(Instr("set", Top.name, Top.type, 1, Top.at), 1, Top.type)
          /\ frames' = Front(frames)
          /\ UNCHANGED <<phase, unit, tscopes, compileVars>>

\* A call returns; `at' is the overload it resolved to.
CloseCall ==
  /\ phase = "check" /\ Top.form = "call"
  /\ LET overloads == Symbols[Top.name].overloads
         args      == SubSeq(nodes, Top.base + 1, Len(nodes))
         k         == ResolveOverload(overloads, args)
     IN  Return(Instr("call", Top.name, overloads[k].ret, Delivered, k),
                Delivered, overloads[k].ret)
  /\ frames' = Front(frames)
  /\ UNCHANGED <<phase, unit, tscopes, compileVars>>

\* A cast_ref that fails, a missing or an extra form: the unit is thrown out.
Malformed == phase = "check" /\ Reject

\* The unit is checked.  Its scope, if it has one, ends; the second pass of its
\* function begins with a scope that holds the arguments (none for module_init).
BeginCompile ==
  /\ phase = "check" /\ Top.form = "unit" /\ Delivered >= 1
  /\ phase'   = "compile"
  /\ tscopes' = IF unit.defn THEN Front(tscopes) ELSE tscopes
  /\ frames'  = << >> /\ nodes' = << >>
  /\ pc'      = 1
  /\ cscopes' = Append(cscopes, ArgumentScope(unit.args))
  /\ UNCHANGED <<unit, code, results>>

-----------------------------------------------------------------------------
(* The second walk: compile_second_pass of each node.                       *)

Running(op) == phase = "compile" /\ pc <= Len(code) /\ code[pc].op = op
I == code[pc]
R(k) == results[Len(results) - k]      \* the k-th result below the last

Result(t, valid) == [type |-> t, valid |-> valid]

\* A node returns r in place of the n results below it.
Yield(n, r) ==
  /\ results' = Append(DropLast(results, n), r)
  /\ pc' = pc + 1
  /\ UNCHANGED <<phase, unit, checkVars>>

\* The node throws (or dereferences a null type): the second pass ends.
Throw ==
  /\ phase' = "broken"
  /\ UNCHANGED <<unit, checkVars, compileVars>>

\* numeric_constant_ast_node.
EmitConstant ==
  /\ Running("const")
  /\ Yield(0, Result(I.type, TRUE))
  /\ UNCHANGED cscopes

\* variable_chain_ast_node.
EmitLoad ==
  /\ Running("ref")
  /\ LET r == CompileAccess(cscopes, I.name)
     IN  Yield(0, Result(r.type, r.at # NoValue))
  /\ UNCHANGED cscopes

\* let and for open a compilation_variable_scope.
EmitEnter ==
  /\ Running("enter")
  /\ cscopes' = Append(cscopes, << >>)
  /\ pc' = pc + 1
  /\ UNCHANGED <<phase, unit, checkVars, results>>

\* Mutant of EmitBind: a void variable is not entered in the scope.
EmitBindValuesOnly ==
  /\ Running("bind")
  /\ cscopes' = IF R(0).valid
                THEN [cscopes EXCEPT ![Len(cscopes)] =
                        Append(@, [name |-> I.name, type |-> R(0).type, at |-> I.at])]
                ELSE cscopes
  /\ results' = Front(results)
  /\ pc' = pc + 1
  /\ UNCHANGED <<phase, unit, checkVars>>

\* initialize_assign_block: a value gets an alloca, anything else is void.
EmitBind ==
  /\ Running("bind")
  /\ LET local == IF R(0).valid
                  THEN [name |-> I.name, type |-> R(0).type, at |-> I.at]
                  ELSE [name |-> I.name, type |-> Void, at |-> NoValue]
     IN  cscopes' = [cscopes EXCEPT ![Len(cscopes)] = Append(@, local)]
  /\ results' = Front(results)
  /\ pc' = pc + 1
  /\ UNCHANGED <<phase, unit, checkVars>>

\* for branches on its condition.
EmitBranch ==
  /\ Running("branch")
  /\ IF ~R(0).valid
     THEN Throw
     ELSE /\ results' = Front(results)
          /\ pc' = pc + 1
          /\ UNCHANGED <<phase, unit, checkVars, cscopes>>

\* let returns the result of the last of its n forms, for returns void.
EmitEndLet ==
  /\ Running("endlet")
  /\ Yield(I.n, R(0))
  /\ cscopes' = Front(cscopes)

EmitEndFor ==
  /\ Running("endfor")
  /\ Yield(I.n, Result(Void, FALSE))
  /\ cscopes' = Front(cscopes)

\* if_ast_node: it throws when the branches disagree.
EmitIf ==
  /\ Running("if")
  /\ LET broken == \/ ~R(2).valid
                   \/ R(1).type # R(0).type
                   \/ R(0).type = NoType
                   \/ R(0).type # Void /\ ~(R(1).valid /\ R(0).valid)
     IN  IF broken
         THEN Throw
         ELSE /\ Yield(3, Result(R(0).type, R(0).type # Void))
              /\ UNCHANGED cscopes

\* set_ast_node: the value it stored is its own value.
EmitStore ==
  /\ Running("set")
  /\ Yield(1, R(0))
  /\ UNCHANGED cscopes

\* Mutant of EmitCall: a call of a void function is a value like any other.
EmitCallAlwaysValue ==
  /\ Running("call")
  /\ Yield(I.n, Result(I.type, TRUE))
  /\ UNCHANGED cscopes

\* function_call_ast_node.
EmitCall ==
  /\ Running("call")
  /\ Yield(I.n, Result(I.type, I.type # Void))
  /\ UNCHANGED cscopes

\* function_node_impl::compile_second_pass returns: its scope ends.
EndUnit ==
  /\ phase = "compile" /\ pc > Len(code)
  /\ phase'   = "idle"
  /\ cscopes' = Front(cscopes)
  /\ code' = << >> /\ results' = << >> /\ pc' = 0
  /\ UNCHANGED <<unit, frames, tscopes, nodes>>

\* The scopes open when a node threw: one for the function, and those its
\* nodes had entered and not left.
OpenScopes ==
  LET before(ops) == {k \in 1 .. pc - 1 : code[k].op \in ops}
  IN  1 + Cardinality(before({"enter"})) - Cardinality(before({"endlet", "endfor"}))

\* The exception leaves compile: every compilation_variable_scope pops.
Unwind ==
  /\ phase = "broken"
  /\ phase'   = "idle"
  /\ cscopes' = DropLast(cscopes, OpenScopes)
  /\ code' = << >> /\ results' = << >> /\ pc' = 0
  /\ UNCHANGED <<unit, frames, tscopes, nodes>>

-----------------------------------------------------------------------------

Init ==
  /\ phase = "idle"
  /\ unit = [defn |-> FALSE, args |-> << >>]
  /\ frames = << >> /\ tscopes = << >> /\ nodes = << >> /\ code = << >>
  /\ pc = 0 /\ cscopes = << >> /\ results = << >>

CheckStep ==
  \/ \E t \in Numeric : CheckConstant(t)
  \/ \E x \in Names : CheckSymbol(x) \/ OpenSet(x) \/ OpenCall(x) \/ BindLocal(x)
  \/ \E form \in SpecialForms \ {"set"} : OpenForm(form)
  \/ EndBindings \/ CloseCondition \/ CloseScope \/ CloseIf \/ CloseSet \/ CloseCall
  \/ Malformed

CompileStep ==
  \/ EmitConstant \/ EmitLoad \/ EmitEnter \/ EmitBind \/ EmitBranch
  \/ EmitEndLet \/ EmitEndFor \/ EmitIf \/ EmitStore \/ EmitCall

Next ==
  \/ \E defn \in BOOLEAN, args \in Signatures \union {<< >>} : BeginUnit(defn, args)
  \/ CheckStep
  \/ BeginCompile
  \/ CompileStep
  \/ EndUnit
  \/ Unwind

Spec == Init /\ [][Next]_vars

-----------------------------------------------------------------------------
(* Properties.                                                              *)

\* What the two scope stacks, the C++ stack, the ast and the results hold.
Local         == [name : Names, type : Types, at : Int]
CompiledLocal == [name : Names, type : Types \union {NoType}, at : Int]
Plugin        == [form : {"unit", "let", "for", "if", "set", "call"},
                  stage : {"bind", "cond", "body", "args"},
                  name : Names, type : Types, at : Int, base : Nat, env : Seq(Seq(Local))]
Instruction   == [op : {"const", "ref", "enter", "bind", "branch", "endlet",
                        "endfor", "if", "set", "call"},
                  name : Names, type : Types, n : Nat, at : Int,
                  env : Seq(Seq(Local)), stk : Seq(Types)]
Value         == [type : Types \union {NoType}, valid : BOOLEAN]

\* The shape of the state: every field holds what its C++ member can hold.
TypeOK ==
  /\ phase \in {"idle", "check", "compile", "broken"}
  /\ unit \in [defn : BOOLEAN, args : Seq([name : Names, type : Types \ {Void}])]
  /\ tscopes \in Seq(Seq(Local))
  /\ cscopes \in Seq(Seq(CompiledLocal))
  /\ nodes \in Seq(Types)
  /\ results \in Seq(Value)
  /\ pc \in Nat
  /\ frames \in Seq(Plugin)
  /\ code \in Seq(Instruction)

\* The second pass of a function runs in a scope of its own; the type check of a
\* top-level statement runs in none.
Offset == IF unit.defn THEN 0 ELSE 1

\* The unit reads no void local and takes the address of no function: the reads
\* for which type_check_variable_access and lookup_compile_variable part ways.
ReadsOnlyValues ==
  \A k \in DOMAIN code :
    code[k].op = "ref" => code[k].type # Void /\ code[k].at # FunctionRef

\* Whatever the unit, each node finds as many results and scopes as it had types
\* and scopes when it was checked, and the scopes hold the same names in the same
\* order: the second pass never pops an empty stack nor binds in the wrong scope.
StacksAligned ==
  phase = "compile" /\ pc <= Len(code) =>
    /\ Len(results) = Len(I.stk)
    /\ Len(cscopes) = Len(I.env) + Offset
    /\ \A i \in DOMAIN I.env :
         /\ Len(cscopes[i + Offset]) = Len(I.env[i])
         /\ \A j \in DOMAIN I.env[i] : cscopes[i + Offset][j].name = I.env[i][j].name

\* The lookup in the second pass finds the declaration, and the type, that type
\* checking found: a load reads, and a store to a local writes, the variable the
\* programmer's scope rules name.
PassesAgree ==
  phase = "compile" /\ pc <= Len(code) /\ ReadsOnlyValues =>
    /\ I.op = "ref" => CompileAccess(cscopes, I.name) = [type |-> I.type, at |-> I.at]
    /\ I.op = "set" /\ R(0).valid /\ I.at > 0 => StoreTarget(cscopes, I.name) = I.at

\* A unit that type checks compiles: the throws and null dereferences of the
\* second pass are out of reach.
CheckedUnitsCompile == ReadsOnlyValues => phase # "broken"

\* The LLVM call of an overload that matched finds, for each argument and in order, a
\* value of the argument's type, and none for one that is void: those it leaves out are
\* the parameters the llvm::Function does not have.
CallsPassTheirArguments ==
  Running("call") /\ ReadsOnlyValues =>
    LET params == Symbols[I.name].overloads[I.at].args
        types  == SubSeq(I.stk, Len(I.stk) - I.n + 1, Len(I.stk))
        given  == SubSeq(results, Len(results) - I.n + 1, Len(results))
    IN  params = types => given = [k \in DOMAIN params |-> Result(params[k], params[k] # Void)]

\* Between units both scope stacks are empty, also after an error part way into
\* nested scopes: no unit sees a local of an earlier one.
NoScopeLeaks == phase = "idle" => tscopes = << >> /\ cscopes = << >>

\* A plugin that returns leaves the scope stack as it found it.
PluginsRestoreScopes ==
  [][Len(frames') = Len(frames) - 1 /\ phase' = "check" => tscopes' = Top.env]_vars

\* What the search for x finds in scopes.
Meaning(scopes, x) ==
  LET found == Entries(scopes, x) IN
  IF found = {} THEN Unresolved ELSE Entry(scopes, Innermost(found)).at

\* The search through nested scopes means lexical scoping: the environments are
\* what the search finds at each depth of the stack.
EnvironmentsOf(scopes) ==
  [k \in 1 .. Len(scopes) + 1 |-> [x \in Names |-> Meaning(SubSeq(scopes, 1, k - 1), x)]]

ArgumentNames == {[j \in DOMAIN s |-> s[j].name] : s \in Signatures} \union {<< >>}

CheckScoping == INSTANCE LexicalScope
                WITH envs <- EnvironmentsOf(tscopes), ArgumentLists <- ArgumentNames,
                     Undeclared <- Unresolved

\* The environments are a function of the stack: only a step that changes it can
\* change them.
LexicalStep == UNCHANGED tscopes \/ CheckScoping!Next

TypeCheckIsLexical == CheckScoping!Init /\ [][LexicalStep]_tscopes

-----------------------------------------------------------------------------
(* What the source says of itself, and what the code does not do.           *)

\* base_plugins.cpp:109-110 throws "no function found with matching arguments
\* types": a call type checks only against an overload with its argument types.
CallsMatchTheirOverload ==
  \A k \in DOMAIN code :
    LET stk == code[k].stk IN
    code[k].op = "call" =>
      Symbols[code[k].name].overloads[code[k].at].args
        = SubSeq(stk, Len(stk) - code[k].n + 1, Len(stk))
=============================================================================
