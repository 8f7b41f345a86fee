---------------------------- MODULE ModuleSession ----------------------------
(***************************************************************************)
(* One compiler and the calls made on it: texts are type checked into the  *)
(* module, form by form, and the module is compiled, in two passes over    *)
(* everything it has ever been given, as often as the caller likes.        *)
(*                                                                         *)
(* `defs' is module_impl::_symbol_map: the functions and variables in the  *)
(* order they were defined.  An overload list holds the definitions of one *)
(* name in this order, and the ordered walk of the vectormap takes names   *)
(* in the order of their first definition.  `llvm' is the llvm::Module,    *)
(* which only grows: each compile() adds a new value for every symbol.     *)
(*                                                                         *)
(* What the forms of a body are, beyond the calls they make, is the matter *)
(* of ScopeResolution; here a body may have a fault, and the step of the   *)
(* pipeline it is in throws.  No program defines a datatype (nothing calls *)
(* define_datatype), and this module has none.                             *)
(***************************************************************************)
EXTENDS Integers, SequencesExt

CONSTANTS
  Names, Types,  \* of functions and variables
  Builtins,      \* the symbols compiler_impl's constructor defines
  Forms,         \* the top-level forms a text may have
  Void,          \* the type of module_init while it has no statements
  MaxText,       \* bound: the forms of a text
  MaxModule,     \* bound: the symbols and statements of the module
  MaxCompiles    \* bound: calls of compile()

Kinds  == {"variable", "external", "override", "ast"}
Faults == {"none", "check", "first", "second"}   \* the step of the pipeline that throws

\* The head of an application, with the types of its arguments.
Call == [name : Names, args : Seq(Types)]

ASSUME BoundsAssumption == MaxText \in Nat /\ MaxModule \in Nat /\ MaxCompiles \in Nat

ASSUME TypesAssumption == Void \in Types

\* Two builtins of one name are functions with different arguments.
ASSUME BuiltinsAssumption ==
  /\ Builtins \in Seq([name : Names, kind : Kinds \ {"ast"}, args : Seq(Types), ret : Types,
                       calls : {<< >>}, fault : {"none"}, llvm : {0}])
  /\ \A i, j \in DOMAIN Builtins :
       i # j /\ Builtins[i].name = Builtins[j].name =>
         /\ Builtins[i].kind # "variable" /\ Builtins[j].kind # "variable"
         /\ Builtins[i].args # Builtins[j].args

\* A statement has the value of the last call it makes.
ASSUME FormsAssumption ==
  /\ Forms \subseteq [kind : {"defn", "statement"}, name : Names, args : Seq(Types),
                     ret : Types, calls : Seq(Call), fault : Faults]
  /\ \A form \in Forms :
       form.kind = "statement" => form.calls # << >> /\ form.fault # "first"

VARIABLES
  defs,      \* module_impl::_symbol_map
  init,      \* module_impl::_init_statements
  rettype,   \* module_impl::_init_rettype
  initFn,    \* module_impl::_init_function
  llvm,      \* the values of the llvm::Module, and what they call
  phase,     \* idle, check, first, second or compiled
  todo,      \* the forms of the text not yet type checked
  pending,   \* the symbols the pass has not come to
  executing, \* is this execute()?
  compiles,  \* bound: how often compile() was entered
  base       \* history: values in llvm when compile() was entered

module   == <<defs, init, rettype>>
progress == <<phase, todo, pending>>
history  == <<executing, compiles, base>>
vars     == <<module, initFn, llvm, progress, history>>

NoFunction == [body |-> << >>, ret |-> Void, llvm |-> 0]

-----------------------------------------------------------------------------
(* The symbol table.                                                        *)

IsFunction(i) == defs[i].kind # "variable"

\* module::find_function: the overloads of a name.
FindFunction(name) == {i \in DOMAIN defs : defs[i].name = name /\ IsFunction(i)}

Unresolved == 0

\* type_check_function_application: the first overload with these argument types,
\* and else the last one.
Resolve(call) ==
  LET matching == {i \in FindFunction(call.name) : defs[i].args = call.args}
  IN  IF FindFunction(call.name) = {} THEN Unresolved
      ELSE IF matching # {} THEN Min(matching) ELSE Max(FindFunction(call.name))

\* The body type checks: each of its calls is resolved.
Checks(form) ==
  /\ form.fault # "check"
  /\ \A k \in DOMAIN form.calls : Resolve(form.calls[k]) # Unresolved

\* The definition of form, whose body calls the definitions in calls.
Definition(form, calls) ==
  [name |-> form.name, kind |-> "ast", args |-> form.args, ret |-> form.ret,
   calls |-> calls, fault |-> form.fault, llvm |-> 0]

ResolvedCalls(form) == [k \in DOMAIN form.calls |-> Resolve(form.calls[k])]

\* Mutant of Definable: a function may be defined again.
DefinableAgain(form) ==
  \A i \in DOMAIN defs : defs[i].name = form.name => IsFunction(i)

\* module_impl::define_function does not throw: the name is no variable's, and no
\* overload has these arguments.
Definable(form) ==
  \A i \in DOMAIN defs :
    defs[i].name = form.name => IsFunction(i) /\ defs[i].args # form.args

-----------------------------------------------------------------------------
(* type_check().                                                            *)

\* An exception: the call is over, and what it did stays done.
Throw ==
  /\ phase' = "idle" /\ todo' = << >> /\ pending' = {}
  /\ UNCHANGED <<module, initFn, llvm, history>>

\* type_check(read(text)), on its own or by execute().
BeginTypeCheck(text, asExecute) ==
  /\ phase = "idle" /\ (asExecute => compiles < MaxCompiles)
  /\ Len(defs) + Len(init) + Len(text) <= MaxModule
  /\ phase' = "check" /\ todo' = text
  /\ executing' = asExecute
  /\ UNCHANGED <<module, initFn, llvm, pending, compiles, base>>

\* Mutant of CheckDefn: the function is defined before its body is checked.
CheckDefnDefinesFirst ==
  /\ phase = "check" /\ todo # << >> /\ Head(todo).kind = "defn"
  /\ LET form == Head(todo)
         self(c) == IF c.name = form.name /\ c.args = form.args
                    THEN Len(defs) + 1 ELSE Resolve(c)
     IN  IF form.fault = "check" \/ ~Definable(form)
            \/ \E k \in DOMAIN form.calls : self(form.calls[k]) = Unresolved
         THEN Throw
         ELSE /\ defs' = Append(defs, Definition(form,
                           [k \in DOMAIN form.calls |-> self(form.calls[k])]))
              /\ todo' = Tail(todo)
              /\ UNCHANGED <<init, rettype, initFn, llvm, phase, pending, history>>

\* defn_compiler_plugin::type_check: the body, then define_function.
CheckDefn ==
  /\ phase = "check" /\ todo # << >> /\ Head(todo).kind = "defn"
  /\ LET form == Head(todo) IN
     IF Checks(form) /\ Definable(form)
     THEN /\ defs' = Append(defs, Definition(form, ResolvedCalls(form)))
          /\ todo' = Tail(todo)
          /\ UNCHANGED <<init, rettype, initFn, llvm, phase, pending, history>>
     ELSE Throw

\* Any other list is an application: its node is appended to module_init, whose
\* type is now the node's.
CheckStatement ==
  /\ phase = "check" /\ todo # << >> /\ Head(todo).kind = "statement"
  /\ LET form == Head(todo) IN
     IF Checks(form)
     THEN LET node == [calls |-> ResolvedCalls(form), fault |-> form.fault,
                       type |-> defs[Resolve(Last(form.calls))].ret]
          IN  /\ init' = Append(init, node) /\ rettype' = node.type
              /\ todo' = Tail(todo)
              /\ UNCHANGED <<defs, initFn, llvm, phase, pending, history>>
     ELSE Throw

\* type_check returns; execute goes on to compile().
EndTypeCheck ==
  /\ phase = "check" /\ todo = << >>
  /\ IF executing
     THEN /\ phase' = "first" /\ pending' = DOMAIN defs
          /\ compiles' = compiles + 1 /\ base' = Len(llvm)
     ELSE phase' = "idle" /\ UNCHANGED <<pending, compiles, base>>
  /\ UNCHANGED <<module, initFn, llvm, todo, executing>>

-----------------------------------------------------------------------------
(* compile().                                                               *)

BeginCompile ==
  /\ phase = "idle" /\ compiles < MaxCompiles
  /\ phase' = "first" /\ pending' = DOMAIN defs
  /\ executing' = FALSE
  /\ compiles' = compiles + 1 /\ base' = Len(llvm)
  /\ UNCHANGED <<module, initFn, llvm, todo>>

\* The ordered walk of the symbol map: by first definition of the name, then by
\* position in the overload list.
FirstOf(name) == Min({i \in DOMAIN defs : defs[i].name = name})
IsNext(i) ==
  /\ i \in pending
  /\ \A j \in pending :
       \/ FirstOf(defs[i].name) < FirstOf(defs[j].name)
       \/ defs[i].name = defs[j].name /\ i <= j

Value(state) == [state |-> state, calls |-> {}]

\* Mutant of FirstPassSymbol: a symbol that has its llvm value keeps it.
FirstPassSymbolOnce(i) ==
  /\ phase = "first" /\ IsNext(i)
  /\ IF defs[i].fault = "first" THEN Throw
     ELSE /\ IF defs[i].llvm # 0 THEN UNCHANGED <<llvm, defs>>
             ELSE /\ llvm' = Append(llvm, Value(
                       IF defs[i].kind \in {"variable", "external"} THEN "mapped" ELSE "declared"))
                  /\ defs' = [defs EXCEPT ![i].llvm = Len(llvm) + 1]
          /\ pending' = pending \ {i}
          /\ UNCHANGED <<init, rettype, initFn, phase, todo, history>>

\* compile_first_pass of a variable or function: a new llvm value, mapped to its
\* address if it is the compiler's.  It throws if a type has no llvm type.
FirstPassSymbol(i) ==
  /\ phase = "first" /\ IsNext(i)
  /\ IF defs[i].fault = "first" THEN Throw
     ELSE /\ llvm' = Append(llvm, Value(
               IF defs[i].kind \in {"variable", "external"} THEN "mapped" ELSE "declared"))
          /\ defs' = [defs EXCEPT ![i].llvm = Len(llvm) + 1]
          /\ pending' = pending \ {i}
          /\ UNCHANGED <<init, rettype, initFn, phase, todo, history>>

\* Mutant of FirstPassInit: module_init is made by the first compile only.
FirstPassInitOnce ==
  /\ phase = "first" /\ pending = {}
  /\ initFn' = IF initFn = NoFunction THEN [body |-> init, ret |-> rettype, llvm |-> Len(llvm) + 1]
               ELSE [initFn EXCEPT !.llvm = Len(llvm) + 1]
  /\ llvm' = Append(llvm, Value("declared"))
  /\ phase' = "second" /\ pending' = DOMAIN defs
  /\ UNCHANGED <<module, todo, history>>

\* The end of module_impl::compile_first_pass: a new module_init.
FirstPassInit ==
  /\ phase = "first" /\ pending = {}
  /\ initFn' = [body |-> init, ret |-> rettype, llvm |-> Len(llvm) + 1]
  /\ llvm' = Append(llvm, Value("declared"))
  /\ phase' = "second" /\ pending' = DOMAIN defs
  /\ UNCHANGED <<module, todo, history>>

Callees(calls) == {defs[calls[k]].llvm : k \in DOMAIN calls}

\* A body is compiled into v, or throws and leaves its blocks unfinished.  Into a
\* function that has blocks it puts a second entry.
EmitBody(v, state, callees) ==
  llvm' = [llvm EXCEPT ![v] =
             [state |-> IF @.state = "declared" THEN state ELSE "mangled", calls |-> callees]]

\* Mutant of SecondPassSymbol: a function compiled by an earlier pass is left.
SecondPassNewest(i) ==
  /\ phase = "second" /\ IsNext(i)
  /\ IF defs[i].kind \in {"variable", "external"} \/ i # Max(DOMAIN defs)
     THEN llvm' = llvm ELSE EmitBody(defs[i].llvm, "defined", Callees(defs[i].calls))
  /\ pending' = pending \ {i}
  /\ UNCHANGED <<module, initFn, phase, todo, history>>

\* compile_second_pass of a symbol.
SecondPassSymbol(i) ==
  /\ phase = "second" /\ IsNext(i)
  /\ CASE defs[i].kind \in {"variable", "external"} ->
            /\ pending' = pending \ {i}
            /\ UNCHANGED <<llvm, phase, todo>>
       [] defs[i].kind = "override" ->
            /\ EmitBody(defs[i].llvm, "defined", {})
            /\ pending' = pending \ {i} /\ UNCHANGED <<phase, todo>>
       [] defs[i].kind = "ast" /\ defs[i].fault = "none" ->
            /\ EmitBody(defs[i].llvm, "defined", Callees(defs[i].calls))
            /\ pending' = pending \ {i} /\ UNCHANGED <<phase, todo>>
       [] OTHER ->
            /\ EmitBody(defs[i].llvm, "open", Callees(defs[i].calls))
            /\ phase' = "idle" /\ todo' = << >> /\ pending' = {}
  /\ UNCHANGED <<module, initFn, history>>

\* compile_second_pass of module_init: its statements, those of earlier texts too.
SecondPassInit ==
  /\ phase = "second" /\ pending = {}
  /\ LET callees == UNION {Callees(initFn.body[k].calls) : k \in DOMAIN initFn.body}
         faulty  == \E k \in DOMAIN initFn.body : initFn.body[k].fault # "none"
     IN  /\ EmitBody(initFn.llvm, IF faulty THEN "open" ELSE "defined", callees)
         /\ phase' = IF faulty THEN "idle" ELSE "compiled"
  /\ UNCHANGED <<module, initFn, todo, pending, history>>

\* compile() returns module_init and its type.  execute() calls it if it is an
\* f32 function, and throws otherwise.
Return ==
  /\ phase = "compiled"
  /\ phase' = "idle"
  /\ UNCHANGED <<module, initFn, llvm, todo, pending, history>>

Init ==
  /\ defs = Builtins
  /\ init = << >> /\ rettype = Void /\ initFn = NoFunction /\ llvm = << >>
  /\ phase = "idle" /\ todo = << >> /\ pending = {}
  /\ executing = FALSE /\ compiles = 0 /\ base = 0

Next ==
  \/ \E text \in SeqOf(Forms, MaxText), asExecute \in BOOLEAN : BeginTypeCheck(text, asExecute)
  \/ CheckDefn \/ CheckStatement \/ EndTypeCheck
  \/ BeginCompile
  \/ \E i \in DOMAIN defs : FirstPassSymbol(i) \/ SecondPassSymbol(i)
  \/ FirstPassInit \/ SecondPassInit \/ Return

Spec == Init /\ [][Next]_vars

-----------------------------------------------------------------------------
(* Properties.                                                              *)

Definitions == [name : Names, kind : Kinds, args : Seq(Types), ret : Types,
                calls : Seq(DOMAIN defs), fault : Faults, llvm : 0 .. Len(llvm)]
Statements  == [calls : Seq(DOMAIN defs), fault : Faults, type : Types]

TypeOK ==
  /\ defs \in Seq(Definitions)
  /\ init \in Seq(Statements) /\ rettype \in Types
  /\ initFn \in [body : Seq(Statements), ret : Types, llvm : 0 .. Len(llvm)]
  /\ llvm \in Seq([state : {"mapped", "declared", "open", "defined"},
                   calls : SUBSET (1 .. Len(llvm))])
  /\ phase \in {"idle", "check", "first", "second", "compiled"}
  /\ todo \in Seq(Forms) /\ pending \subseteq DOMAIN defs
  /\ executing \in BOOLEAN
  /\ compiles \in 0 .. MaxCompiles /\ base \in 0 .. Len(llvm)

\* A name is a variable's or some functions', never both, and a call that type
\* checks means one definition: no two functions share a name and arguments.
SignaturesUnique ==
  \A i, j \in DOMAIN defs :
    i # j /\ defs[i].name = defs[j].name =>
      IsFunction(i) /\ IsFunction(j) /\ defs[i].args # defs[j].args

\* Whatever was type checked, thrown out and compiled before, the code compile()
\* returns is whole: each value of this compile has its one finished body or its
\* address, and calls only values of this compile.
CompiledCodeIsComplete ==
  phase = "compiled" =>
    /\ initFn.llvm \in base + 1 .. Len(llvm)
    /\ \A v \in base + 1 .. Len(llvm) :
         /\ llvm[v].state \in {"mapped", "defined"}
         /\ llvm[v].calls \subseteq base + 1 .. Len(llvm)

\* compile() returns all of module_init, with the type of its last statement.
CompilesWholeProgram ==
  phase = "compiled" =>
    /\ initFn.body = init
    /\ initFn.ret = IF init = << >> THEN Void ELSE Last(init).type

\* To its callers the module is a program that grows.
Signature(i) == [name |-> defs[i].name, args |-> defs[i].args]
Known == {Signature(i) : i \in DOMAIN defs}
Uses  == UNION {{<<Signature(i), Signature(defs[i].calls[k])>> : k \in DOMAIN defs[i].calls} :
                i \in DOMAIN defs}
Program == [s \in DOMAIN init |-> {Signature(init[s].calls[k]) : k \in DOMAIN init[s].calls}]

Growth == INSTANCE ProgramGrowth
          WITH known <- Known, uses <- Uses, program <- Program,
               Given <- {[name |-> Builtins[i].name, args |-> Builtins[i].args] :
                           i \in DOMAIN Builtins}

ProgramOnlyGrows == Growth!Spec
=============================================================================
