------------------------- MODULE ModuleSession_proofs -------------------------
(***************************************************************************)
(* Proofs about ModuleSession, for every set of builtins and forms, texts  *)
(* of any length and any number of compiles: IInv (module SessionInvariant)*)
(* is shown to hold initially and to be preserved by each action, and the  *)
(* refinement of ProgramGrowth step by step.                               *)
(***************************************************************************)
EXTENDS SessionInvariant, StackLemmas

-----------------------------------------------------------------------------
(* Types.                                                                   *)

\* The records of defs, init and llvm, by the numbers of symbols and values.
DefinitionsOf(n, v) == [name : Names, kind : Kinds, args : Seq(Types), ret : Types,
                        calls : Seq(1 .. n), fault : Faults, llvm : 0 .. v]
StatementsOf(n) == [calls : Seq(1 .. n), fault : Faults, type : Types]
ValuesOf(v) == [state : {"mapped", "declared", "open", "defined"}, calls : SUBSET (1 .. v)]

\* TypeOK, with the lengths of the two tables named.
LEMMA TypeFacts ==
  ASSUME TypeOK
  PROVE  /\ Len(defs) \in Nat /\ DOMAIN defs = 1 .. Len(defs)
         /\ Len(llvm) \in Nat /\ DOMAIN llvm = 1 .. Len(llvm)
         /\ Len(init) \in Nat /\ DOMAIN init = 1 .. Len(init)
         /\ Definitions = DefinitionsOf(Len(defs), Len(llvm))
         /\ Statements = StatementsOf(Len(defs))
         /\ \A i \in DOMAIN defs : defs[i] \in Definitions
         /\ \A s \in DOMAIN init : init[s] \in Statements
         /\ \A v \in DOMAIN llvm : llvm[v] \in ValuesOf(Len(llvm))
         /\ base \in Nat /\ base <= Len(llvm)
<1>1. Len(defs) \in Nat /\ DOMAIN defs = 1 .. Len(defs)
  BY LenProperties DEF TypeOK
<1>2. Len(llvm) \in Nat /\ DOMAIN llvm = 1 .. Len(llvm)
  BY LenProperties DEF TypeOK
<1>3. Len(init) \in Nat /\ DOMAIN init = 1 .. Len(init)
  BY LenProperties DEF TypeOK
<1>4. Definitions = DefinitionsOf(Len(defs), Len(llvm)) /\ Statements = StatementsOf(Len(defs))
  BY <1>1 DEF Definitions, Statements, DefinitionsOf, StatementsOf
<1>5. \A i \in DOMAIN defs : defs[i] \in Definitions
  BY <1>1, ElementOfSeq DEF TypeOK
<1>6. \A s \in DOMAIN init : init[s] \in Statements
  BY <1>3, ElementOfSeq DEF TypeOK
<1>7. \A v \in DOMAIN llvm : llvm[v] \in ValuesOf(Len(llvm))
  BY <1>2, ElementOfSeq DEF TypeOK, ValuesOf
<1>8. base \in Nat /\ base <= Len(llvm)
  BY <1>2 DEF TypeOK
<1> QED
  BY <1>1, <1>2, <1>3, <1>4, <1>5, <1>6, <1>7, <1>8

\* What is typed stays so as the tables grow.
LEMMA TypesGrow ==
  ASSUME NEW m \in Nat, NEW n \in Nat, m <= n, NEW u \in Nat, NEW v \in Nat, u <= v
  PROVE  /\ DefinitionsOf(m, u) \subseteq DefinitionsOf(n, v)
         /\ StatementsOf(m) \subseteq StatementsOf(n)
         /\ ValuesOf(u) \subseteq ValuesOf(v)
<1>1. 1 .. m \subseteq 1 .. n /\ 0 .. u \subseteq 0 .. v /\ 1 .. u \subseteq 1 .. v
  OBVIOUS
<1>2. \A s \in Seq(1 .. m) : s \in Seq(1 .. n)
  BY <1>1, SeqMonotonic
<1>3. DefinitionsOf(m, u) \subseteq DefinitionsOf(n, v)
  BY <1>1, <1>2 DEF DefinitionsOf
<1>4. StatementsOf(m) \subseteq StatementsOf(n)
  BY <1>2 DEF StatementsOf
<1>5. ValuesOf(u) \subseteq ValuesOf(v)
  BY <1>1 DEF ValuesOf
<1> QED
  BY <1>3, <1>4, <1>5

\* Texts are sequences of forms.
LEMMA TextIsSequence ==
  ASSUME NEW text \in SeqOf(Forms, MaxText)
  PROVE  text \in Seq(Forms)
<1>1. PICK m \in 0 .. MaxText : text \in [1 .. m -> Forms]
  BY DEF SeqOf
<1>2. m \in Nat
  BY BoundsAssumption
<1> QED
  BY <1>1, <1>2

\* The rest of a text, and its first form.
LEMMA TextFacts ==
  ASSUME TypeOK, todo # << >>
  PROVE  Head(todo) \in Forms /\ Tail(todo) \in Seq(Forms)
<1>1. todo \in Seq(Forms)
  BY DEF TypeOK
<1> QED
  BY <1>1

-----------------------------------------------------------------------------
(* Overload resolution.                                                     *)

\* A call is resolved to a definition there is, or to none.
LEMMA ResolveFacts ==
  ASSUME TypeOK, NEW call, Resolve(call) # Unresolved
  PROVE  Resolve(call) \in 1 .. Len(defs)
<1> DEFINE found == FindFunction(call.name)
           matching == {i \in found : defs[i].args = call.args}
<1>1. Len(defs) \in Nat /\ DOMAIN defs = 1 .. Len(defs)
  BY TypeFacts
<1>2. found \in SUBSET (1 .. Len(defs)) /\ matching \subseteq found
  BY <1>1 DEF FindFunction
<1>3. found # {}
  BY DEF Resolve
<1>4. CASE matching # {}
  <2>1. matching \in SUBSET Nat
    BY <1>1, <1>2
  <2>2. Min(matching) \in matching
    BY <1>4, <2>1, MinFacts
  <2>3. Resolve(call) = Min(matching)
    BY <1>3, <1>4 DEF Resolve
  <2> QED
    BY <1>2, <2>2, <2>3
<1>5. CASE matching = {}
  <2>1. found \in SUBSET Nat /\ \A y \in found : y <= Len(defs)
    BY <1>1, <1>2
  <2>2. Max(found) \in found
    BY <1>1, <1>3, <2>1, MaxFacts
  <2>3. Resolve(call) = Max(found)
    BY <1>3, <1>5 DEF Resolve
  <2> QED
    BY <1>2, <2>2, <2>3
<1> QED
  BY <1>4, <1>5

\* The calls of a form that type checks are to definitions there are.
LEMMA ResolvedFacts ==
  ASSUME TypeOK, NEW form \in Forms, Checks(form)
  PROVE  ResolvedCalls(form) \in Seq(1 .. Len(defs))
<1>1. form.calls \in Seq(Call)
  BY FormsAssumption
<1>2. Len(form.calls) \in Nat /\ DOMAIN form.calls = 1 .. Len(form.calls)
  BY <1>1, LenProperties
<1>3. \A k \in 1 .. Len(form.calls) : Resolve(form.calls[k]) \in 1 .. Len(defs)
  BY <1>2, ResolveFacts DEF Checks
<1>4. ResolvedCalls(form) = [k \in 1 .. Len(form.calls) |-> Resolve(form.calls[k])]
  BY <1>2 DEF ResolvedCalls
<1> HIDE DEF ResolvedCalls
<1>5. ResolvedCalls(form) \in [1 .. Len(form.calls) -> 1 .. Len(defs)]
  BY <1>3, <1>4
<1> QED
  BY <1>2, <1>5

-----------------------------------------------------------------------------
(* The actions of type_check.                                               *)

\* A step that leaves the module and its values as they are, for a phase that
\* says nothing of them, keeps the invariant.
LEMMA ModuleKept ==
  ASSUME IInv, UNCHANGED <<module, initFn, llvm>>, phase' \in {"idle", "check"},
         todo' \in Seq(Forms), pending' = {} \/ pending' = pending, executing' \in BOOLEAN,
         compiles' = compiles, base' = base,
         CompileLeft'
  PROVE  IInv'
<1>1. Definitions' = Definitions /\ Statements' = Statements
  BY DEF Definitions, Statements, module
<1>2. TypeOK'
  <2>1. TypeOK
    BY DEF IInv
  <2> QED
    BY <1>1, <2>1 DEF TypeOK, module
<1>3. SignaturesUnique'
  BY DEF IInv, SignaturesUnique, IsFunction, module
<1>4. TypeOfInit'
  BY DEF IInv, TypeOfInit, module
<1>5. FirstPass' /\ SecondPass' /\ Compiled'
  BY DEF FirstPass, SecondPass, Compiled
<1> QED
  BY <1>2, <1>3, <1>4, <1>5 DEF IInv

LEMMA ThrowStep ==
  ASSUME IInv, Throw
  PROVE  IInv'
<1>1. TypeOK
  BY DEF IInv
<1>2. << >> \in Seq(Forms)
  BY EmptySeq
<1> QED
  BY <1>1, <1>2, ModuleKept DEF Throw, TypeOK, history, CompileLeft

LEMMA BeginTypeCheckStep ==
  ASSUME IInv, NEW text \in SeqOf(Forms, MaxText), NEW asExecute \in BOOLEAN,
         BeginTypeCheck(text, asExecute)
  PROVE  IInv'
<1>1. text \in Seq(Forms)
  BY TextIsSequence
<1>2. Len(init) \in 0 .. Len(init)
  BY TypeFacts DEF IInv
<1> QED
  BY <1>1, <1>2, ModuleKept DEF BeginTypeCheck, CompileLeft

\* A function that is defined: its name and arguments are no other's.
LEMMA DefineStep ==
  ASSUME IInv, phase = "check", phase' = phase, NEW form \in Forms, form.kind = "defn",
         Checks(form), Definable(form),
         defs' = Append(defs, Definition(form, ResolvedCalls(form))),
         todo' \in Seq(Forms), UNCHANGED <<init, rettype, initFn, llvm, pending, history>>
  PROVE  IInv'
<1> DEFINE n == Len(defs)
           new == Definition(form, ResolvedCalls(form))
<1>1. TypeOK
  BY DEF IInv
<1>2. /\ n \in Nat /\ DOMAIN defs = 1 .. n
      /\ Definitions = DefinitionsOf(n, Len(llvm)) /\ Statements = StatementsOf(n)
      /\ Len(llvm) \in Nat
  BY <1>1, TypeFacts
<1>3. /\ DefinitionsOf(n, Len(llvm)) \subseteq DefinitionsOf(n + 1, Len(llvm))
      /\ StatementsOf(n) \subseteq StatementsOf(n + 1)
  BY <1>2, TypesGrow
<1>4. new \in DefinitionsOf(n + 1, Len(llvm))
  <2>1. ResolvedCalls(form) \in Seq(1 .. n + 1)
    <3>1. ResolvedCalls(form) \in Seq(1 .. n)
      BY <1>1, ResolvedFacts
    <3>2. 1 .. n \subseteq 1 .. n + 1
      BY <1>2
    <3> QED
      BY <3>1, <3>2, SeqMonotonic
  <2>2. /\ form.name \in Names /\ form.args \in Seq(Types) /\ form.ret \in Types
        /\ form.fault \in Faults
    BY FormsAssumption
  <2> QED
    BY <1>2, <2>1, <2>2 DEF Definition, DefinitionsOf, Kinds
<1> HIDE DEF new
<1>5. defs \in Seq(DefinitionsOf(n + 1, Len(llvm)))
  BY <1>1, <1>2, <1>3, SeqMonotonic DEF TypeOK
<1>6. /\ defs' \in Seq(DefinitionsOf(n + 1, Len(llvm)))
      /\ Len(defs') = n + 1
      /\ \A i \in 1 .. n : defs'[i] = defs[i]
      /\ defs'[n + 1] = new
  BY <1>4, <1>5, AppendProperties DEF new
<1>7. DOMAIN defs' = 1 .. n + 1
  BY <1>6, LenProperties
<1>8. Definitions' = DefinitionsOf(n + 1, Len(llvm)) /\ Statements' = StatementsOf(n + 1)
  BY <1>7 DEF Definitions, Statements, DefinitionsOf, StatementsOf
<1>9. TypeOK'
  <2>1. init' \in Seq(StatementsOf(n + 1))
    BY <1>1, <1>2, <1>3, SeqMonotonic DEF TypeOK
  <2>2. initFn' \in [body : Seq(StatementsOf(n + 1)), ret : Types, llvm : 0 .. Len(llvm)]
    <3>1. \A s \in Seq(StatementsOf(n)) : s \in Seq(StatementsOf(n + 1))
      BY <1>3, SeqMonotonic
    <3>2. initFn \in [body : Seq(StatementsOf(n)), ret : Types, llvm : 0 .. Len(llvm)]
      BY <1>1, <1>2 DEF TypeOK
    <3> QED
      BY <3>1, <3>2
  <2>3. pending' \subseteq DOMAIN defs'
    BY <1>1, <1>2, <1>7 DEF TypeOK
  <2> QED
    BY <1>1, <1>6, <1>8, <2>1, <2>2, <2>3 DEF TypeOK, history
<1>10. SignaturesUnique'
  <2>1. SUFFICES ASSUME NEW i \in 1 .. n + 1, NEW j \in 1 .. n + 1, i # j,
                        defs'[i].name = defs'[j].name
                 PROVE  /\ defs'[i].kind # "variable" /\ defs'[j].kind # "variable"
                        /\ defs'[i].args # defs'[j].args
    BY <1>7 DEF SignaturesUnique, IsFunction
  <2>2. new.name = form.name /\ new.args = form.args /\ new.kind = "ast"
    BY DEF new, Definition
  <2>3. \A k \in 1 .. n : defs[k].name = form.name =>
          defs[k].kind # "variable" /\ defs[k].args # form.args
    BY <1>2 DEF Definable, IsFunction
  <2>4. CASE i \in 1 .. n /\ j \in 1 .. n
    BY <1>2, <1>6, <2>1, <2>4 DEF IInv, SignaturesUnique, IsFunction
  <2>5. CASE i = n + 1 /\ j \in 1 .. n
    BY <1>6, <2>1, <2>2, <2>3, <2>5
  <2>6. CASE i \in 1 .. n /\ j = n + 1
    BY <1>6, <2>1, <2>2, <2>3, <2>6
  <2> QED
    BY <1>2, <2>1, <2>4, <2>5, <2>6, TopOrBelow
<1>11. TypeOfInit'
  BY DEF IInv, TypeOfInit
<1>12. FirstPass' /\ SecondPass' /\ Compiled' /\ CompileLeft'
  BY DEF FirstPass, SecondPass, Compiled, IInv, CompileLeft, history
<1> QED
  BY <1>9, <1>10, <1>11, <1>12 DEF IInv

LEMMA CheckDefnStep ==
  ASSUME IInv, CheckDefn
  PROVE  IInv'
<1> DEFINE form == Head(todo)
<1>1. form \in Forms /\ Tail(todo) \in Seq(Forms)
  BY TextFacts DEF IInv, CheckDefn
<1>2. CASE Checks(form) /\ Definable(form)
  BY <1>1, <1>2, DefineStep DEF CheckDefn
<1>3. CASE ~ (Checks(form) /\ Definable(form))
  BY <1>3, ThrowStep DEF CheckDefn
<1> QED
  BY <1>2, <1>3

\* A statement that is appended to module_init, which takes its type.
LEMMA StateStep ==
  ASSUME IInv, phase = "check", phase' = phase, NEW form \in Forms, form.kind = "statement",
         Checks(form),
         init' = Append(init, [calls |-> ResolvedCalls(form), fault |-> form.fault,
                               type |-> defs[Resolve(Last(form.calls))].ret]),
         rettype' = defs[Resolve(Last(form.calls))].ret,
         todo' \in Seq(Forms), UNCHANGED <<defs, initFn, llvm, pending, history>>
  PROVE  IInv'
<1> DEFINE type == defs[Resolve(Last(form.calls))].ret
           node == [calls |-> ResolvedCalls(form), fault |-> form.fault, type |-> type]
<1>1. TypeOK
  BY DEF IInv
<1>2. /\ Len(init) \in Nat /\ DOMAIN defs = 1 .. Len(defs)
      /\ Statements = StatementsOf(Len(defs))
      /\ Definitions = DefinitionsOf(Len(defs), Len(llvm))
      /\ \A i \in DOMAIN defs : defs[i] \in Definitions
  BY <1>1, TypeFacts
<1>3. type \in Types
  <2>1. form.calls \in Seq(Call) /\ form.calls # << >>
    BY FormsAssumption
  <2>2. Len(form.calls) \in Nat \ {0} /\ DOMAIN form.calls = 1 .. Len(form.calls)
    BY <2>1, EmptySeq, LenProperties
  <2>3. Last(form.calls) = form.calls[Len(form.calls)] /\ Len(form.calls) \in DOMAIN form.calls
    BY <2>2 DEF Last
  <2>4. Resolve(Last(form.calls)) \in 1 .. Len(defs)
    BY <1>1, <2>3, ResolveFacts DEF Checks
  <2> QED
    BY <1>2, <2>4 DEF DefinitionsOf
<1>4. node \in Statements
  <2>1. ResolvedCalls(form) \in Seq(1 .. Len(defs))
    BY <1>1, ResolvedFacts
  <2>2. form.fault \in Faults
    BY FormsAssumption
  <2> QED
    BY <1>2, <1>3, <2>1, <2>2 DEF StatementsOf
<1> HIDE DEF type, node
<1>5. init' = Append(init, node) /\ rettype' = type
  BY DEF type, node
<1>6. /\ init' \in Seq(Statements) /\ init' # << >> /\ Len(init') = Len(init) + 1
      /\ init'[Len(init) + 1] = node
  BY <1>1, <1>4, <1>5, AppendProperties DEF TypeOK
<1>7. Statements' = Statements /\ Definitions' = Definitions
  BY DEF Statements, Definitions
<1>8. TypeOK'
  BY <1>1, <1>3, <1>5, <1>6, <1>7 DEF TypeOK, history
<1>9. SignaturesUnique'
  BY DEF IInv, SignaturesUnique, IsFunction
<1>10. TypeOfInit'
  <2>1. Last(init') = node /\ node.type = type
    BY <1>2, <1>6 DEF Last, node
  <2> QED
    BY <1>5, <1>6, <2>1 DEF TypeOfInit
<1>11. FirstPass' /\ SecondPass' /\ Compiled' /\ CompileLeft'
  BY DEF FirstPass, SecondPass, Compiled, IInv, CompileLeft, history
<1> QED
  BY <1>8, <1>9, <1>10, <1>11 DEF IInv

LEMMA CheckStatementStep ==
  ASSUME IInv, CheckStatement
  PROVE  IInv'
<1> DEFINE form == Head(todo)
<1>1. form \in Forms /\ Tail(todo) \in Seq(Forms)
  BY TextFacts DEF IInv, CheckStatement
<1>2. CASE Checks(form)
  BY <1>1, <1>2, StateStep DEF CheckStatement
<1>3. CASE ~ Checks(form)
  BY <1>3, ThrowStep DEF CheckStatement
<1> QED
  BY <1>2, <1>3

-----------------------------------------------------------------------------
(* The actions of compile.                                                  *)

\* A compile begins: no value is its own yet.
LEMMA CompileBegins ==
  ASSUME IInv, UNCHANGED <<module, initFn, llvm, todo>>, phase' = "first",
         pending' = DOMAIN defs, base' = Len(llvm), executing' \in BOOLEAN,
         compiles' \in 0 .. MaxCompiles
  PROVE  IInv'
<1>1. Len(llvm) \in Nat
  BY TypeFacts DEF IInv
<1>2. Definitions' = Definitions /\ Statements' = Statements
  BY DEF Definitions, Statements, module
<1>3. TypeOK'
  <2>1. TypeOK
    BY DEF IInv
  <2> QED
    BY <1>1, <1>2, <2>1 DEF TypeOK, module
<1>4. SignaturesUnique'
  BY DEF IInv, SignaturesUnique, IsFunction, module
<1>5. TypeOfInit'
  BY DEF IInv, TypeOfInit, module
<1>6. Fresh' = {} /\ (DOMAIN defs \ pending)' = {}
  BY <1>1 DEF Fresh, module
<1>7. FirstPass'
  BY <1>6 DEF FirstPass, OwnValues, CallsFresh
<1>8. SecondPass' /\ Compiled' /\ CompileLeft'
  BY DEF SecondPass, Compiled, CompileLeft
<1> QED
  BY <1>3, <1>4, <1>5, <1>7, <1>8 DEF IInv

LEMMA BeginCompileStep ==
  ASSUME IInv, BeginCompile
  PROVE  IInv'
<1>1. compiles + 1 \in 0 .. MaxCompiles
  BY BoundsAssumption DEF BeginCompile, IInv, TypeOK
<1>2. Len(init) \in 0 .. Len(init)
  BY TypeFacts DEF IInv
<1> QED
  BY <1>1, <1>2, CompileBegins DEF BeginCompile

LEMMA EndTypeCheckStep ==
  ASSUME IInv, EndTypeCheck
  PROVE  IInv'
<1>1. CASE executing
  <2>1. compiles + 1 \in 0 .. MaxCompiles
    BY <1>1, BoundsAssumption DEF EndTypeCheck, IInv, TypeOK, CompileLeft
  <2> QED
    BY <1>1, <2>1, CompileBegins DEF EndTypeCheck, IInv, TypeOK
<1>2. CASE ~ executing
  BY <1>2, ModuleKept DEF EndTypeCheck, IInv, TypeOK, CompileLeft
<1> QED
  BY <1>1, <1>2

\* A new value for symbol i.
LEMMA FirstPassStep ==
  ASSUME IInv, NEW i \in DOMAIN defs, FirstPassSymbol(i)
  PROVE  IInv'
<1> DEFINE n == Len(defs)
           m == Len(llvm)
           state == IF Mapped(i) THEN "mapped" ELSE "declared"
<1>1. CASE defs[i].fault = "first"
  BY <1>1, ThrowStep DEF FirstPassSymbol
<1>2. CASE defs[i].fault # "first"
  <2>1. TypeOK
    BY DEF IInv
  <2>2. /\ n \in Nat /\ DOMAIN defs = 1 .. n /\ m \in Nat /\ DOMAIN llvm = 1 .. m
        /\ Definitions = DefinitionsOf(n, m) /\ Statements = StatementsOf(n)
        /\ \A j \in 1 .. n : defs[j] \in DefinitionsOf(n, m)
        /\ \A v \in 1 .. m : llvm[v] \in ValuesOf(m)
        /\ base \in Nat /\ base <= m
    BY <2>1, TypeFacts
  <2>3. /\ phase = "first" /\ phase' = "first" /\ i \in pending /\ pending' = pending \ {i}
        /\ llvm' = Append(llvm, Value(state))
        /\ defs' = [defs EXCEPT ![i] = [defs[i] EXCEPT !.llvm = m + 1]]
        /\ UNCHANGED <<init, rettype, initFn, todo, history>>
    BY <1>2 DEF FirstPassSymbol, IsNext, Mapped
  <2>4. DefinitionsOf(n, m) \subseteq DefinitionsOf(n, m + 1) /\ ValuesOf(m) \subseteq ValuesOf(m + 1)
    BY <2>2, TypesGrow
  <2>5. Value(state) \in ValuesOf(m + 1)
    BY DEF Value, ValuesOf
  <2>6. llvm \in Seq(ValuesOf(m + 1))
    BY <2>1, <2>4, SeqMonotonic DEF TypeOK, ValuesOf
  <2>7. /\ llvm' \in Seq(ValuesOf(m + 1)) /\ Len(llvm') = m + 1
        /\ \A v \in 1 .. m : llvm'[v] = llvm[v]
        /\ llvm'[m + 1] = Value(state)
    BY <2>3, <2>5, <2>6, AppendProperties
  <2>8. defs \in Seq(DefinitionsOf(n, m + 1))
    BY <2>1, <2>2, <2>4, SeqMonotonic DEF TypeOK
  <2> DEFINE new == [defs[i] EXCEPT !.llvm = m + 1]
  <2>9. new \in DefinitionsOf(n, m + 1)
    <3>1. defs[i] \in DefinitionsOf(n, m + 1) /\ m + 1 \in 0 .. m + 1
      BY <2>2, <2>4
    <3> QED
      BY <3>1 DEF DefinitionsOf
  <2>10. /\ new.llvm = m + 1 /\ new.name = defs[i].name /\ new.kind = defs[i].kind
         /\ new.args = defs[i].args
    BY <2>2 DEF DefinitionsOf
  <2> HIDE DEF new
  <2>11. /\ defs' \in Seq(DefinitionsOf(n, m + 1)) /\ Len(defs') = n
         /\ \A j \in 1 .. n : defs'[j] = IF j = i THEN new ELSE defs[j]
    BY <2>2, <2>3, <2>8, <2>9, ExceptSeq DEF new
  <2>12. DOMAIN defs' = 1 .. n
    BY <2>11, LenProperties
  <2>13. \A j \in 1 .. n : /\ defs'[j].name = defs[j].name /\ defs'[j].kind = defs[j].kind
                           /\ defs'[j].args = defs[j].args
                           /\ defs'[j].llvm = IF j = i THEN m + 1 ELSE defs[j].llvm
    BY <2>10, <2>11
  <2>14. Definitions' = DefinitionsOf(n, m + 1) /\ Statements' = StatementsOf(n)
    BY <2>7, <2>12 DEF Definitions, Statements, DefinitionsOf, StatementsOf
  <2>15. TypeOK'
    <3>1. llvm' \in Seq([state : {"mapped", "declared", "open", "defined"},
                         calls : SUBSET (1 .. Len(llvm'))])
      BY <2>7 DEF ValuesOf
    <3>2. /\ initFn' \in [body : Seq(Statements'), ret : Types, llvm : 0 .. Len(llvm')]
          /\ init' \in Seq(Statements')
      <4>1. initFn \in [body : Seq(Statements), ret : Types, llvm : 0 .. m]
        BY <2>1 DEF TypeOK
      <4>2. 0 .. m \subseteq 0 .. m + 1
        BY <2>2
      <4> QED
        BY <2>1, <2>2, <2>3, <2>7, <2>14, <4>1, <4>2 DEF TypeOK
    <3>3. base' \in 0 .. Len(llvm')
      BY <2>2, <2>3, <2>7 DEF history
    <3>4. pending' \subseteq DOMAIN defs'
      BY <2>1, <2>2, <2>3, <2>12 DEF TypeOK
    <3>5. defs' \in Seq(Definitions')
      BY <2>11, <2>14
    <3> QED
      BY <2>1, <2>3, <3>1, <3>2, <3>3, <3>4, <3>5 DEF TypeOK, history
  <2>16. SignaturesUnique'
    BY <2>2, <2>12, <2>13 DEF IInv, SignaturesUnique, IsFunction
  <2>17. TypeOfInit' /\ CompileLeft'
    BY <2>3 DEF IInv, TypeOfInit, CompileLeft
  <2> DEFINE S == DOMAIN defs \ pending
  <2>18. /\ \A j \in S : defs[j].llvm \in Fresh
         /\ \A j, k \in S : defs[j].llvm = defs[k].llvm => j = k
         /\ \A v \in Fresh : \E j \in S : defs[j].llvm = v
         /\ \A j \in S : ValueOf(j, FALSE)
         /\ CallsFresh
    BY <2>3 DEF IInv, FirstPass, OwnValues
  <2>19. (DOMAIN defs \ pending)' = S \union {i} /\ i \notin S /\ i \in 1 .. n
    BY <2>2, <2>3, <2>12
  <2>20. Fresh = base + 1 .. m /\ Fresh' = Fresh \union {m + 1} /\ m + 1 \notin Fresh
    BY <2>2, <2>3, <2>7 DEF Fresh, history
  <2>21. OwnValues(DOMAIN defs \ pending, Fresh)'
    <3>1. \A j \in S \union {i} : defs'[j].llvm = IF j = i THEN m + 1 ELSE defs[j].llvm
      BY <2>2, <2>13, <2>19
    <3>2. \A j \in S \union {i} : defs'[j].llvm \in Fresh \union {m + 1}
      BY <2>18, <3>1
    <3>3. \A j, k \in S \union {i} : defs'[j].llvm = defs'[k].llvm => j = k
      BY <2>18, <2>20, <3>1
    <3>4. \A v \in Fresh \union {m + 1} : \E j \in S \union {i} : defs'[j].llvm = v
      <4> TAKE v \in Fresh \union {m + 1}
      <4>1. CASE v = m + 1
        BY <3>1, <4>1
      <4>2. CASE v \in Fresh
        <5>1. PICK j \in S : defs[j].llvm = v
          BY <2>18, <4>2
        <5> QED
          BY <2>19, <3>1, <5>1
      <4> QED
        BY <4>1, <4>2
    <3> QED
      BY <2>19, <2>20, <3>2, <3>3, <3>4 DEF OwnValues
  <2>22. \A j \in S \union {i} : ValueOf(j, FALSE)'
    <3> TAKE j \in S \union {i}
    <3>1. CASE j = i
      <4>1. llvm'[defs'[i].llvm].state = state /\ defs'[i].kind = defs[i].kind
        BY <2>2, <2>7, <2>13 DEF Value
      <4> QED
        BY <3>1, <4>1 DEF ValueOf, Mapped
    <3>2. CASE j # i
      <4>1. j \in S /\ defs[j].llvm \in 1 .. m
        BY <2>2, <2>18, <2>20, <3>2
      <4>2. llvm'[defs'[j].llvm] = llvm[defs[j].llvm] /\ defs'[j].kind = defs[j].kind
        BY <2>2, <2>7, <2>13, <3>2, <4>1
      <4> QED
        BY <2>18, <4>1, <4>2 DEF ValueOf, Mapped
    <3> QED
      BY <3>1, <3>2
  <2>23. CallsFresh'
    <3>1. \A v \in Fresh : llvm'[v].calls \subseteq Fresh
      BY <2>2, <2>7, <2>18, <2>20 DEF CallsFresh
    <3>2. llvm'[m + 1].calls = {}
      BY <2>7 DEF Value
    <3> QED
      BY <2>20, <3>1, <3>2 DEF CallsFresh
  <2>24. FirstPass'
    BY <2>19, <2>21, <2>22, <2>23 DEF FirstPass
  <2>25. SecondPass' /\ Compiled'
    BY <2>3 DEF SecondPass, Compiled
  <2> QED
    BY <2>15, <2>16, <2>17, <2>24, <2>25 DEF IInv
<1> QED
  BY <1>1, <1>2

\* A new module_init: every symbol has its value.
LEMMA FirstPassInitStep ==
  ASSUME IInv, FirstPassInit
  PROVE  IInv'
<1> DEFINE n == Len(defs)
           m == Len(llvm)
<1>1. TypeOK
  BY DEF IInv
<1>2. /\ n \in Nat /\ DOMAIN defs = 1 .. n /\ m \in Nat /\ DOMAIN llvm = 1 .. m
      /\ Definitions = DefinitionsOf(n, m) /\ Statements = StatementsOf(n)
      /\ \A v \in 1 .. m : llvm[v] \in ValuesOf(m)
      /\ base \in Nat /\ base <= m
  BY <1>1, TypeFacts
<1>3. /\ phase = "first" /\ phase' = "second" /\ pending = {} /\ pending' = DOMAIN defs
      /\ initFn' = [body |-> init, ret |-> rettype, llvm |-> m + 1]
      /\ llvm' = Append(llvm, Value("declared"))
      /\ UNCHANGED <<module, todo, history>>
  BY DEF FirstPassInit
<1>4. DefinitionsOf(n, m) \subseteq DefinitionsOf(n, m + 1) /\ ValuesOf(m) \subseteq ValuesOf(m + 1)
  BY <1>2, TypesGrow
<1>5. /\ llvm' \in Seq(ValuesOf(m + 1)) /\ Len(llvm') = m + 1
      /\ \A v \in 1 .. m : llvm'[v] = llvm[v]
      /\ llvm'[m + 1] = Value("declared")
  <2>1. Value("declared") \in ValuesOf(m + 1)
    BY DEF Value, ValuesOf
  <2>2. llvm \in Seq(ValuesOf(m + 1))
    BY <1>1, <1>4, SeqMonotonic DEF TypeOK, ValuesOf
  <2> QED
    BY <1>3, <2>1, <2>2, AppendProperties
<1>6. Definitions' = DefinitionsOf(n, m + 1) /\ Statements' = Statements
  BY <1>2, <1>3, <1>5 DEF Definitions, Statements, DefinitionsOf, module
<1>7. TypeOK'
  <2>1. defs' \in Seq(Definitions')
    BY <1>1, <1>2, <1>3, <1>4, <1>6, SeqMonotonic DEF TypeOK, module
  <2>2. llvm' \in Seq([state : {"mapped", "declared", "open", "defined"},
                       calls : SUBSET (1 .. Len(llvm'))])
    BY <1>5 DEF ValuesOf
  <2>3. initFn' \in [body : Seq(Statements'), ret : Types, llvm : 0 .. Len(llvm')]
    BY <1>1, <1>2, <1>3, <1>5, <1>6 DEF TypeOK
  <2>4. base' \in 0 .. Len(llvm')
    BY <1>2, <1>3, <1>5 DEF history
  <2> QED
    BY <1>1, <1>3, <1>6, <2>1, <2>2, <2>3, <2>4 DEF TypeOK, module, history
<1>8. SignaturesUnique' /\ TypeOfInit' /\ CompileLeft'
  BY <1>3 DEF IInv, SignaturesUnique, IsFunction, TypeOfInit, CompileLeft, module
<1>9. /\ OwnValues(DOMAIN defs, Fresh)
      /\ \A i \in DOMAIN defs : ValueOf(i, FALSE)
      /\ CallsFresh
  <2>1. DOMAIN defs \ pending = DOMAIN defs
    BY <1>3
  <2> QED
    BY <1>3, <2>1 DEF IInv, FirstPass
<1>10. Fresh = base + 1 .. m /\ Fresh' = Fresh \union {m + 1} /\ m + 1 \notin Fresh
  BY <1>2, <1>3, <1>5 DEF Fresh, history
<1>11. InitIsProgram' /\ llvm'[initFn'.llvm].state = "declared"
  BY <1>2, <1>3, <1>5 DEF InitIsProgram, module, history, Value
<1>12. OwnValues(DOMAIN defs, Fresh \ {initFn.llvm})'
  <2>1. (Fresh \ {initFn.llvm})' = Fresh /\ defs' = defs
    BY <1>3, <1>10 DEF module
  <2> QED
    BY <1>9, <2>1 DEF OwnValues
<1>13. \A i \in DOMAIN defs : ValueOf(i, FALSE)'
  <2> TAKE i \in DOMAIN defs
  <2>1. defs[i].llvm \in 1 .. m
    BY <1>2, <1>9, <1>10 DEF OwnValues
  <2>2. llvm'[defs[i].llvm] = llvm[defs[i].llvm]
    BY <1>5, <2>1
  <2> QED
    BY <1>3, <1>9, <2>2 DEF ValueOf, Mapped, module
<1>14. CallsFresh'
  <2>1. \A v \in Fresh : llvm'[v].calls \subseteq Fresh
    BY <1>2, <1>5, <1>9, <1>10 DEF CallsFresh
  <2>2. llvm'[m + 1].calls = {}
    BY <1>5 DEF Value
  <2> QED
    BY <1>10, <2>1, <2>2 DEF CallsFresh
<1>15. \A i \in DOMAIN defs' : ValueOf(i, i \notin pending)'
  BY <1>3, <1>13 DEF ValueOf, module
<1>16. FirstPass' /\ SecondPass' /\ Compiled'
  BY <1>3, <1>11, <1>12, <1>14, <1>15 DEF FirstPass, SecondPass, Compiled
<1> QED
  BY <1>7, <1>8, <1>16 DEF IInv

\* A body goes into a declared value: the others stay, and so do the types.
LEMMA EmitFacts ==
  ASSUME TypeOK, NEW v \in 1 .. Len(llvm), llvm[v].state = "declared",
         NEW state \in {"open", "defined"}, NEW C \in SUBSET (1 .. Len(llvm)),
         EmitBody(v, state, C), UNCHANGED module
  PROVE  /\ Len(llvm') = Len(llvm)
         /\ \A w \in 1 .. Len(llvm) :
              llvm'[w] = IF w = v THEN [state |-> state, calls |-> C] ELSE llvm[w]
         /\ llvm' \in Seq([state : {"mapped", "declared", "open", "defined"},
                           calls : SUBSET (1 .. Len(llvm'))])
         /\ Definitions' = Definitions /\ Statements' = Statements
<1> DEFINE m == Len(llvm)
           new == [state |-> state, calls |-> C]
<1>1. llvm \in Seq(ValuesOf(m)) /\ m \in Nat /\ DOMAIN llvm = 1 .. m
  BY TypeFacts DEF TypeOK, ValuesOf
<1>2. new \in ValuesOf(m)
  BY DEF ValuesOf
<1>3. llvm' = [llvm EXCEPT ![v] = new]
  BY <1>1 DEF EmitBody
<1> HIDE DEF new
<1>4. /\ llvm' \in Seq(ValuesOf(m)) /\ Len(llvm') = m
      /\ \A w \in 1 .. m : llvm'[w] = IF w = v THEN new ELSE llvm[w]
  BY <1>1, <1>2, <1>3, ExceptSeq
<1>5. Definitions' = Definitions /\ Statements' = Statements
  BY <1>4 DEF Definitions, Statements, module
<1> QED
  BY <1>4, <1>5 DEF ValuesOf, new

\* The values a body of resolved calls refers to are of this compile.
LEMMA CalleesFresh ==
  ASSUME IInv, phase = "second", NEW calls \in Seq(1 .. Len(defs))
  PROVE  Callees(calls) \subseteq Fresh
<1>1. \A k \in DOMAIN calls : calls[k] \in 1 .. Len(defs)
  BY LenProperties, ElementOfSeq
<1>2. DOMAIN defs = 1 .. Len(defs)
  BY TypeFacts DEF IInv
<1>3. \A i \in DOMAIN defs : defs[i].llvm \in Fresh
  BY DEF IInv, SecondPass, OwnValues
<1> QED
  BY <1>1, <1>2, <1>3 DEF Callees

\* A symbol that is not to be filled in.
LEMMA SecondPassSkips ==
  ASSUME IInv, NEW i \in DOMAIN defs, phase = "second", Mapped(i),
         pending' = pending \ {i}, UNCHANGED <<llvm, phase, todo, module, initFn, history>>
  PROVE  IInv'
<1>1. TypeOK'
  <2>1. Definitions' = Definitions /\ Statements' = Statements
    BY DEF Definitions, Statements, module
  <2> QED
    BY <2>1 DEF IInv, TypeOK, module, history
<1>2. SignaturesUnique' /\ TypeOfInit' /\ CompileLeft'
  BY DEF IInv, SignaturesUnique, IsFunction, TypeOfInit, CompileLeft, module, history
<1>3. SecondPass'
  <2>1. \A j \in DOMAIN defs : ValueOf(j, j \notin pending')
    BY DEF IInv, SecondPass, ValueOf
  <2>2. Fresh' = Fresh
    BY DEF Fresh, history
  <2> QED
    BY <2>1, <2>2 DEF IInv, SecondPass, InitIsProgram, OwnValues, CallsFresh, ValueOf, Mapped,
                      module, history
<1>4. FirstPass' /\ Compiled'
  BY DEF FirstPass, Compiled
<1> QED
  BY <1>1, <1>2, <1>3, <1>4 DEF IInv

\* A symbol whose body is finished.
LEMMA SecondPassDefines ==
  ASSUME IInv, NEW i \in DOMAIN defs, phase = "second", i \in pending, ~ Mapped(i),
         NEW C \in SUBSET Fresh, EmitBody(defs[i].llvm, "defined", C),
         pending' = pending \ {i}, UNCHANGED <<phase, todo, module, initFn, history>>
  PROVE  IInv'
<1> DEFINE v == defs[i].llvm
           m == Len(llvm)
<1>1. TypeOK
  BY DEF IInv
<1>2. /\ InitIsProgram
      /\ llvm[initFn.llvm].state = "declared"
      /\ OwnValues(DOMAIN defs, Fresh \ {initFn.llvm})
      /\ \A j \in DOMAIN defs : ValueOf(j, j \notin pending)
      /\ CallsFresh
  BY DEF IInv, SecondPass
<1>3. m \in Nat /\ base \in Nat /\ Fresh = base + 1 .. m /\ Fresh \subseteq 1 .. m
  BY <1>1, TypeFacts DEF Fresh
<1>4. v \in 1 .. m /\ v \in Fresh /\ v # initFn.llvm /\ llvm[v].state = "declared"
  BY <1>2, <1>3 DEF OwnValues, ValueOf
<1>5. C \in SUBSET (1 .. m)
  BY <1>3
<1>6. /\ Len(llvm') = m
      /\ \A w \in 1 .. m : llvm'[w] = IF w = v THEN [state |-> "defined", calls |-> C] ELSE llvm[w]
      /\ llvm' \in Seq([state : {"mapped", "declared", "open", "defined"},
                        calls : SUBSET (1 .. Len(llvm'))])
      /\ Definitions' = Definitions /\ Statements' = Statements
  BY <1>1, <1>4, <1>5, EmitFacts
<1>7. TypeOK'
  BY <1>1, <1>6 DEF TypeOK, module, history
<1>8. SignaturesUnique' /\ TypeOfInit' /\ CompileLeft'
  BY DEF IInv, SignaturesUnique, IsFunction, TypeOfInit, CompileLeft, module, history
<1>9. Fresh' = Fresh
  BY <1>6 DEF Fresh, history
<1>10. InitIsProgram' /\ llvm'[initFn.llvm].state = "declared"
  <2>1. initFn.llvm \in 1 .. m
    BY <1>2, <1>3 DEF InitIsProgram
  <2> QED
    BY <1>2, <1>4, <1>6, <2>1 DEF InitIsProgram, module, history
<1>11. OwnValues(DOMAIN defs, Fresh \ {initFn.llvm})'
  BY <1>2, <1>9 DEF OwnValues, module
<1>12. \A j \in DOMAIN defs : ValueOf(j, j \notin pending)'
  <2> TAKE j \in DOMAIN defs
  <2>1. CASE j = i
    <3>1. llvm'[v].state = "defined"
      BY <1>4, <1>6
    <3> QED
      BY <2>1, <3>1 DEF ValueOf, Mapped, module
  <2>2. CASE j # i
    <3>1. defs[j].llvm \in 1 .. m /\ defs[j].llvm # v
      BY <1>2, <1>3, <2>2 DEF OwnValues
    <3>2. llvm'[defs[j].llvm] = llvm[defs[j].llvm]
      BY <1>6, <3>1
    <3>3. j \notin pending' <=> j \notin pending
      BY <2>2
    <3> QED
      BY <1>2, <3>2, <3>3 DEF ValueOf, Mapped, module
  <2> QED
    BY <2>1, <2>2
<1>13. CallsFresh'
  <2>1. \A w \in Fresh : llvm'[w].calls \subseteq Fresh
    BY <1>2, <1>3, <1>6 DEF CallsFresh
  <2> QED
    BY <1>9, <2>1 DEF CallsFresh
<1>14. FirstPass' /\ SecondPass' /\ Compiled'
  <2>1. DOMAIN defs' = DOMAIN defs /\ initFn' = initFn
    BY DEF module
  <2> QED
    BY <1>10, <1>11, <1>12, <1>13, <2>1 DEF FirstPass, SecondPass, Compiled
<1> QED
  BY <1>7, <1>8, <1>14 DEF IInv

\* A body that throws: its value is left open, and no compile is under way.
LEMMA SecondPassThrows ==
  ASSUME IInv, NEW v \in 1 .. Len(llvm), llvm[v].state = "declared",
         NEW C \in SUBSET (1 .. Len(llvm)), EmitBody(v, "open", C),
         phase' = "idle", todo' \in Seq(Forms), pending' \subseteq DOMAIN defs,
         UNCHANGED <<module, initFn, history>>
  PROVE  IInv'
<1>1. TypeOK
  BY DEF IInv
<1>2. /\ Len(llvm') = Len(llvm)
      /\ llvm' \in Seq([state : {"mapped", "declared", "open", "defined"},
                        calls : SUBSET (1 .. Len(llvm'))])
      /\ Definitions' = Definitions /\ Statements' = Statements
  BY <1>1, EmitFacts
<1>3. TypeOK'
  BY <1>1, <1>2 DEF TypeOK, module, history
<1>4. SignaturesUnique' /\ TypeOfInit' /\ CompileLeft'
  BY DEF IInv, SignaturesUnique, IsFunction, TypeOfInit, CompileLeft, module
<1>5. FirstPass' /\ SecondPass' /\ Compiled'
  BY DEF FirstPass, SecondPass, Compiled
<1> QED
  BY <1>3, <1>4, <1>5 DEF IInv

LEMMA SecondPassStep ==
  ASSUME IInv, NEW i \in DOMAIN defs, SecondPassSymbol(i)
  PROVE  IInv'
<1>1. /\ phase = "second" /\ i \in pending /\ DOMAIN defs = 1 .. Len(defs)
      /\ Len(llvm) \in Nat /\ base \in Nat /\ UNCHANGED <<module, initFn, history>>
      /\ defs[i].calls \in Seq(1 .. Len(defs)) /\ defs[i].kind \in Kinds
  BY TypeFacts DEF IInv, SecondPassSymbol, IsNext, DefinitionsOf
<1>2. Callees(defs[i].calls) \in SUBSET Fresh /\ Fresh \subseteq 1 .. Len(llvm)
  BY <1>1, CalleesFresh DEF Fresh
<1>3. CASE Mapped(i)
  BY <1>1, <1>3, SecondPassSkips DEF SecondPassSymbol, Mapped
<1>4. CASE defs[i].kind = "override"
  <2>1. EmitBody(defs[i].llvm, "defined", {}) /\ pending' = pending \ {i} /\ UNCHANGED <<phase, todo>>
    BY <1>4 DEF SecondPassSymbol
  <2>2. {} \in SUBSET Fresh
    OBVIOUS
  <2> QED
    BY <1>1, <1>4, <2>1, <2>2, SecondPassDefines DEF Mapped
<1>5. CASE defs[i].kind = "ast" /\ defs[i].fault = "none"
  BY <1>1, <1>2, <1>5, SecondPassDefines DEF SecondPassSymbol, Mapped
<1>6. CASE defs[i].kind = "ast" /\ defs[i].fault # "none"
  <2>1. /\ EmitBody(defs[i].llvm, "open", Callees(defs[i].calls))
        /\ phase' = "idle" /\ todo' = << >> /\ pending' = {}
    BY <1>6 DEF SecondPassSymbol
  <2>2. defs[i].llvm \in 1 .. Len(llvm) /\ llvm[defs[i].llvm].state = "declared"
    BY <1>1, <1>2, <1>6 DEF IInv, SecondPass, OwnValues, ValueOf, Mapped
  <2>3. << >> \in Seq(Forms)
    BY EmptySeq
  <2> QED
    BY <1>1, <1>2, <2>1, <2>2, <2>3, SecondPassThrows
<1> QED
  BY <1>1, <1>3, <1>4, <1>5, <1>6 DEF Kinds, Mapped

\* module_init is compiled last: with it the code is whole.
LEMMA SecondPassInitStep ==
  ASSUME IInv, SecondPassInit
  PROVE  IInv'
<1> DEFINE v == initFn.llvm
           m == Len(llvm)
           C == UNION {Callees(initFn.body[k].calls) : k \in DOMAIN initFn.body}
           faulty == \E k \in DOMAIN initFn.body : initFn.body[k].fault # "none"
<1>1. TypeOK
  BY DEF IInv
<1>2. /\ phase = "second" /\ pending = {} /\ pending' = {} /\ todo' = todo
      /\ EmitBody(v, IF faulty THEN "open" ELSE "defined", C)
      /\ phase' = IF faulty THEN "idle" ELSE "compiled"
      /\ UNCHANGED <<module, initFn, history>>
  BY DEF SecondPassInit
<1>3. /\ InitIsProgram /\ llvm[v].state = "declared"
      /\ OwnValues(DOMAIN defs, Fresh \ {v})
      /\ \A j \in DOMAIN defs : ValueOf(j, TRUE)
      /\ CallsFresh
  BY <1>2 DEF IInv, SecondPass
<1>4. m \in Nat /\ base \in Nat /\ Fresh = base + 1 .. m /\ v = m /\ v \in Fresh /\ Fresh \subseteq 1 .. m
  BY <1>1, <1>3, TypeFacts DEF Fresh, InitIsProgram
<1>5. C \in SUBSET Fresh
  <2>1. /\ DOMAIN init = 1 .. Len(init) /\ Statements = StatementsOf(Len(defs))
        /\ \A k \in DOMAIN init : init[k] \in Statements
    BY <1>1, TypeFacts
  <2>2. \A k \in DOMAIN init : Callees(init[k].calls) \subseteq Fresh
    BY <1>2, <2>1, CalleesFresh DEF StatementsOf
  <2> QED
    BY <1>3, <2>2 DEF InitIsProgram
<1> HIDE DEF C
<1>6. CASE faulty
  BY <1>1, <1>2, <1>3, <1>4, <1>5, <1>6, SecondPassThrows DEF TypeOK
<1>7. CASE ~ faulty
  <2>1. /\ Len(llvm') = m
        /\ \A w \in 1 .. m : llvm'[w] = IF w = v THEN [state |-> "defined", calls |-> C] ELSE llvm[w]
        /\ llvm' \in Seq([state : {"mapped", "declared", "open", "defined"},
                          calls : SUBSET (1 .. Len(llvm'))])
        /\ Definitions' = Definitions /\ Statements' = Statements
    <3>1. C \in SUBSET (1 .. m) /\ v \in 1 .. m
      BY <1>4, <1>5
    <3> QED
      BY <1>1, <1>2, <1>3, <1>7, <3>1, EmitFacts
  <2>2. TypeOK'
    BY <1>1, <1>2, <1>7, <2>1 DEF TypeOK, module, history
  <2>3. SignaturesUnique' /\ TypeOfInit' /\ CompileLeft'
    BY <1>2, <1>7 DEF IInv, SignaturesUnique, IsFunction, TypeOfInit, CompileLeft, module
  <2>4. Fresh' = Fresh
    BY <1>2, <2>1 DEF Fresh, history
  <2>5. \A w \in Fresh : llvm'[w].state \in {"mapped", "defined"}
    <3> TAKE w \in Fresh
    <3>1. CASE w = v
      BY <1>4, <2>1, <3>1
    <3>2. CASE w # v
      <4>1. PICK j \in DOMAIN defs : defs[j].llvm = w
        BY <1>3, <3>2 DEF OwnValues
      <4>2. llvm[w].state \in {"mapped", "defined"}
        BY <1>3, <4>1 DEF ValueOf
      <4> QED
        BY <1>4, <2>1, <3>2, <4>2
    <3> QED
      BY <3>1, <3>2
  <2>6. \A w \in Fresh : llvm'[w].calls \subseteq Fresh
    BY <1>3, <1>4, <1>5, <2>1 DEF CallsFresh
  <2>7. CompiledCodeIsComplete'
    <3>1. base + 1 .. m = Fresh
      BY <1>4
    <3> QED
      BY <1>2, <1>4, <2>1, <2>5, <2>6, <3>1 DEF CompiledCodeIsComplete, history
  <2>8. InitIsProgram'
    BY <1>2, <1>3, <2>1 DEF InitIsProgram, module, history
  <2>9. FirstPass' /\ SecondPass' /\ Compiled'
    BY <1>2, <1>7, <2>7, <2>8 DEF FirstPass, SecondPass, Compiled
  <2> QED
    BY <2>2, <2>3, <2>9 DEF IInv
<1> QED
  BY <1>6, <1>7

LEMMA ReturnStep ==
  ASSUME IInv, Return
  PROVE  IInv'
<1>1. TypeOK
  BY DEF IInv
<1> QED
  BY <1>1, ModuleKept DEF Return, TypeOK, history, CompileLeft

-----------------------------------------------------------------------------
(* The invariant.                                                           *)

LEMMA InitIInv ==
  ASSUME Init
  PROVE  IInv
<1>1. /\ defs = Builtins /\ init = << >> /\ llvm = << >> /\ rettype = Void
      /\ initFn = NoFunction /\ phase = "idle" /\ todo = << >> /\ pending = {}
      /\ executing = FALSE /\ compiles = 0 /\ base = 0
  BY DEF Init
<1> DEFINE n == Len(Builtins)
<1>2. n \in Nat /\ DOMAIN Builtins = 1 .. n
  BY BuiltinsAssumption, LenProperties
<1>3. << >> \in Seq(1 .. n) /\ << >> \in Seq(StatementsOf(n)) /\ << >> \in Seq(Forms)
      /\ << >> \in Seq(ValuesOf(0)) /\ Len(<< >>) = 0
  BY EmptySeq
<1>4. Definitions = DefinitionsOf(n, 0) /\ Statements = StatementsOf(n)
  BY <1>1, <1>2, <1>3 DEF Definitions, Statements, DefinitionsOf, StatementsOf
<1>5. [name : Names, kind : Kinds \ {"ast"}, args : Seq(Types), ret : Types,
       calls : {<< >>}, fault : {"none"}, llvm : {0}] \subseteq DefinitionsOf(n, 0)
  <2>1. /\ Kinds \ {"ast"} \subseteq Kinds /\ {<< >>} \subseteq Seq(1 .. n)
        /\ {"none"} \subseteq Faults /\ {0} \subseteq 0 .. 0
    BY <1>3 DEF Faults
  <2> QED
    BY <2>1 DEF DefinitionsOf
<1>6. defs \in Seq(DefinitionsOf(n, 0))
  BY <1>1, <1>5, BuiltinsAssumption, SeqMonotonic
<1>7. TypeOK
  <2>1. llvm \in Seq([state : {"mapped", "declared", "open", "defined"}, calls : SUBSET (1 .. Len(llvm))])
    BY <1>1, <1>3 DEF ValuesOf
  <2>2. initFn \in [body : Seq(Statements), ret : Types, llvm : 0 .. Len(llvm)]
    BY <1>1, <1>3, <1>4, TypesAssumption DEF NoFunction
  <2>3. compiles \in 0 .. MaxCompiles
    BY <1>1, BoundsAssumption
  <2>4. /\ pending \subseteq DOMAIN defs /\ executing \in BOOLEAN /\ todo \in Seq(Forms)
        /\ rettype \in Types /\ phase \in {"idle", "check", "first", "second", "compiled"}
    BY <1>1, <1>3, TypesAssumption
  <2>6. base \in 0 .. Len(llvm)
    <3>1. Len(llvm) = 0 /\ base = 0
      BY <1>1, <1>3
    <3> QED
      BY <3>1
  <2>5. init \in Seq(Statements) /\ defs \in Seq(Definitions)
    BY <1>1, <1>3, <1>4, <1>6
  <2> QED
    BY <2>1, <2>2, <2>3, <2>4, <2>5, <2>6 DEF TypeOK
<1>8. SignaturesUnique
  BY <1>1, BuiltinsAssumption DEF SignaturesUnique, IsFunction
<1> QED
  BY <1>1, <1>7, <1>8 DEF IInv, TypeOfInit, CompileLeft, FirstPass, SecondPass, Compiled

LEMMA Stuttering ==
  ASSUME IInv, UNCHANGED vars
  PROVE  IInv'
<1>1. /\ UNCHANGED <<defs, init, rettype, initFn, llvm, phase, todo, pending>>
      /\ UNCHANGED <<executing, compiles, base>>
  BY DEF vars, module, progress, history
<1>2. Definitions' = Definitions /\ Statements' = Statements
  BY <1>1 DEF Definitions, Statements
<1>3. TypeOK'
  BY <1>1, <1>2 DEF IInv, TypeOK
<1>4. SignaturesUnique' /\ TypeOfInit' /\ CompileLeft'
  BY <1>1 DEF IInv, SignaturesUnique, IsFunction, TypeOfInit, CompileLeft
<1>5. FirstPass' /\ SecondPass' /\ Compiled'
  BY <1>1 DEF IInv, FirstPass, SecondPass, Compiled, OwnValues, ValueOf, Mapped, CallsFresh, Fresh,
              InitIsProgram, CompiledCodeIsComplete
<1> QED
  BY <1>3, <1>4, <1>5 DEF IInv

\* The symbol table, the statements and the values of the current compile keep
\* in step, whatever is called and whatever throws.
THEOREM SessionInvariance == Spec => []IInv
<1>1. Init => IInv
  BY InitIInv
<1>2. IInv /\ [Next]_vars => IInv'
  <2> SUFFICES ASSUME IInv, [Next]_vars PROVE IInv'
    OBVIOUS
  <2>1. ASSUME NEW text \in SeqOf(Forms, MaxText), NEW asExecute \in BOOLEAN,
               BeginTypeCheck(text, asExecute)
        PROVE  IInv'
    BY <2>1, BeginTypeCheckStep
  <2>2. CASE CheckDefn
    BY <2>2, CheckDefnStep
  <2>3. CASE CheckStatement
    BY <2>3, CheckStatementStep
  <2>4. CASE EndTypeCheck
    BY <2>4, EndTypeCheckStep
  <2>5. CASE BeginCompile
    BY <2>5, BeginCompileStep
  <2>6. ASSUME NEW i \in DOMAIN defs, FirstPassSymbol(i) PROVE IInv'
    BY <2>6, FirstPassStep
  <2>7. ASSUME NEW i \in DOMAIN defs, SecondPassSymbol(i) PROVE IInv'
    BY <2>7, SecondPassStep
  <2>8. CASE FirstPassInit
    BY <2>8, FirstPassInitStep
  <2>9. CASE SecondPassInit
    BY <2>9, SecondPassInitStep
  <2>10. CASE Return
    BY <2>10, ReturnStep
  <2>11. CASE UNCHANGED vars
    BY <2>11, Stuttering
  <2> QED
    BY <2>1, <2>2, <2>3, <2>4, <2>5, <2>6, <2>7, <2>8, <2>9, <2>10, <2>11 DEF Next
<1> QED
  BY <1>1, <1>2, PTL DEF Spec

\* The members of module_impl always have their types; in particular no value is
\* ever given a second body.
THEOREM SessionTypes == Spec => []TypeOK
<1>1. IInv => TypeOK
  BY DEF IInv
<1> QED
  BY <1>1, SessionInvariance, PTL

\* define_function never leaves two functions of one signature, nor a function
\* with the name of a variable.
THEOREM SignaturesStayUnique == Spec => []SignaturesUnique
<1>1. IInv => SignaturesUnique
  BY DEF IInv
<1> QED
  BY <1>1, SessionInvariance, PTL

\* What compile() returns is finished, and calls nothing of an earlier compile.
THEOREM CodeAlwaysComplete == Spec => []CompiledCodeIsComplete
<1>1. IInv => CompiledCodeIsComplete
  BY DEF IInv, Compiled, CompiledCodeIsComplete
<1> QED
  BY <1>1, SessionInvariance, PTL

\* What compile() returns runs every statement so far, and has the last one's type.
THEOREM WholeProgramCompiled == Spec => []CompilesWholeProgram
<1>1. IInv => CompilesWholeProgram
  BY DEF IInv, Compiled, InitIsProgram, TypeOfInit, CompilesWholeProgram
<1> QED
  BY <1>1, SessionInvariance, PTL

-----------------------------------------------------------------------------
(* The program grows.                                                       *)

\* Calls are to symbols of the module.
LEMMA CallsKnown ==
  ASSUME TypeOK
  PROVE  /\ \A i \in DOMAIN defs : \A k \in DOMAIN defs[i].calls : defs[i].calls[k] \in DOMAIN defs
         /\ \A s \in DOMAIN init : \A k \in DOMAIN init[s].calls : init[s].calls[k] \in DOMAIN defs
<1>1. /\ DOMAIN defs = 1 .. Len(defs)
      /\ Definitions = DefinitionsOf(Len(defs), Len(llvm)) /\ Statements = StatementsOf(Len(defs))
      /\ \A i \in DOMAIN defs : defs[i] \in Definitions
      /\ \A s \in DOMAIN init : init[s] \in Statements
  BY TypeFacts
<1>2. \A calls \in Seq(1 .. Len(defs)) : \A k \in DOMAIN calls : calls[k] \in 1 .. Len(defs)
  BY LenProperties, ElementOfSeq
<1> QED
  BY <1>1, <1>2 DEF DefinitionsOf, StatementsOf

\* A step that changes no name, argument or call does not change the program.
LEMMA ProgramKept ==
  ASSUME TypeOK, DOMAIN defs' = DOMAIN defs, init' = init,
         \A i \in DOMAIN defs : /\ defs'[i].name = defs[i].name /\ defs'[i].args = defs[i].args
                                /\ defs'[i].calls = defs[i].calls
  PROVE  UNCHANGED Growth!vars
<1>1. \A i \in DOMAIN defs : Signature(i)' = Signature(i)
  BY DEF Signature
<1>2. Known' = Known
  BY <1>1 DEF Known
<1>3. Uses' = Uses
  BY <1>1, CallsKnown DEF Uses
<1>4. Program' = Program
  BY <1>1, CallsKnown DEF Program
<1> QED
  BY <1>2, <1>3, <1>4 DEF Growth!vars

\* The first pass changes the values of symbols and nothing else.
LEMMA FirstPassKeeps ==
  ASSUME TypeOK, NEW i \in DOMAIN defs, FirstPassSymbol(i)
  PROVE  UNCHANGED Growth!vars
<1> DEFINE n == Len(defs)
           new == [defs[i] EXCEPT !.llvm = Len(llvm) + 1]
<1>1. CASE defs[i].fault = "first"
  BY <1>1, ProgramKept DEF FirstPassSymbol, Throw, module
<1>2. CASE defs[i].fault # "first"
  <2>1. defs' = [defs EXCEPT ![i] = new] /\ init' = init
    BY <1>2 DEF FirstPassSymbol
  <2>2. i \in 1 .. n /\ DOMAIN defs = 1 .. n /\ defs[i] \in DefinitionsOf(n, Len(llvm))
    BY TypeFacts
  <2>3. /\ new.name = defs[i].name /\ new.args = defs[i].args /\ new.calls = defs[i].calls
    BY <2>2 DEF DefinitionsOf
  <2> HIDE DEF new
  <2>4. DOMAIN defs' = DOMAIN defs /\ \A j \in DOMAIN defs : defs'[j] = IF j = i THEN new ELSE defs[j]
    BY <2>1, <2>2
  <2> QED
    BY <2>1, <2>3, <2>4, ProgramKept
<1> QED
  BY <1>1, <1>2

\* A definition adds one signature, and what its body calls was known.
LEMMA CheckDefnGrows ==
  ASSUME IInv, CheckDefn
  PROVE  Growth!Define \/ UNCHANGED Growth!vars
<1> DEFINE form == Head(todo)
           new == Definition(form, ResolvedCalls(form))
           s == [name |-> form.name, args |-> form.args]
<1>1. TypeOK
  BY DEF IInv
<1>2. PICK n \in Nat : n = Len(defs)
  BY <1>1, TypeFacts
<1>3. CASE ~ (Checks(form) /\ Definable(form))
  BY <1>1, <1>3, ProgramKept DEF CheckDefn, Throw, module
<1>4. CASE Checks(form) /\ Definable(form)
  <2>1. defs' = Append(defs, new) /\ init' = init
    BY <1>4 DEF CheckDefn
  <2>2. n \in Nat /\ DOMAIN defs = 1 .. n /\ n + 1 \notin 1 .. n
    BY <1>1, <1>2, TypeFacts
  <2>3. form \in Forms
    BY <1>1, TextFacts DEF CheckDefn
  <2>4. new.name = form.name /\ new.args = form.args /\ new.calls = ResolvedCalls(form)
    BY DEF Definition
  <2>5. ResolvedCalls(form) \in Seq(1 .. n)
    BY <1>1, <1>2, <1>4, <2>3, ResolvedFacts
  <2>6. \A k \in DOMAIN new.calls : new.calls[k] \in 1 .. n
    BY <2>4, <2>5, LenProperties, ElementOfSeq
  <2> HIDE DEF new
  <2>7. /\ DOMAIN defs' = 1 .. n + 1
        /\ \A i \in 1 .. n : defs'[i] = defs[i]
        /\ defs'[n + 1] = new
    BY <1>1, <1>2, <2>1, <2>2, AppendProperties, LenProperties DEF TypeOK
  <2>8. 1 .. n + 1 = (1 .. n) \union {n + 1}
    BY <2>2
  <2>9. (\A i \in 1 .. n : Signature(i)' = Signature(i)) /\ Signature(n + 1)' = s
    BY <2>4, <2>7 DEF Signature
  <2>10. Known' = Known \union {s}
    BY <2>2, <2>7, <2>8, <2>9 DEF Known
  <2>11. s \notin Known
    BY <1>4 DEF Known, Signature, Definable
  <2> DEFINE added == {<<s, Signature(new.calls[k])>> : k \in DOMAIN new.calls}
  <2>12. Uses' = Uses \union added
    <3> DEFINE old(i) == {<<Signature(i), Signature(defs[i].calls[k])>> : k \in DOMAIN defs[i].calls}
               now(i) == {<<Signature(i), Signature(defs[i].calls[k])>> : k \in DOMAIN defs[i].calls}'
    <3>1. \A i \in 1 .. n : now(i) = old(i)
      BY <1>1, <2>2, <2>7, <2>9, CallsKnown
    <3>2. now(n + 1) = added
      BY <2>6, <2>7, <2>9
    <3>3. Uses = UNION {old(i) : i \in 1 .. n} /\ Uses' = UNION {now(i) : i \in (1 .. n) \union {n + 1}}
      BY <2>2, <2>7, <2>8 DEF Uses
    <3> HIDE DEF old, now, added
    <3> QED
      BY <3>1, <3>2, <3>3
  <2>13. \A u \in added : u[1] = s /\ u[2] \in Known
    BY <2>2, <2>6 DEF Known
  <2>14. Program' = Program
    BY <1>1, <2>1, <2>2, <2>9, CallsKnown DEF Program
  <2> QED
    BY <2>10, <2>11, <2>12, <2>13, <2>14 DEF Growth!Define
<1> QED
  BY <1>3, <1>4

\* A statement is one more of the program, and calls what is known.
LEMMA CheckStatementGrows ==
  ASSUME IInv, CheckStatement
  PROVE  Growth!State \/ UNCHANGED Growth!vars
<1> DEFINE form == Head(todo)
           m == Len(init)
           calls == ResolvedCalls(form)
           node == [calls |-> calls, fault |-> form.fault,
                    type |-> defs[Resolve(Last(form.calls))].ret]
<1>1. TypeOK
  BY DEF IInv
<1>2. CASE ~ Checks(form)
  BY <1>1, <1>2, ProgramKept DEF CheckStatement, Throw, module
<1>3. CASE Checks(form)
  <2>1. init' = Append(init, node) /\ defs' = defs
    BY <1>3 DEF CheckStatement
  <2>2. m \in Nat /\ DOMAIN init = 1 .. m /\ DOMAIN defs = 1 .. Len(defs)
    BY <1>1, TypeFacts
  <2>3. calls \in Seq(1 .. Len(defs))
    BY <1>1, <1>3, TextFacts, ResolvedFacts DEF CheckStatement
  <2>4. \A k \in DOMAIN calls : calls[k] \in DOMAIN defs
    BY <2>2, <2>3, LenProperties, ElementOfSeq
  <2>5. node.calls = calls
    OBVIOUS
  <2> HIDE DEF node, calls
  <2>6. init \in Seq(Statements \union {node})
    BY <1>1, SeqMonotonic DEF TypeOK
  <2>7. /\ init' \in Seq(Statements \union {node}) /\ Len(init') = m + 1
        /\ \A i \in 1 .. m : init'[i] = init[i]
        /\ init'[m + 1] = node
    BY <2>1, <2>6, AppendProperties
  <2>8. DOMAIN init' = 1 .. m + 1
    BY <2>7, LenProperties
  <2> DEFINE callees == {Signature(calls[k]) : k \in DOMAIN calls}
  <2>9. callees \in SUBSET Known
    BY <2>4 DEF Known
  <2>10. (\A i : Signature(i)' = Signature(i)) /\ Known' = Known /\ Uses' = Uses
    BY <2>1 DEF Signature, Known, Uses
  <2>11. Program' = [i \in 1 .. m + 1 |-> IF i = m + 1 THEN callees ELSE Program[i]]
    <3>1. Program' = [i \in 1 .. m + 1 |-> {Signature(init'[i].calls[k]) : k \in DOMAIN init'[i].calls}]
      BY <2>1, <2>8, <2>10 DEF Program, Signature
    <3>2. \A i \in 1 .. m + 1 :
            {Signature(init'[i].calls[k]) : k \in DOMAIN init'[i].calls}
              = IF i = m + 1 THEN callees ELSE Program[i]
      <4> TAKE i \in 1 .. m + 1
      <4>1. CASE i = m + 1
        BY <2>5, <2>7, <4>1
      <4>2. CASE i \in 1 .. m
        <5>1. i # m + 1
          BY <2>2, <4>2
        <5> QED
          BY <2>2, <2>7, <4>2, <5>1 DEF Program
      <4>3. i = m + 1 \/ i \in 1 .. m
        BY <2>2
      <4> QED
        BY <4>1, <4>2, <4>3
    <3> QED
      BY <3>1, <3>2
  <2> HIDE DEF callees
  <2>12. Program \in Seq(SUBSET Known)
    <3>1. \A i \in 1 .. m : {Signature(init[i].calls[k]) : k \in DOMAIN init[i].calls} \in SUBSET Known
      BY <1>1, <2>2, CallsKnown DEF Known
    <3>2. Program \in [1 .. m -> SUBSET Known]
      BY <2>2, <3>1 DEF Program
    <3> QED
      BY <2>2, <3>2
  <2>13. Len(Program) = m
    <3>1. DOMAIN Program = 1 .. m
      BY <2>2 DEF Program
    <3>2. DOMAIN Program = 1 .. Len(Program) /\ Len(Program) \in Nat
      BY <2>12, LenProperties
    <3> QED
      BY <2>2, <3>1, <3>2
  <2>14. Program' = Append(Program, callees)
    <3>1. /\ Append(Program, callees) \in Seq(SUBSET Known)
          /\ Len(Append(Program, callees)) = m + 1
          /\ \A i \in 1 .. m : Append(Program, callees)[i] = Program[i]
          /\ Append(Program, callees)[m + 1] = callees
      BY <2>9, <2>12, <2>13, AppendProperties
    <3>2. \A i \in 1 .. m + 1 : Append(Program, callees)[i] = IF i = m + 1 THEN callees ELSE Program[i]
      BY <2>2, <3>1, TopOrBelow
    <3>3. Append(Program, callees) \in [1 .. m + 1 -> SUBSET Known]
      BY <3>1, LenProperties
    <3>4. Append(Program, callees) = [i \in 1 .. m + 1 |-> Append(Program, callees)[i]]
      BY <3>3
    <3> QED
      BY <2>11, <3>2, <3>4
  <2> QED
    BY <2>9, <2>10, <2>14 DEF Growth!State
<1> QED
  BY <1>2, <1>3

\* To its callers, and whatever they call, a module is a program to which forms
\* are added whole or not at all, each calling what was there before it.
THEOREM ModuleGrows == Spec => ProgramOnlyGrows
<1>1. Init => Growth!Init
  <2> SUFFICES ASSUME Init PROVE Growth!Init
    OBVIOUS
  <2>1. defs = Builtins /\ init = << >>
    BY DEF Init
  <2>2. \A i \in DOMAIN Builtins : Builtins[i].calls = << >>
    <3>1. DOMAIN Builtins = 1 .. Len(Builtins)
      BY BuiltinsAssumption, LenProperties
    <3>2. \A i \in 1 .. Len(Builtins) :
            Builtins[i] \in [name : Names, kind : Kinds \ {"ast"}, args : Seq(Types), ret : Types,
                            calls : {<< >>}, fault : {"none"}, llvm : {0}]
      BY BuiltinsAssumption, ElementOfSeq
    <3> QED
      BY <3>1, <3>2
  <2>3. Known = {[name |-> Builtins[i].name, args |-> Builtins[i].args] : i \in DOMAIN Builtins}
    BY <2>1 DEF Known, Signature
  <2>4. Uses = {}
    BY <2>1, <2>2 DEF Uses
  <2>5. Program = << >>
    BY <2>1 DEF Program
  <2> QED
    BY <2>3, <2>4, <2>5 DEF Growth!Init
<1>2. IInv /\ [Next]_vars => [Growth!Next]_(Growth!vars)
  <2> SUFFICES ASSUME IInv, [Next]_vars PROVE Growth!Next \/ UNCHANGED Growth!vars
    OBVIOUS
  <2>1. TypeOK
    BY DEF IInv
  <2>2. CASE CheckDefn
    BY <2>2, CheckDefnGrows DEF Growth!Next
  <2>3. CASE CheckStatement
    BY <2>3, CheckStatementGrows DEF Growth!Next
  <2>4. ASSUME NEW i \in DOMAIN defs, FirstPassSymbol(i) PROVE UNCHANGED Growth!vars
    BY <2>1, <2>4, FirstPassKeeps
  <2>5. ASSUME UNCHANGED <<defs, init>> PROVE UNCHANGED Growth!vars
    BY <2>1, <2>5, ProgramKept
  <2>6. ASSUME NEW text, NEW asExecute, BeginTypeCheck(text, asExecute) PROVE UNCHANGED <<defs, init>>
    BY <2>6 DEF BeginTypeCheck, module
  <2>7. ASSUME NEW i \in DOMAIN defs, SecondPassSymbol(i) PROVE UNCHANGED <<defs, init>>
    BY <2>7 DEF SecondPassSymbol, module
  <2>8. CASE EndTypeCheck \/ BeginCompile \/ FirstPassInit \/ SecondPassInit \/ Return \/ UNCHANGED vars
    BY <2>5, <2>8 DEF EndTypeCheck, BeginCompile, FirstPassInit, SecondPassInit, Return, vars, module
  <2> QED
    BY <2>2, <2>3, <2>4, <2>5, <2>6, <2>7, <2>8 DEF Next
<1> QED
  BY <1>1, <1>2, SessionInvariance, PTL DEF Spec, ProgramOnlyGrows, Growth!Spec
=============================================================================
