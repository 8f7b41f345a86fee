--------------------------- MODULE SessionInvariant ---------------------------
(***************************************************************************)
(* Why what compile() returns is whole: the invariant the theorems about   *)
(* ModuleSession rest on.  The values above `base' in the llvm::Module are *)
(* those of the compile under way.  The first pass gives every symbol one  *)
(* of its own, and nothing else makes one but module_init; the second      *)
(* finishes each of them once, and every call it emits is to the present   *)
(* value of a symbol, which by then is one of them.                        *)
(***************************************************************************)
EXTENDS ModuleSession

\* The values of the compile under way.
Fresh == base + 1 .. Len(llvm)

\* A symbol that is not the compiler's to fill in.
Mapped(i) == defs[i].kind \in {"variable", "external"}

\* The symbols in S, and they alone, have each a value of their own in V.
OwnValues(S, V) ==
  /\ \A i \in S : defs[i].llvm \in V
  /\ \A i, j \in S : defs[i].llvm = defs[j].llvm => i = j
  /\ \A v \in V : \E i \in S : defs[i].llvm = v

\* The value of symbol i, which the second pass has come to or not.
ValueOf(i, compiled) ==
  LET state == llvm[defs[i].llvm].state IN
  IF Mapped(i) THEN state = "mapped"
  ELSE state = IF compiled THEN "defined" ELSE "declared"

CallsFresh == \A v \in Fresh : llvm[v].calls \subseteq Fresh

\* module_init is all of the program so far.
InitIsProgram ==
  /\ initFn.body = init /\ initFn.ret = rettype
  /\ initFn.llvm = Len(llvm) /\ Len(llvm) > base

TypeOfInit == rettype = IF init = << >> THEN Void ELSE Last(init).type

\* execute() is not begun with no compile left to the bound.
CompileLeft == phase = "check" /\ executing => compiles < MaxCompiles

FirstPass ==
  phase = "first" =>
    /\ OwnValues(DOMAIN defs \ pending, Fresh)
    /\ \A i \in DOMAIN defs \ pending : ValueOf(i, FALSE)
    /\ CallsFresh

SecondPass ==
  phase = "second" =>
    /\ InitIsProgram
    /\ llvm[initFn.llvm].state = "declared"
    /\ OwnValues(DOMAIN defs, Fresh \ {initFn.llvm})
    /\ \A i \in DOMAIN defs : ValueOf(i, i \notin pending)
    /\ CallsFresh

Compiled ==
  phase = "compiled" =>
    /\ InitIsProgram
    /\ CompiledCodeIsComplete

\* The inductive invariant.
IInv ==
  /\ TypeOK
  /\ SignaturesUnique
  /\ TypeOfInit
  /\ CompileLeft
  /\ FirstPass
  /\ SecondPass
  /\ Compiled
=============================================================================
