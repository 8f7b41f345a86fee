--------------------------- MODULE MCModuleSession ---------------------------
(***************************************************************************)
(* Small instances of ModuleSession for TLC: the run time's variable and   *)
(* malloc, one of the binary functions, and forms that define, overload,   *)
(* redefine, recur, fail in each step of the pipeline, and call them all.  *)
(***************************************************************************)
EXTENDS SessionInvariant

Builtin(name, kind, args, ret) ==
  [name |-> name, kind |-> kind, args |-> args, ret |-> ret,
   calls |-> << >>, fault |-> "none", llvm |-> 0]

MCBuiltins == <<Builtin("rt", "variable", << >>, "ptr"),
                Builtin("malloc", "external", <<"ptr">>, "ptr"),
                Builtin("+", "override", <<"f32">>, "f32")>>

To(name, args) == [name |-> name, args |-> args]

Defn(name, args, calls, fault) ==
  [kind |-> "defn", name |-> name, args |-> args, ret |-> "f32", calls |-> calls, fault |-> fault]
Statement(calls, fault) ==
  [kind |-> "statement", name |-> "f", args |-> << >>, ret |-> "void",
   calls |-> calls, fault |-> fault]

\* f, an overload of f that calls f and its own name, and a statement that calls
\* both; definitions of a variable's name, of a function twice (f, in any text),
\* of one that calls itself; and bodies that throw in each step.
MCForms == {
  Defn("f", << >>, <<To("+", <<"f32">>)>>, "none"),
  Defn("f", <<"f32">>, <<To("f", << >>), To("f", <<"f32">>)>>, "none"),
  Statement(<<To("f", <<"f32">>), To("malloc", <<"ptr">>)>>, "none"),
  Statement(<<To("f", << >>)>>, "none"),
  Defn("rt", << >>, <<To("+", <<"f32">>)>>, "none"),
  Defn("g", << >>, <<To("g", << >>)>>, "none"),
  Defn("g", << >>, <<To("f", << >>)>>, "check"),
  Defn("g", <<"ptr">>, <<To("f", << >>)>>, "first"),
  Defn("g", <<"f32">>, <<To("f", << >>)>>, "second"),
  Statement(<<To("+", <<"f32">>)>>, "second")}
=============================================================================
