-------------------------- MODULE MCScopeResolution --------------------------
(***************************************************************************)
(* Small instances of ScopeResolution for TLC.  `a' is a module variable,  *)
(* f is a function; arguments and locals may shadow both.                  *)
(***************************************************************************)
EXTENDS ScopeInvariant

MCTypes == {"f32", "i1", "void", "fn*"}

Module(overloads) ==
  [x \in {"a", "f"} |->
     IF x = "a" THEN [kind |-> "variable", type |-> "f32", overloads |-> << >>]
     ELSE [kind |-> "function", type |-> "fn*", overloads |-> overloads]]

VoidArgument == <<"i1", "void">>

\* f has one overload, so its name is an expression.
OneOverload == Module(<<[args |-> VoidArgument, ret |-> "void"]>>)

TwoOverloads == Module(<<[args |-> << >>, ret |-> "void"],
                         [args |-> VoidArgument, ret |-> "i1"]>>)

\* A function with one argument, and one that declares the name twice.
OneArgument == {<<[name |-> "a", type |-> "i1"]>>}
SameName    == {<<[name |-> "a", type |-> "i1"], [name |-> "a", type |-> "f32"]>>}
BothArguments == OneArgument \cup SameName
=============================================================================
