-------------------------- MODULE MCMacroExpansion --------------------------
(***************************************************************************)
(* Programs for MacroExpansion: one or two definitions and one or two      *)
(* uses, in any order.                                                     *)
(***************************************************************************)
EXTENDS MacroExpansion

S(name) == Tree("symbol", name, << >>)
C(name) == Tree("constant", name, << >>)
L(items) == Tree("list", "", items)
A(items) == Tree("array", "", items)
Typed(name, type) == Tree("constant", name, <<S("t"), A(<<type>>)>>)
Unquote(name) == L(<<S("unquote"), S(name)>>)
Quoted(items) == L(<<S("quote"), L(items)>>)

Def(name, args, bodies) ==
  L(<<S("defmacro"), S(name), A([k \in DOMAIN args |-> S(args[k])])>> \o bodies)

\* Templates of m: one to three levels, a type, another macro, one that cannot
\* be filled in, one that is an unquote, and one that is no template.
MCDefinitions ==
  {Def("m", <<"a", "b">>, <<Quoted(<<S("f"), Unquote("b"), Unquote("a")>>)>>),
   Def("m", <<"a", "b">>, <<Quoted(<<S("f"), L(<<S("f"), Unquote("a"), L(<<S("f"), Unquote("b")>>)>>), Unquote("a")>>)>>),
   Def("m", <<"a", "b">>, <<Quoted(<<S("f"), Typed("1", Unquote("b")), Unquote("a")>>)>>),
   Def("m", <<"a", "b">>, <<Quoted(<<S("n"), L(<<S("f"), Unquote("a")>>)>>)>>),
   Def("m", <<"a", "b">>, <<Quoted(<<S("f"), Unquote("a"), Unquote("z")>>)>>),
   Def("m", <<"a", "a">>, <<Quoted(<<S("f"), Unquote("a"), A(<<Unquote("a")>>)>>)>>),
   Def("m", <<"a", "a">>, <<Quoted(<<S("f"), Unquote("z")>>), Quoted(<<S("f"), Unquote("a")>>)>>),
   Def("m", <<"a", "a">>, <<Quoted(<<S("f"), S("y")>>), Quoted(<<S("f"), Unquote("a")>>)>>),
   Def("m", <<"a">>, <<Quoted(<<S("unquote"), S("a")>>)>>),
   Def("m", <<"a">>, <<Quoted(<<S("f"), L(<<C("1")>>)>>)>>),
   Def("m", <<"a">>, <<L(<<S("f"), S("a")>>)>>),
   Def("n", <<"a">>, <<Quoted(<<S("f"), Unquote("a"), Unquote("a")>>)>>),
   Def("n", << >>, <<Quoted(<<S("f"), S("x")>>)>>),
   L(<<S("defmacro"), S("m"), S("a"), S("b")>>)}

MCUses ==
  {L(<<S("m"), S("x"), C("1")>>),
   L(<<S("m"), L(<<S("f"), S("x")>>), S("y")>>),
   L(<<S("m"), L(<<S("n"), S("x")>>), S("y"), S("x")>>),
   L(<<S("f"), L(<<S("n"), L(<<S("m"), S("x"), S("y")>>)>>)>>),
   L(<<S("n"), S("x")>>),
   L(<<S("m"), L(<<S("f"), Unquote("b")>>), S("y")>>),
   L(<<S("n"), A(<<S("x")>>)>>),
   L(<<C("1"), S("x")>>),
   L(<<S("m"), S("x")>>),
   S("x")}

\* A macro used inside of its own argument, and in its own template.
MCNested ==
  {L(<<S("m"), L(<<S("m"), S("x"), S("y")>>), S("y")>>),
   L(<<S("n"), L(<<S("m"), S("x"), S("y")>>)>>)}
MCSelfUse == Def("m", <<"a", "b">>, <<Quoted(<<S("m"), Unquote("b"), Unquote("a")>>)>>)

Sequences(set, n) == UNION {[1 .. k -> set] : k \in 1 .. n}

\* The last form of the longest programs.
MCLastUses ==
  {L(<<S("m"), S("x"), C("1")>>), L(<<S("n"), S("x")>>), L(<<S("m"), S("x")>>)}

MCPrograms ==
  Sequences(MCDefinitions \union MCUses, 2)
  \union {<<d, e, u>> : d \in MCDefinitions, e \in MCDefinitions, u \in MCUses}
  \union {<<d, e, u, v>> : d \in MCDefinitions, e \in MCDefinitions,
                           u \in MCUses \union MCNested, v \in MCLastUses}
  \union {<<MCSelfUse, u>> : u \in MCNested}
=============================================================================
