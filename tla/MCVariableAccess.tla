------------------------- MODULE MCVariableAccess -------------------------
(***************************************************************************)
(* VariableAccess with a local, a name for another symbol, and an int of    *)
(* three bits.                                                             *)
(***************************************************************************)
EXTENDS AccessInvariant

CONSTANTS global, local, int, struct, inner, pointer,
          function, functionPointer, overload, overloadPointer

MCPointee ==
  pointer :> struct @@ functionPointer :> function @@ overloadPointer :> overload
MCPointerTo == function :> functionPointer @@ overload :> overloadPointer
MCLocals == local :> pointer

Field(name, t) == [name |-> name, kind |-> "field", type |-> t, read |-> TRUE, write |-> TRUE]
Accessor(name, t, read, write) ==
  [name |-> name, kind |-> "accessor", type |-> t, read |-> read, write |-> write]

MCProperties ==
  {Field("a", int), Field("b", inner), Field("c", Void), Accessor("d", pointer, TRUE, FALSE)}

ByName(name) == [kind |-> "name", name |-> name]
ByIndex(index) == [kind |-> "index", index |-> index]
ByValue == [kind |-> "value"]

MCEntries ==
  {ByName("a"), ByName("b"), ByName("d"), ByIndex(0), ByIndex(1), ByIndex(8), ByValue}

\* What a first entry leads to is taken further, at last by what loses the second
\* walk its datatype.
MCChains ==
  {<< >>} \union {<<entry>> : entry \in MCEntries}
    \union {<<ByIndex(0), entry>> : entry \in MCEntries}
    \union {<<ByName("b"), ByName("a")>>, <<ByName("d"), ByIndex(0)>>,
            <<ByIndex(8), ByIndex(1)>>, <<ByValue, ByName("b")>>,
            <<ByIndex(0), ByIndex(1), ByIndex(0)>>, <<ByIndex(0), ByIndex(1), ByName("a")>>,
            <<ByIndex(0), ByIndex(1), ByIndex(1)>>}
=============================================================================
