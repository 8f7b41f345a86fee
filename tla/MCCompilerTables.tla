--------------------------- MODULE MCCompilerTables ---------------------------
(***************************************************************************)
(* A small instance of CompilerTables: one type of each kind, the integers *)
(* narrower than a long.                                                   *)
(***************************************************************************)
EXTENDS CompilerTables

MCFloats   == <<"f32">>
MCSigned   == <<"i8">>
MCUnsigned == <<"u8">>
MCBits     == [type \in {"i8", "u8"} |-> 2]

MCNumbers     == -2 .. 4
MCFloatValues == {<< >>, <<0>>, <<1>>}
=============================================================================
