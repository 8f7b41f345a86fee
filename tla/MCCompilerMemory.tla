------------------------- MODULE MCCompilerMemory -------------------------
(***************************************************************************)
(* CompilerMemory with a word of two bytes.                                *)
(***************************************************************************)
EXTENDS MemoryInvariant

MCProgramRequests ==
  {[size |-> 3, alignment |-> 1], [size |-> 2, alignment |-> 8]}
=============================================================================
