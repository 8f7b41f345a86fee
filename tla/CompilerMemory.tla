-------------------------- MODULE CompilerMemory --------------------------
(***************************************************************************)
(* The memory of one compiler_impl, from its construction to its end: one  *)
(* tracking allocator, and on it the slabs of the syntax tree, the pool    *)
(* and the buffers of the factory of lisp data, and what the compiled      *)
(* program allocates for itself.                                           *)
(***************************************************************************)
EXTENDS SlabAllocator, ObjectPool

CONSTANTS
  NodeSizes,         \* sizes of nodes
  BufferSizes,       \* sizes of the buffers of arrays, types and numbers
  TypeSizes,         \* sizes of type_refs, each with its specializations
  ProgramRequests,   \* sizes and alignments the program asks for
  MaxBlocks          \* bound: blocks outstanding at once

\* Nobody asks for a buffer of nothing: allocate_obj_buffer returns before it does.
ASSUME SizesAssumption ==
  /\ NodeSizes \subseteq {size \in Nat : CanBeNode(size)}
  /\ BufferSizes \union TypeSizes \subseteq Nat \ {0}
  /\ ProgramRequests \subseteq [size : Nat, alignment : {a \in Nat : CanAlign(a)}]

VARIABLES
  buffers,    \* _buffer_allocs of the factory
  types,      \* _types of the type library
  program,    \* what rt_malloc gave to the program, and rt_free has not got back
  stage       \* running, then down the members: ast, factory, types, allocator, and
              \* closed or leaked

client == <<buffers, types, program>>
vars == <<tracking, slabs, pool, client, stage>>

Running == stage = "running"
InRoom == Cardinality(DOMAIN outstanding') <= MaxBlocks

\* _ast_allocator->construct.
ConstructNode(size) ==
  /\ Running
  /\ SlabAllocate(size) /\ InRoom
  /\ UNCHANGED <<pool, client, stage>>

\* create_cell, create_array, create_symbol, create_constant, and small numbers.
CreateObject ==
  /\ Running
  /\ PoolAllocate \/ PoolGrow
  /\ InRoom
  /\ UNCHANGED <<slabs, client, stage>>

\* pool::destruct, which the factory has no use for: its objects stay to the end.
DestructObject(item) ==
  /\ Running
  /\ PoolDeallocate(item)
  /\ UNCHANGED <<slabs, client, stage>>

\* allocate_obj_buffer, and allocate_data of what is no object's size.
AllocateBuffer(size) ==
  /\ Running
  /\ \E base \in Bases :
       /\ Allocate(size, Word, base) /\ InRoom
       /\ buffers' = buffers \union {Ptr(base, Word)}
  /\ UNCHANGED <<slabs, pool, types, program, stage>>

\* get_type_ref, of a type that is new.
CreateType(size) ==
  /\ Running
  /\ \E base \in Bases :
       /\ Allocate(size, Word, base) /\ InRoom
       /\ types' = types \union {Ptr(base, Word)}
  /\ UNCHANGED <<slabs, pool, buffers, program, stage>>

\* rt_malloc.  The program gets no memory for nothing.
RtMalloc(request) ==
  /\ Running
  /\ request.size > 0
  /\ \E base \in Bases :
       /\ Allocate(request.size, request.alignment, base) /\ InRoom
       /\ program' = program \union {Ptr(base, request.alignment)}
  /\ UNCHANGED <<slabs, pool, buffers, types, stage>>

\* rt_free.
RtFree(ptr) ==
  /\ Running /\ ptr \in program
  /\ Deallocate({ptr})
  /\ program' = program \ {ptr}
  /\ UNCHANGED <<slabs, pool, buffers, types, stage>>

\* ~compiler_impl takes its members down from the last to the first: the slabs,
DestructAst ==
  /\ stage \in {"running", "ast"} /\ stage' = "ast"
  /\ DestructNode
  /\ UNCHANGED <<pool, client>>

DestroyAst ==
  /\ stage \in {"running", "ast"} /\ stage' = "factory"
  /\ FreeSlabs
  /\ UNCHANGED <<pool, client>>

\* Mutant of DestroyFactory: the buffers are not given back.
DestroyFactoryKeepingBuffers ==
  /\ stage = "factory" /\ stage' = "types"
  /\ Deallocate(Range(slab_list))
  /\ DestroyPool
  /\ buffers' = {}
  /\ UNCHANGED <<slabs, types, program>>

\* the factory with its pool and its buffers,
DestroyFactory ==
  /\ stage = "factory" /\ stage' = "types"
  /\ Deallocate(Range(slab_list) \union buffers)
  /\ DestroyPool
  /\ buffers' = {}
  /\ UNCHANGED <<slabs, types, program>>

\* the type library,
DestroyTypes ==
  /\ stage = "types" /\ stage' = "allocator"
  /\ Deallocate(types)
  /\ types' = {}
  /\ UNCHANGED <<slabs, pool, buffers, program>>

\* and the allocator, which throws when something is outstanding.
DestroyAllocator ==
  /\ stage = "allocator"
  /\ stage' = IF outstanding = << >> THEN "closed" ELSE "leaked"
  /\ UNCHANGED <<tracking, slabs, pool, client>>

Init ==
  /\ TrackingInit /\ SlabInit /\ PoolInit
  /\ buffers = {} /\ types = {} /\ program = {} /\ stage = "running"

Next ==
  \/ \E size \in NodeSizes : ConstructNode(size)
  \/ CreateObject
  \/ \E item \in items : DestructObject(item)
  \/ \E size \in BufferSizes : AllocateBuffer(size)
  \/ \E size \in TypeSizes : CreateType(size)
  \/ \E request \in ProgramRequests : RtMalloc(request)
  \/ \E ptr \in program : RtFree(ptr)
  \/ DestructAst \/ DestroyAst \/ DestroyFactory \/ DestroyTypes \/ DestroyAllocator

Spec == Init /\ [][Next]_vars

-----------------------------------------------------------------------------
(* Properties.                                                              *)

\* Where the pointers of each owner come from.
TypeOK ==
  /\ stage \in {"running", "ast", "factory", "types", "allocator", "closed", "leaked"}
  /\ freesize \in 0 .. SlabSize
  /\ IsInjective(allocations) /\ IsInjective(slab_list)
  /\ LET owners == {Range(allocations), Range(slab_list), buffers, types, program}
     IN  /\ DOMAIN outstanding = UNION owners
         /\ Cardinality(DOMAIN outstanding)
              = Len(allocations) + Len(slab_list)
                  + Cardinality(buffers) + Cardinality(types) + Cardinality(program)

\* The blocks in use, whoever cut them.
InUse ==
  nodes \union items \union {outstanding[ptr] : ptr \in buffers \union types \union program}

\* Every block in use is its owner's alone, whichever of the five it was asked of.
Contract == INSTANCE AllocatorContract WITH live <- InUse
KeepsContract == Contract!Spec

\* The compiler itself leaks nothing: it ends in a throw only if its program has kept
\* memory.
OnlyProgramsLeak == stage = "leaked" => program # {}
=============================================================================
