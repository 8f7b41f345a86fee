--------------------------- MODULE SlabAllocator ---------------------------
(***************************************************************************)
(* slab_allocator: the nodes of the syntax tree, cut off slabs one after   *)
(* the other and given back all at once (slab_allocator.h).                *)
(***************************************************************************)
EXTENDS TrackingAllocator, SequencesExt

CONSTANTS
  SlabSize,          \* slab_size
  DestructedSizes    \* sizes of the nodes slab_alloc_destruct_traits has a destructor for

ASSUME SlabAssumption == SlabSize \in Nat /\ SlabSize % Word = 0 /\ SlabSize >= 2 * Word

VARIABLES
  allocations, freesize,   \* _allocations and _freesize
  destruct_list,           \* _destruct_list: the nodes to destruct
  nodes                    \* history: the blocks handed out

slabs == <<allocations, freesize, destruct_list, nodes>>

\* Nothing is smaller than a pointer.
NodeSize(size) == IF size < Word THEN Word ELSE size

\* Room to align a node whose slab may be aligned less.
SafeSize(size, alignment) == IF alignment > Word THEN size + alignment - 1 ELSE size

\* Nodes are objects: their size and their alignment are a pointer's, or a multiple.
CanBeNode(size) == size > 0 /\ size % Word = 0

\* construct: the block becomes a node, which check_for_destruction may list.
Construct(block) ==
  /\ nodes' = nodes \union {block}
  /\ destruct_list' = IF block.size \in DestructedSizes THEN Append(destruct_list, block)
                      ELSE destruct_list

\* Cut the node off the open slab.
Cut(slab, free, size, alignment) ==
  /\ freesize' = free - SafeSize(size, alignment)
  /\ Construct(Block(AlignNumber(slab + SlabSize - free, alignment), size, alignment))

\* From the open slab.
BumpNode(size, alignment) ==
  /\ SafeSize(size, alignment) < freesize
  /\ Cut(Last(allocations), freesize, size, alignment)
  /\ UNCHANGED <<tracking, allocations>>

\* A slab for it.  What was left of the last one is lost.
NewSlabNode(size, alignment, base) ==
  /\ SafeSize(size, alignment) >= freesize /\ SafeSize(size, alignment) < SlabSize
  /\ Allocate(SlabSize, Word, base)
  /\ allocations' = Append(allocations, Ptr(base, Word))
  /\ Cut(Ptr(base, Word), SlabSize, size, alignment)

\* Mutant of LargeNode: it is left at the end.
LargeNodeLast(size, alignment, base) ==
  /\ SafeSize(size, alignment) >= freesize /\ SafeSize(size, alignment) >= SlabSize
  /\ Allocate(size, alignment, base)
  /\ allocations' = Append(allocations, Ptr(base, alignment))
  /\ Construct(Block(Ptr(base, alignment), size, alignment))
  /\ UNCHANGED freesize

\* A block of its own, kept before the open slab.
LargeNode(size, alignment, base) ==
  /\ SafeSize(size, alignment) >= freesize /\ SafeSize(size, alignment) >= SlabSize
  /\ Allocate(size, alignment, base)
  /\ allocations' = IF freesize = 0 THEN Append(allocations, Ptr(base, alignment))
                    ELSE Front(allocations) \o <<Ptr(base, alignment), Last(allocations)>>
  /\ Construct(Block(Ptr(base, alignment), size, alignment))
  /\ UNCHANGED freesize

\* allocate, through construct: aligned as a pointer.
SlabAllocate(size) ==
  \/ BumpNode(NodeSize(size), Word)
  \/ \E base \in Bases : \/ NewSlabNode(NodeSize(size), Word, base)
                         \/ LargeNode(NodeSize(size), Word, base)

\* ~slab_allocator: the destructors, in the order of construction,
DestructNode ==
  /\ destruct_list # << >>
  /\ destruct_list' = Tail(destruct_list)
  /\ UNCHANGED <<tracking, allocations, freesize, nodes>>

\* Mutant of FreeSlabs: before the destructors.
FreeSlabsFirst ==
  /\ Deallocate(Range(allocations))
  /\ allocations' = << >> /\ freesize' = 0 /\ nodes' = {}
  /\ UNCHANGED destruct_list

\* then the memory.
FreeSlabs ==
  /\ destruct_list = << >>
  /\ Deallocate(Range(allocations))
  /\ allocations' = << >> /\ freesize' = 0 /\ nodes' = {}
  /\ UNCHANGED destruct_list

SlabInit == allocations = << >> /\ freesize = 0 /\ destruct_list = << >> /\ nodes = {}

-----------------------------------------------------------------------------
(* Properties.                                                              *)

\* slab_allocator.h:90, "preserve invariant that the last open slab is at the end":
\* what _freesize counts is the end of the last allocation, and no node is in it.
OpenSlabIsLast ==
  freesize > 0 =>
    LET slab == Last(allocations) IN
    /\ slab \in DOMAIN outstanding /\ outstanding[slab].size = SlabSize
    /\ \A node \in nodes :
         node.at + node.size <= slab + SlabSize - freesize \/ node.at >= slab + SlabSize

\* What is still to be destructed is a node whose memory is its own and not yet given
\* back, and no node is listed twice.
DestructorsFindNodes ==
  /\ IsInjective(destruct_list)
  /\ Range(destruct_list) \subseteq nodes
  /\ \A node \in nodes : \E slab \in Range(allocations) :
       /\ slab \in DOMAIN outstanding
       /\ slab <= node.at /\ node.at + node.size <= slab + outstanding[slab].size
=============================================================================
