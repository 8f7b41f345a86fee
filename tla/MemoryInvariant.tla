---------------------------- MODULE MemoryInvariant ----------------------------
(***************************************************************************)
(* Why no two blocks of a compiler overlap, and why it gives back all it   *)
(* took: the invariant the proofs about CompilerMemory rest on.  From the  *)
(* outside in: the chunks of malloc are apart; each has one block, found   *)
(* from it by the byte before it; each block has one owner; and the slabs  *)
(* of the syntax tree and of the pool are cut into pieces that are apart.  *)
(***************************************************************************)
EXTENDS CompilerMemory

Apart(a, b) == a.at + a.size <= b.at \/ b.at + b.size <= a.at

\* block lies in the block at p of the tracking allocator.
LiesIn(block, p) == p <= block.at /\ block.at + block.size <= p + outstanding[p].size

\* malloc's chunks are memory, and apart.
ChunksApart ==
  /\ \A base \in DOMAIN chunks :
       base \in Nat \ {0} /\ chunks[base] \in Nat \ {0} /\ base + chunks[base] - 1 <= MaxAddress
  /\ \A a, b \in DOMAIN chunks : a # b => a + chunks[a] <= b \/ b + chunks[b] <= a

\* A block is where its entry says, and alone in its chunk.
BlocksAligned ==
  /\ outstanding = [p \in DOMAIN outstanding |-> outstanding[p]]
  /\ \A p \in DOMAIN outstanding :
       /\ p \in Nat /\ outstanding[p] \in [at : {p}, size : Nat \ {0}, alignment : Nat \ {0}]
       /\ p % outstanding[p].alignment = 0
  /\ \A p, q \in DOMAIN outstanding : Original(p) = Original(q) => p = q

TrackingSound == ChunksApart /\ BlocksAligned /\ HeadersIntact

\* Whose the blocks are.
SlabsOfNodes   == Range(allocations)
SlabsOfObjects == Range(slab_list)
Singles        == buffers \union types \union program

OwnersApart ==
  /\ DOMAIN outstanding = SlabsOfNodes \union SlabsOfObjects \union Singles
  /\ SlabsOfNodes \intersect (SlabsOfObjects \union Singles) = {}
  /\ SlabsOfObjects \intersect Singles = {}
  /\ buffers \intersect types = {} /\ program \intersect (buffers \union types) = {}
  /\ IsFiniteSet(buffers) /\ IsFiniteSet(types) /\ IsFiniteSet(program)

\* What each of the destructors has given back.
DestroyedInOrder ==
  /\ stage \in {"running", "ast", "factory", "types", "allocator", "closed", "leaked"}
  /\ stage \notin {"running", "ast"} => allocations = << >> /\ freesize = 0 /\ nodes = {}
                                        /\ destruct_list = << >>
  /\ stage \notin {"running", "ast", "factory"} =>
       slab_list = << >> /\ buffers = {} /\ free_list = << >> /\ items = {}
  /\ stage \in {"allocator", "closed", "leaked"} => types = {}
  /\ stage = "leaked" => outstanding # << >>

\* The slabs of the syntax tree, and which of them is open.
NodeSlabsSound ==
  /\ allocations \in Seq(Nat) /\ IsInjective(allocations)
  /\ freesize \in 0 .. SlabSize /\ freesize % Word = 0
  /\ freesize > 0 => /\ allocations # << >>
                     /\ outstanding[Last(allocations)].size = SlabSize
                     /\ outstanding[Last(allocations)].alignment = Word

\* The slabs of the pool.
ObjectSlabsSound ==
  /\ slab_list \in Seq(Nat) /\ IsInjective(slab_list)
  /\ \A slab \in SlabsOfObjects :
       outstanding[slab].size = PoolSlab /\ outstanding[slab].alignment = Word

OwnersSound ==
  TrackingSound /\ OwnersApart /\ DestroyedInOrder /\ NodeSlabsSound /\ ObjectSlabsSound

\* The nodes cut from the slabs, and the list of those to be destructed.
NodesSound ==
  /\ nodes \subseteq [at : Nat, size : Nat \ {0}, alignment : {Word}]
  /\ \A node \in nodes : \E slab \in SlabsOfNodes : LiesIn(node, slab)
  /\ \A node \in nodes : node.at % Word = 0
  /\ \A m, n \in nodes : m # n => Apart(m, n)
  /\ OpenSlabIsLast
  /\ destruct_list \in Seq(nodes) /\ IsInjective(destruct_list)

\* The objects cut from the slabs of the pool.
ObjectsSound ==
  /\ free_list \in Seq(Nat)
  /\ \A item \in items : item.at \in Nat /\ item = Item(item.at)
  /\ FreeListIsSound

IInv == OwnersSound /\ NodesSound /\ ObjectsSound
=============================================================================
