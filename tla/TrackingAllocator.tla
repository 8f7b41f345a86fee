------------------------- MODULE TrackingAllocator -------------------------
(***************************************************************************)
(* tracking_alloc: the allocator under everything else (allocator.cpp).    *)
(*                                                                         *)
(* A block lies in a chunk of malloc's, behind a header.  The byte before  *)
(* the block, the last of the header or one of the padding after it, holds *)
(* the distance to the start of the chunk: deallocate reads it there.      *)
(* Memory is its addresses; of its contents only these bytes are kept, and *)
(* the owner of a block may write all of it.                               *)
(***************************************************************************)
EXTENDS Integers, FiniteSets, Functions

CONSTANTS
  Word,             \* sizeof(void*)
  MallocAlignment,  \* what malloc aligns to
  ByteSize,         \* the values a byte has
  MaxAddress        \* bound: the memory malloc has

\* sizeof(alloc_info): a size_t, the alignment in one byte, and padding.
Header == 2 * Word

ASSUME MemoryAssumption ==
  /\ {Word, MallocAlignment, ByteSize, MaxAddress} \subseteq Nat
  /\ Word >= 2 /\ MallocAlignment > 0 /\ Header % MallocAlignment = 0
  /\ Header + Word <= ByteSize

VARIABLES
  chunks,        \* malloc's: the size of each by its address
  outstanding,   \* outstanding_allocations, with the alloc_info of each
  offsets        \* the bytes before the blocks

tracking == <<chunks, outstanding, offsets>>

\* align_number.
AlignNumber(data, alignment) ==
  IF data % alignment = 0 THEN data ELSE data + alignment - (data % alignment)

Block(at, size, alignment) == [at |-> at, size |-> size, alignment |-> alignment]

\* Alignments that allocate gets right: a small one has no room of its own and must be
\* one malloc keeps, and the distance to a great one has to fit into a byte.
CanAlign(alignment) ==
  /\ alignment > 0
  /\ alignment <= Word \div 2 => MallocAlignment % alignment = 0
  /\ Header + alignment <= ByteSize

\* Mutant of NewSize: no room to align the block in.
NewSizeUnaligned(size, alignment) == size + Header

\* What allocate asks malloc for.
NewSize(size, alignment) ==
  size + Header + (IF alignment > Word \div 2 THEN alignment - 1 ELSE 0)

\* malloc: any place that is free.
Bases == {base \in 1 .. MaxAddress : base % MallocAlignment = 0}
CanMalloc(base, size) ==
  /\ base \in Bases
  /\ base + size - 1 <= MaxAddress
  /\ \A other \in DOMAIN chunks : base + size <= other \/ other + chunks[other] <= base

\* The block of a chunk.
Ptr(base, alignment) == AlignNumber(base + Header, alignment)

\* Mutant of Distance: from the end of the header.
DistanceAfterHeader(base, ptr) == (ptr - base - Header) % ByteSize

\* What the byte before the block says.
Distance(base, ptr) == (ptr - base) % ByteSize

\* allocate: the header and the byte are written, then the block by its owner.
Allocate(size, alignment, base) ==
  LET newsize == NewSize(size, alignment)
      ptr     == Ptr(base, alignment)
      written == (base .. base + Word) \union (ptr .. ptr + size - 1)
  IN  /\ CanMalloc(base, newsize)
      /\ chunks' = [a \in DOMAIN chunks \union {base} |->
                      IF a = base THEN newsize ELSE chunks[a]]
      /\ outstanding' = [p \in DOMAIN outstanding \union {ptr} |->
                           IF p = ptr THEN Block(ptr, size, alignment) ELSE outstanding[p]]
      /\ offsets' = [a \in (DOMAIN offsets \union {ptr - 1}) \ written |->
                       IF a = ptr - 1 THEN Distance(base, ptr) ELSE offsets[a]]

\* get_original_ptr.
Original(ptr) == ptr - offsets[ptr - 1]

\* deallocate, of blocks that are outstanding: any other throws and changes nothing.
Deallocate(ptrs) ==
  /\ ptrs \subseteq DOMAIN outstanding
  /\ chunks' = Restrict(chunks, DOMAIN chunks \ {Original(p) : p \in ptrs})
  /\ outstanding' = Restrict(outstanding, DOMAIN outstanding \ ptrs)
  /\ offsets' = Restrict(offsets, DOMAIN offsets \ {p - 1 : p \in ptrs})

TrackingInit == chunks = << >> /\ outstanding = << >> /\ offsets = << >>

-----------------------------------------------------------------------------
(* Properties.                                                              *)

\* deallocate frees what allocate got from malloc: behind every block there is its
\* distance, which no owner of another has overwritten, to a chunk the block lies in.
\* Nothing of malloc's is forgotten.
HeadersIntact ==
  /\ \A p \in DOMAIN outstanding :
       /\ p - 1 \in DOMAIN offsets
       /\ Original(p) \in DOMAIN chunks
       /\ Original(p) + Header <= p
       /\ p + outstanding[p].size <= Original(p) + chunks[Original(p)]
  /\ DOMAIN chunks = {Original(p) : p \in DOMAIN outstanding}
=============================================================================
