----------------------------- MODULE ObjectPool -----------------------------
(***************************************************************************)
(* pool: objects of one size, kept on a free list that runs through the    *)
(* objects themselves (pool.h).                                            *)
(***************************************************************************)
EXTENDS TrackingAllocator, SequencesExt

CONSTANTS
  ItemSize,   \* item_size
  PoolSlab    \* slab_size

ASSUME PoolAssumption ==
  /\ ItemSize \in Nat \ {0} /\ PoolSlab \in Nat /\ PoolSlab % Word = 0
  /\ ItemSize + Word <= PoolSlab

VARIABLES
  free_list,   \* the objects that are free, the next first
  slab_list,   \* _slab_list
  items        \* history: the objects in use

pool == <<free_list, slab_list, items>>

\* An object has room for a free entry, and the next is aligned as it is.
ActualItemSize == AlignNumber(IF ItemSize < Word THEN Word ELSE ItemSize, Word)

\* Mutant of Entries: as many as begin in the slab.
EntriesPastEnd(slab) ==
  Reverse([k \in 1 .. PoolSlab \div ActualItemSize + 1 |-> slab + (k - 1) * ActualItemSize])

\* The objects of a slab.  Each goes to the front as it is added.
Entries(slab) ==
  Reverse([k \in 1 .. PoolSlab \div ActualItemSize |-> slab + (k - 1) * ActualItemSize])

Item(at) == Block(at, ItemSize, Word)

\* The first of the list is taken.
Take(list) ==
  /\ free_list' = Tail(list)
  /\ items' = items \union {Item(Head(list))}

PoolAllocate ==
  /\ free_list # << >>
  /\ Take(free_list)
  /\ UNCHANGED <<tracking, slab_list>>

\* Nothing is free: allocate_slab first.
PoolGrow ==
  /\ free_list = << >>
  /\ \E base \in Bases :
       /\ Allocate(PoolSlab, Word, base)
       /\ slab_list' = Append(slab_list, Ptr(base, Word))
       /\ Take(Entries(Ptr(base, Word)))

\* destruct: the object is the next to be handed out.
PoolDeallocate(item) ==
  /\ item \in items
  /\ free_list' = <<item.at>> \o free_list
  /\ items' = items \ {item}
  /\ UNCHANGED <<tracking, slab_list>>

\* ~pool.
DestroyPool ==
  /\ slab_list' = << >> /\ free_list' = << >> /\ items' = {}

PoolInit == free_list = << >> /\ slab_list = << >> /\ items = {}

-----------------------------------------------------------------------------
(* Properties.                                                              *)

\* The free list holds each object of the slabs that is not in use, once.
FreeListIsSound ==
  /\ IsInjective(free_list)
  /\ Range(free_list) \intersect {item.at : item \in items} = {}
  /\ Range(free_list) \union {item.at : item \in items}
       = UNION {{slab + (k - 1) * ActualItemSize : k \in 1 .. PoolSlab \div ActualItemSize} :
                  slab \in Range(slab_list)}
=============================================================================
