------------------------- MODULE AllocatorContract -------------------------
(***************************************************************************)
(* What the users of memory rely on: a block that is handed out is theirs  *)
(* alone until they, or the compiler that ends, give it back.              *)
(***************************************************************************)
EXTENDS Integers, FiniteSets

CONSTANT MaxAddress

VARIABLE live   \* the blocks in use

\* The addresses of a block.
Bytes(block) == block.at .. block.at + block.size - 1

\* A block of which every byte is memory, and nobody else's.
Hand(block) ==
  /\ block.at > 0 /\ block.size > 0
  /\ block.at % block.alignment = 0
  /\ block.at + block.size - 1 <= MaxAddress
  /\ \A other \in live : Bytes(block) \intersect Bytes(other) = {}
  /\ live' = live \union {block}

\* Some of them are given back.
Release == live' \subseteq live

Init == live = {}

Next ==
  \/ \E block \in live' \ live : Hand(block)
  \/ Release

Spec == Init /\ [][Next]_live
=============================================================================
