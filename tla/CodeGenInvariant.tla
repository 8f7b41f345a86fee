--------------------------- MODULE CodeGenInvariant ---------------------------
(***************************************************************************)
(* Why the graph of CodeGen is well formed and runs as its body is         *)
(* written: the inductive invariant.  Blocks a frame has made and not come *)
(* to are Pending: empty, each awaited by one frame, which knows who       *)
(* branches to it.  All others but the insert block are closed.  Control   *)
(* that comes to a block finds what is known there, and stands in the body *)
(* where the block begins; both pass from a block to those it branches to. *)
(*                                                                         *)
(* In the definitions B are the blocks, K what is known in each, F the     *)
(* frames, R the results, T the tokens, Q the pending blocks, N the block  *)
(* that is being filled if there is one, and p the insert block.           *)
(***************************************************************************)
EXTENDS CodeGen

Ops == {"alloca", "argument", "load", "store", "call", "phi", "br", "condbr", "ret"}

\* What the C++ stack, the graph and the body are made of.
Uses         == UNION {[D -> Int] : D \in SUBSET Nat}
Instructions == [op : Ops, id : Nat \ {0}, uses : Uses, to : Seq(Nat), from : Seq(Nat),
                 place : Nat]
Blocks       == Seq(Seq(Instructions))
Tokens       == [kind : {"do", "test", "jump"}, id : Nat, to : Nat]
Frames       == [form : {"function", "call", "set", "let", "for", "if"},
                 stage : {"bind", "cond", "body", "then", "else"},
                 base : Nat, anchor : Nat, locals : SUBSET Nat, blocks : Seq(Nat),
                 test : Nat, mark : Nat]

\* The shape of the state.
TypeOK ==
  /\ phase \in {"emit", "run", "returned"}
  /\ blocks \in Blocks /\ insert \in DOMAIN blocks
  /\ known \in Seq(SUBSET Nat) /\ Len(known) = Len(blocks)
  /\ frames \in Seq(Frames) /\ results \in Seq(Int)
  /\ size \in Nat /\ anchored \in BOOLEAN
  /\ tokens \in Seq(Tokens)
  /\ at \in [block : Nat, i : Nat, from : Nat] /\ ran \in SUBSET Nat
  /\ anchored => place \in Nat

-----------------------------------------------------------------------------
(* The blocks and the frames that make them.                                *)

Looping(f)   == f.form = "for" /\ f.stage \in {"cond", "body"}
HasBlocks(f) == Looping(f) \/ f.stage \in {"then", "else"}

\* The blocks frame f has made and not come to.
Waiting(f) ==
  CASE f.stage = "then" -> {f.blocks[2], f.blocks[3]}
    [] f.stage = "else" -> {f.blocks[3]}
    [] f.form = "for" /\ f.stage = "cond" -> {f.blocks[1], f.blocks[3]}
    [] f.form = "for" /\ f.stage = "body" -> {f.blocks[3]}
    [] OTHER -> {}
Pending(F) == UNION {Waiting(F[k]) : k \in DOMAIN F}

\* Those among them that are not the function's yet.
Unplaced(F) == UNION {Waiting(F[k]) : k \in {j \in DOMAIN F : F[j].form = "if"}}

\* The block that is being filled.
Filling(F, p) == IF F = << >> THEN {} ELSE {p}

\* The results f was called with; its own begin behind the value of its then part.
Below(f) == IF f.stage = "else" THEN f.base - 1 ELSE f.base

FormOK(f) ==
  /\ f.form # "if" => f.stage \in {"bind", "cond", "body"}
  /\ f.form = "if" => f.stage \in {"cond", "then", "else"}
  /\ f.stage = "bind" => f.form \in {"let", "for"}
  /\ f.stage = "else" => f.base >= 1

FrameOK(f, R, B) ==
  /\ FormOK(f)
  /\ f.base <= Len(R)
  /\ f.anchor # AtEnd => \E i \in DOMAIN B[Entry] : B[Entry][i].id = f.anchor
  /\ HasBlocks(f) =>
       /\ Len(f.blocks) = 3 /\ Range(f.blocks) \subseteq 1 .. Len(B)
       /\ f.blocks[1] # f.blocks[3] /\ f.blocks[2] # f.blocks[3]
       /\ f.blocks[2] # Entry /\ f.blocks[3] # Entry
       /\ f.stage # "else" => f.blocks[1] # Entry

\* Each frame is inside the one below it.
FramesNest(F, R, B) ==
  /\ \A k \in DOMAIN F : FrameOK(F[k], R, B) /\ (F[k].form = "function" <=> k = 1)
  /\ \A j, k \in DOMAIN F : j < k =>
       F[j].base <= Below(F[k]) /\ Waiting(F[j]) \intersect Waiting(F[k]) = {}

\* A block has no terminator, or just one, its last instruction.
Open(block) == \A i \in DOMAIN block : block[i].op \notin Terminators
Closed(block) ==
  /\ block # << >> /\ Last(block).op \in Terminators
  /\ \A i \in 1 .. Len(block) - 1 : block[i].op \notin Terminators

\* Where each block stands, and where the entry block does while it is anchored.
Stands(B, Q, N) ==
  /\ Q \union N \subseteq DOMAIN B /\ Entry \notin Q /\ N \intersect Q = {}
  /\ \A b \in Q : B[b] = << >>
  /\ \A b \in N : Open(B[b])
  /\ \A b \in DOMAIN B \ (Q \union N) : B[b] # << >> /\ (b # Entry => Closed(B[b]))
EntryStands(B, N) == Entry \in N \/ Closed(B[Entry])

Layout ==
  /\ FramesNest(frames, results, blocks)
  /\ Stands(blocks, Pending(frames), Filling(frames, insert))
  /\ anchored => EntryStands(blocks, Filling(frames, insert))
  /\ placed = DOMAIN blocks \ Unplaced(frames)

-----------------------------------------------------------------------------
(* The branches.                                                            *)

\* All instructions of the graph, and the blocks that branch to c.
Code(B)       == UNION {Range(B[b]) : b \in DOMAIN B}
Sources(B, c) == {b \in DOMAIN B : \E i \in DOMAIN B[b] : c \in Range(B[b][i].to)}

\* An instruction in a graph of n blocks.
BranchOK(ins, n) ==
  /\ Range(ins.to) \subseteq (1 .. n) \ {Entry}
  /\ Len(ins.to) = CASE ins.op = "br" -> 1 [] ins.op = "condbr" -> 2 [] OTHER -> 0
  /\ ins.op = "condbr" => ins.to[1] # ins.to[2]

\* A phi is first in its block, and has a value for each block that branches there.
PhiOK(B, N, b, i) ==
  LET phi == B[b][i] IN
  /\ i = 1
  /\ DOMAIN phi.from = 1 .. 2 /\ DOMAIN phi.uses = 1 .. 2 /\ phi.from[1] # phi.from[2]
  /\ Range(phi.from) = Sources(B, b) /\ Range(phi.from) \intersect N = {}

BranchesOK(B, N) ==
  /\ \A ins \in Code(B) : BranchOK(ins, Len(B))
  /\ \A b \in DOMAIN B : \A i \in DOMAIN B[b] : B[b][i].op = "phi" => PhiOK(B, N, b, i)

\* The loop of f has its condition in a block without phis, and its body has begun
\* when the condition is over; the then part of f ended in a block.
BlocksOK(f, B, Q, p) ==
  /\ Looping(f) => /\ f.blocks[2] \notin Q
                   /\ \A i \in DOMAIN B[f.blocks[2]] : B[f.blocks[2]][i].op # "phi"
                   /\ f.stage = "body" => f.blocks[2] # p
  /\ f.stage = "then" => Sources(B, f.blocks[3]) = {}
  /\ f.stage = "else" => /\ f.blocks[1] \notin Q \union {p}
                         /\ Sources(B, f.blocks[3]) = {f.blocks[1]}

Edges ==
  /\ BranchesOK(blocks, Filling(frames, insert))
  /\ \A k \in DOMAIN frames : BlocksOK(frames[k], blocks, Pending(frames), insert)

-----------------------------------------------------------------------------
(* What is known where.                                                     *)

\* What has been computed at the end of a block, and when control comes to instruction
\* i of block b.
MadeIn(B, K, b)    == K[b] \union Computed(B[b])
Before(B, K, b, i) == K[b] \union {B[b][j].id : j \in 1 .. i - 1}

UsesKnown(B, K, b, i) ==
  LET ins == B[b][i] IN
  IF ins.op = "phi"
  THEN \A n \in 1 .. 2 : ins.uses[n] \in MadeIn(B, K, ins.from[n]) \union {Constant}
  ELSE Range(ins.uses) \subseteq Before(B, K, b, i) \union {Constant}

\* A block knows no more than those that branch to it have made.
Flow(B, K) ==
  /\ K[Entry] = {}
  /\ \A b \in DOMAIN B : \A i \in DOMAIN B[b] :
       /\ UsesKnown(B, K, b, i)
       /\ \A c \in Range(B[b][i].to) : K[c] \subseteq Before(B, K, b, i)

Available(v, set) == v \in set \union {Constant, NoValue}

\* Result j is the value of a then part, to be used by a phi and by nothing else.
ThenValue(F, j) == \E k \in DOMAIN F : F[k].stage = "else" /\ F[k].base = j

\* What is known where frame f ends.
Level(f, K) == K[f.blocks[3]]

\* A frame ends with what was known when it branched: with the results below it.
LevelOK(f, F, R, B, K, p) ==
  HasBlocks(f) =>
    /\ Looping(f) => K[f.blocks[1]] = Level(f, K) /\ K[f.blocks[2]] = Level(f, K)
    /\ f.stage = "then" => K[f.blocks[2]] = Level(f, K)
    /\ Level(f, K) \subseteq MadeIn(B, K, p)
    /\ \A j \in 1 .. Below(f) : ThenValue(F, j) \/ Available(R[j], Level(f, K))
    /\ f.stage = "else" => Available(R[f.base], MadeIn(B, K, f.blocks[1]))

FramesKnow(F, R, B, K, p) ==
  /\ \A k \in DOMAIN F :
       /\ LevelOK(F[k], F, R, B, K, p)
       /\ \A b \in DOMAIN B : F[k].locals \subseteq MadeIn(B, K, b)
  /\ \A j, k \in DOMAIN F :
       j < k /\ HasBlocks(F[j]) /\ HasBlocks(F[k]) => Level(F[j], K) \subseteq Level(F[k], K)
  /\ \A j \in DOMAIN R : ThenValue(F, j) \/ Available(R[j], MadeIn(B, K, p))

Knowledge == Flow(blocks, known) /\ FramesKnow(frames, results, blocks, known, insert)

-----------------------------------------------------------------------------
(* Where in the body each block stands.                                     *)

\* The place after an instruction that falls through, and that of the first of a block.
Next1(ins)     == IF ins.op \in Written THEN ins.place + 1 ELSE ins.place
First(B, T, b) == IF B[b] = << >> THEN Len(T) + 1 ELSE B[b][1].place

\* What the body says where the instruction is.
Said(ins, T) ==
  ins.op \in Written =>
    /\ ins.place \in DOMAIN T /\ T[ins.place].id = ins.id
    /\ T[ins.place].kind = CASE ins.op = "br" -> "jump"
                             [] ins.op = "condbr" -> "test"
                             [] OTHER -> "do"

\* A branch goes to the block that begins where the body goes on.
LeadsOn(ins, B, T, Q) ==
  /\ ins.op = "br" /\ ins.to[1] \notin Q => T[ins.place].to = First(B, T, ins.to[1])
  /\ ins.op = "condbr" =>
       /\ ins.to[1] \notin Q => ins.place + 1 = First(B, T, ins.to[1])
       /\ ins.to[2] \notin Q => T[ins.place].to = First(B, T, ins.to[2])

PathOK(B, T, Q, N) ==
  /\ First(B, T, Entry) = 1
  /\ \A ins \in Code(B) :
       /\ Said(ins, T) /\ LeadsOn(ins, B, T, Q)
       /\ ins.op = "ret" => N = {} /\ ins.place = Len(T) + 1
  /\ \A b \in DOMAIN B : \A i \in 1 .. Len(B[b]) - 1 : B[b][i + 1].place = Next1(B[b][i])
  /\ \A b \in N : B[b] # << >> => Next1(Last(B[b])) = Len(T) + 1

\* The instruction at place x, and no other, branches to c, by the last of n ways.
Awaited(B, T, x, n, c) ==
  /\ x \in DOMAIN T
  /\ \A ins \in Code(B) :
       /\ c \in Range(ins.to) <=> ins.op \in Written /\ ins.place = x
       /\ c \in Range(ins.to) => Len(ins.to) = n /\ ins.to[n] = c
Untargeted(B, c) == \A ins \in Code(B) : c \notin Range(ins.to)

FramePlace(f, B, T) ==
  /\ Looping(f) => First(B, T, f.blocks[2]) = f.mark
  /\ Looping(f) /\ f.stage = "cond" => Untargeted(B, f.blocks[1]) /\ Untargeted(B, f.blocks[3])
  /\ Looping(f) /\ f.stage = "body" => Awaited(B, T, f.test, 2, f.blocks[3])
  /\ f.stage = "then" => Awaited(B, T, f.test, 2, f.blocks[2]) /\ Untargeted(B, f.blocks[3])
  /\ f.stage = "else" => Awaited(B, T, f.mark, 1, f.blocks[3])

Places ==
  /\ PathOK(blocks, tokens, Pending(frames), Filling(frames, insert))
  /\ \A k \in DOMAIN frames : FramePlace(frames[k], blocks, tokens)

-----------------------------------------------------------------------------
(* The run.                                                                 *)

RunOK ==
  /\ frames = << >> <=> phase # "emit"
  /\ phase = "emit" => at = [block |-> Entry, i |-> 1, from |-> Entry] /\ ran = {} /\ place = 1
  /\ phase # "emit" => at.block \in DOMAIN blocks
  /\ phase = "run" /\ anchored =>
       /\ at.i \in DOMAIN blocks[at.block]
       /\ place = Current.place
       /\ Before(blocks, known, at.block, at.i) \subseteq ran
       /\ Current.op = "phi" =>
            at.from \in Sources(blocks, at.block) /\ MadeIn(blocks, known, at.from) \subseteq ran

IInv ==
  /\ TypeOK
  /\ Layout
  /\ Edges
  /\ anchored => Knowledge /\ Places
  /\ RunOK
=============================================================================
