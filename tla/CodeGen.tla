------------------------------- MODULE CodeGen -------------------------------
(***************************************************************************)
(* The control flow graph compile_second_pass builds for a function.       *)
(*                                                                         *)
(* The nodes of a body are compiled one inside the other, all through one  *)
(* builder that appends to its insert block; if and for make new blocks    *)
(* and move the builder, let and for also insert allocas in the entry      *)
(* block through a builder of their own.  `frames' is the C++ stack of     *)
(* nodes being compiled, with the locals of each, and `results' the values *)
(* their children have returned.  Which names and types a body may have is *)
(* the matter of ScopeResolution: here a body is any that type checks.     *)
(*                                                                         *)
(* Once compiled, the function runs, one instruction at a time, side by    *)
(* side with `tokens': the body as it was written, a linear program with   *)
(* structured jumps.  This second machine is what the graph is checked     *)
(* against.                                                                *)
(*                                                                         *)
(* History kept for the properties, never read by a guard: tokens, with    *)
(* the `place' of an instruction in them, known and anchored.              *)
(***************************************************************************)
EXTENDS Integers, FiniteSets, SequencesExt

CONSTANTS
  Arities,    \* the numbers of arguments a function may have
  MaxBody,       \* bound: the nodes and bindings of a body, constants apart
  MaxArguments   \* bound: the arguments of a call

ASSUME BoundsAssumption == Arities \subseteq Nat /\ MaxBody \in Nat /\ MaxArguments \in Nat

Constant == 0      \* a value that needs no instruction
ModuleVariable == 0   \* a target of set that is no local
NoValue  == -1     \* a null llvm::Value*
AtEnd    == 0      \* an insertion point at the end of its block

VARIABLES
  phase,     \* emit, run or returned
  blocks,    \* the basic blocks made so far, each a sequence of instructions
  placed,    \* those in the function's list of blocks
  insert,    \* the builder's insert block
  frames, results,
  size,      \* the nodes and bindings begun so far, constants apart
  anchored,  \* history: no alloca went after the branch that ends the entry block
  tokens,    \* history: the body as written
  known,     \* history: for each block, what has been computed on every way into it
  at,        \* the run: block and instruction, and the block it came from
  ran,       \* the run: the instructions executed
  place      \* the run: the place in tokens

shape  == <<placed, insert, known>>
graph  == <<blocks, shape>>
emit   == <<graph, frames, results, size, anchored, tokens>>
run    == <<at, ran, place>>
vars   == <<phase, emit, run>>

Entry == 1
Terminators == {"br", "condbr", "ret"}

\* An instruction: what it uses, where it branches, where a phi comes from, and the
\* place in the body at which control comes to it.
Instruction(op, id, uses, to, from) ==
  [op |-> op, id |-> id, uses |-> uses, to |-> to, from |-> from, place |-> Len(tokens) + 1]

\* The identity of the n-th instruction to come.
Fresh(n) == n + Cardinality(UNION {{b} \X DOMAIN blocks[b] : b \in DOMAIN blocks})

\* What the instructions of a block compute, and what has been computed at its end.
Computed(block) == {block[i].id : i \in {j \in DOMAIN block : block[j].op \notin Terminators}}
Made(b) == known[b] \union Computed(blocks[b])

Top == Last(frames)
Delivered == Len(results) - Top.base

\* A node whose child is to be compiled next.  Nothing follows a constant in a
\* body: it would be dropped.
WantsChild ==
  /\ phase = "emit"
  /\ Delivered > 0 => Last(results) # Constant
  /\ Top.form = "call" => Delivered < MaxArguments
  /\ Top.form \in {"if", "set"} \/ Top.stage \in {"bind", "cond"} => Delivered = 0

Count == size < MaxBody /\ size' = size + 1

\* What the body says, instruction by instruction: do this; go on with the next if the
\* condition holds, else elsewhere; go elsewhere.
Token(kind, id, to) == [kind |-> kind, id |-> id, to |-> to]
Do(id)       == Token("do", id, 0)
Test(id)     == Token("test", id, 0)
Jump(id, to) == Token("jump", id, to)

DropLast(s, n) == SubSeq(s, 1, Len(s) - n)

-----------------------------------------------------------------------------
(* Code generation.                                                         *)

\* Mutant of InsertAlloca: at the end of the entry block, wherever the builder was made.
InsertAllocaAtEnd(entry, anchor, id) ==
  Append(entry, Instruction("alloca", id, << >>, << >>, << >>))

\* An alloca goes before the instruction the entry builder was made at.
InsertAlloca(entry, anchor, id) ==
  LET alloca == Instruction("alloca", id, << >>, << >>, << >>)
      k == CHOOSE i \in DOMAIN entry : entry[i].id = anchor
  IN  IF anchor = AtEnd THEN Append(entry, alloca)
      ELSE InsertAt(entry, k, [alloca EXCEPT !.place = entry[k].place])

\* Where a builder made at the beginning of the entry block inserts.
Anchor == IF blocks[Entry] = << >> THEN AtEnd ELSE Head(blocks[Entry]).id

Frame(form, stage) ==
  [form |-> form, stage |-> stage, base |-> Len(results), anchor |-> Anchor,
   locals |-> {}, blocks |-> << >>, test |-> 0, mark |-> 0]

\* initialize_function: an alloca and a store for each argument, a store that no node
\* of the body stands for.
Prologue(arity) ==
  [k \in 1 .. 2 * arity |->
     IF k % 2 = 1 THEN Instruction("alloca", k, << >>, << >>, << >>)
     ELSE Instruction("argument", k, <<k - 1>>, << >>, << >>)]

\* An instruction of a node, and its token.
Append1(op, uses) ==
  /\ blocks' = [blocks EXCEPT ![insert] =
                  Append(@, Instruction(op, Fresh(1), uses, << >>, << >>))]
  /\ tokens' = Append(tokens, Do(Fresh(1)))

\* numeric_constant_ast_node.
EmitConstant ==
  /\ WantsChild
  /\ results' = Append(results, Constant)
  /\ UNCHANGED <<phase, graph, frames, size, anchored, tokens, run>>

\* variable_chain_ast_node: a load of a local in scope.
EmitLoad(local) ==
  /\ WantsChild /\ Count
  /\ \E k \in DOMAIN frames : local \in frames[k].locals
  /\ Append1("load", <<local>>)
  /\ results' = Append(results, Fresh(1))
  /\ UNCHANGED <<phase, shape, frames, anchored, run>>

\* A node with children: call, set, let, for, if.
Enter(form) ==
  /\ WantsChild /\ Count
  /\ frames' = Append(frames, Frame(form, CASE form \in {"call", "set"} -> "body"
                                            [] form = "if" -> "cond"
                                            [] OTHER -> "bind"))
  /\ UNCHANGED <<phase, graph, results, anchored, tokens, run>>

\* function_call_ast_node: arguments that are not void, each where it is in results,
\* and a value unless the function is.
CloseCall(valued) ==
  /\ phase = "emit" /\ Top.form = "call"
  /\ Append1("call", [k \in {j \in Top.base + 1 .. Len(results) : results[j] # NoValue} |->
                        results[k]])
  /\ results' = Append(DropLast(results, Delivered), IF valued THEN Fresh(1) ELSE NoValue)
  /\ frames'  = Front(frames)
  /\ UNCHANGED <<phase, shape, size, anchored, run>>

\* set_ast_node: the value is stored, and is the value of the set.  Nothing is stored
\* when the value is void, or the target is a variable of the module.
CloseSet(target) ==
  /\ phase = "emit" /\ Top.form = "set" /\ Delivered = 1
  /\ IF Last(results) = NoValue \/ target = ModuleVariable
     THEN UNCHANGED <<blocks, tokens>>
     ELSE Append1("store", <<Last(results), target>>)
  /\ frames' = Front(frames)
  /\ UNCHANGED <<phase, shape, results, size, anchored, run>>

\* Mutant of Bind: the alloca is made where the builder is.
BindInPlace ==
  /\ phase = "emit" /\ Top.stage = "bind" /\ Delivered = 1 /\ Last(results) # NoValue /\ Count
  /\ blocks' = [blocks EXCEPT ![insert] = @ \o
                  <<Instruction("store", Fresh(2), <<Last(results), Fresh(1)>>, << >>, << >>),
                    Instruction("alloca", Fresh(1), << >>, << >>, << >>)>>]
  /\ tokens'  = Append(tokens, Do(Fresh(2)))
  /\ results' = Front(results)
  /\ frames'  = [frames EXCEPT ![Len(frames)].locals = @ \union {Fresh(1)}]
  /\ UNCHANGED <<phase, shape, anchored, run>>

\* initialize_assign_block, for one variable.  A void one has no place.
Bind ==
  /\ phase = "emit" /\ Top.stage = "bind" /\ Delivered = 1 /\ Count
  /\ results' = Front(results)
  /\ IF Last(results) = NoValue
     THEN UNCHANGED <<blocks, known, tokens, frames, anchored>>
     ELSE LET store == Instruction("store", Fresh(2), <<Last(results), Fresh(1)>>, << >>, << >>)
              entry == InsertAlloca(blocks[Entry], Top.anchor, Fresh(1))
          IN  /\ blocks' = [[blocks EXCEPT ![Entry] = entry] EXCEPT ![insert] = Append(@, store)]
              /\ known' = [b \in DOMAIN known |->
                             IF b = Entry THEN known[b] ELSE known[b] \union {Fresh(1)}]
              /\ tokens' = Append(tokens, Do(Fresh(2)))
              /\ frames' = [frames EXCEPT ![Len(frames)].locals = @ \union {Fresh(1)}]
              /\ anchored' = (anchored /\ (Top.anchor = AtEnd => insert = Entry))
  /\ UNCHANGED <<phase, placed, insert, run>>

\* The bindings of a let are over.
EndBindings ==
  /\ phase = "emit" /\ Top.form = "let" /\ Top.stage = "bind" /\ Delivered = 0
  /\ frames' = [frames EXCEPT ![Len(frames)].stage = "body"]
  /\ UNCHANGED <<phase, graph, results, size, anchored, tokens, run>>

\* let returns the value of its last child.
CloseLet ==
  /\ phase = "emit" /\ Top.form = "let" /\ Top.stage = "body" /\ Delivered >= 1
  /\ results' = Append(DropLast(results, Delivered), Last(results))
  /\ frames'  = Front(frames)
  /\ UNCHANGED <<phase, graph, size, anchored, tokens, run>>

\* The builder ends its block with a branch, and goes on in block b, there being n more.
Branch(op, uses, to, b, n) ==
  /\ blocks' = [blocks EXCEPT ![insert] =
                  Append(@, Instruction(op, Fresh(1), uses, to, << >>))] \o [k \in 1 .. n |-> << >>]
  /\ known' = known \o [k \in 1 .. n |-> Made(insert)]
  /\ insert' = b

\* for_loop_ast_node, its bindings over: three blocks, and on to the condition.
\* It keeps them in this order: loop update, cond block, exit block.
BeginLoop ==
  /\ phase = "emit" /\ Top.form = "for" /\ Top.stage = "bind" /\ Delivered = 0
  /\ LET n == Len(blocks) IN
     /\ Branch("br", << >>, <<n + 2>>, n + 2, 3)
     /\ placed' = placed \union {n + 1, n + 2, n + 3}
     /\ frames' = [frames EXCEPT ![Len(frames)] =
                     [@ EXCEPT !.stage = "cond", !.blocks = <<n + 1, n + 2, n + 3>>,
                               !.mark = Len(tokens) + 2]]
  /\ tokens' = Append(tokens, Jump(Fresh(1), Len(tokens) + 2))
  /\ UNCHANGED <<phase, results, size, anchored, run>>

\* The condition of for is compiled: loop or leave.
BranchLoop ==
  /\ phase = "emit" /\ Top.form = "for" /\ Top.stage = "cond" /\ Delivered = 1
  /\ Last(results) # NoValue
  /\ Branch("condbr", <<Last(results)>>, <<Top.blocks[1], Top.blocks[3]>>, Top.blocks[1], 0)
  /\ tokens'  = Append(tokens, Test(Fresh(1)))
  /\ results' = Front(results)
  /\ frames'  = [frames EXCEPT ![Len(frames)] =
                   [@ EXCEPT !.stage = "body", !.test = Len(tokens) + 1]]
  /\ UNCHANGED <<phase, placed, size, anchored, run>>

\* Mutant of CloseLoop: the body goes back to its own first block.
CloseLoopOnItself ==
  /\ phase = "emit" /\ Top.form = "for" /\ Top.stage = "body" /\ Delivered >= 1
  /\ Branch("br", << >>, <<Top.blocks[1]>>, Top.blocks[3], 0)
  /\ tokens'  = [Append(tokens, Jump(Fresh(1), Top.mark)) EXCEPT ![Top.test].to = Len(tokens) + 2]
  /\ results' = Append(DropLast(results, Delivered), NoValue)
  /\ frames'  = Front(frames)
  /\ UNCHANGED <<phase, placed, size, anchored, run>>

\* The body and the updates of for are compiled: back to the condition.
CloseLoop ==
  /\ phase = "emit" /\ Top.form = "for" /\ Top.stage = "body" /\ Delivered >= 1
  /\ Branch("br", << >>, <<Top.blocks[2]>>, Top.blocks[3], 0)
  /\ tokens'  = [Append(tokens, Jump(Fresh(1), Top.mark)) EXCEPT ![Top.test].to = Len(tokens) + 2]
  /\ results' = Append(DropLast(results, Delivered), NoValue)
  /\ frames'  = Front(frames)
  /\ UNCHANGED <<phase, placed, size, anchored, run>>

\* if_ast_node, its condition compiled: then, else and merge blocks, of which
\* only the first is the function's yet.
BranchIf ==
  /\ phase = "emit" /\ Top.form = "if" /\ Top.stage = "cond" /\ Delivered = 1
  /\ Last(results) # NoValue
  /\ LET n == Len(blocks) IN
     /\ Branch("condbr", <<Last(results)>>, <<n + 1, n + 2>>, n + 1, 3)
     /\ placed' = placed \union {n + 1}
     /\ frames' = [frames EXCEPT ![Len(frames)] =
                     [@ EXCEPT !.stage = "then", !.blocks = <<n + 1, n + 2, n + 3>>,
                               !.test = Len(tokens) + 1]]
  /\ tokens'  = Append(tokens, Test(Fresh(1)))
  /\ results' = Front(results)
  /\ UNCHANGED <<phase, size, anchored, run>>

\* The then part is over: a branch to merge, and on to the else block.
LeaveThen ==
  /\ phase = "emit" /\ Top.form = "if" /\ Top.stage = "then" /\ Delivered = 1
  /\ Branch("br", << >>, <<Top.blocks[3]>>, Top.blocks[2], 0)
  /\ placed' = placed \union {Top.blocks[2]}
  /\ tokens' = [Append(tokens, Jump(Fresh(1), 0)) EXCEPT ![Top.test].to = Len(tokens) + 2]
  /\ UNCHANGED <<phase, results, size, anchored, run>>

\* Mutant of BeginElse: the block that ends the then part is not looked up again.
BeginElseStale ==
  /\ LeaveThen
  /\ frames' = [frames EXCEPT ![Len(frames)] =
                  [Top EXCEPT !.stage = "else", !.base = Top.base + 1, !.mark = Len(tokens) + 1]]

\* The then part is compiled: ThenBB is now the block it ended in.
BeginElse ==
  /\ LeaveThen
  /\ frames' = [frames EXCEPT ![Len(frames)] =
                  [Top EXCEPT !.stage = "else", !.base = Top.base + 1, !.mark = Len(tokens) + 1,
                              !.blocks[1] = insert]]

\* The else part is compiled: merge, with a phi of the two values unless the type
\* is void.  The type checker lets only branches of one type through.
CloseIf ==
  /\ phase = "emit" /\ Top.form = "if" /\ Top.stage = "else" /\ Delivered = 1
  /\ LET else == Last(results)
         then == results[Len(results) - 1]
         phi  == [Instruction("phi", Fresh(2), <<then, else>>, << >>, <<Top.blocks[1], insert>>)
                    EXCEPT !.place = @ + 1]
     IN  /\ (then = NoValue) = (else = NoValue)
         /\ blocks' = [blocks EXCEPT
              ![insert] = Append(@, Instruction("br", Fresh(1), << >>, <<Top.blocks[3]>>, << >>)),
              ![Top.blocks[3]] = IF then = NoValue THEN << >> ELSE <<phi>>]
         /\ results' = Append(DropLast(results, 2), IF then = NoValue THEN NoValue ELSE Fresh(2))
  /\ insert' = Top.blocks[3] /\ placed' = placed \union {Top.blocks[3]}
  /\ tokens' = [Append(tokens, Jump(Fresh(1), Len(tokens) + 2))
                  EXCEPT ![Top.mark].to = Len(tokens) + 2]
  /\ frames' = Front(frames)
  /\ UNCHANGED <<phase, known, size, anchored, run>>

\* The end of function_node_impl::compile_second_pass.  The function is complete,
\* and may be called.
EndFunction ==
  /\ phase = "emit" /\ Top.form = "function" /\ Delivered >= 1
  /\ blocks' = [blocks EXCEPT ![insert] =
                  Append(@, Instruction("ret", Fresh(1),
                              IF Last(results) = NoValue THEN << >> ELSE <<Last(results)>>,
                              << >>, << >>))]
  /\ phase' = "run"
  /\ frames' = << >> /\ results' = << >>
  /\ UNCHANGED <<shape, size, anchored, tokens, run>>

-----------------------------------------------------------------------------
(* The run: LLVM's side, and the body as written.                           *)

Current == blocks[at.block][at.i]

Running(ops) ==
  /\ phase = "run"
  /\ at.i \in DOMAIN blocks[at.block]
  /\ Current.op \in ops

\* The instructions that the body says; the others are the compiler's own.
Written == {"load", "store", "call", "br", "condbr"}

\* Instructions the programmer wrote move both machines, others only the graph.
Step ==
  /\ Running({"load", "store", "call", "alloca", "argument", "phi"})
  /\ ran' = ran \union {Current.id}
  /\ at'  = [at EXCEPT !.i = @ + 1]
  /\ place' = IF Current.op \in Written THEN place + 1 ELSE place
  /\ UNCHANGED <<phase, emit>>

GoTo(b) == at' = [block |-> b, i |-> 1, from |-> at.block]

StepBranch ==
  /\ Running({"br"})
  /\ GoTo(Current.to[1])
  /\ place' = tokens[place].to
  /\ UNCHANGED <<phase, emit, ran>>

StepCondition(holds) ==
  /\ Running({"condbr"})
  /\ GoTo(Current.to[IF holds THEN 1 ELSE 2])
  /\ place' = IF holds THEN place + 1 ELSE tokens[place].to
  /\ UNCHANGED <<phase, emit, ran>>

StepReturn ==
  /\ Running({"ret"})
  /\ phase' = "returned"
  /\ UNCHANGED <<emit, run>>

Init ==
  /\ phase = "emit" /\ tokens = << >>
  /\ \E arity \in Arities :
       /\ blocks = <<Prologue(arity)>>
       /\ frames = <<[form |-> "function", stage |-> "body", base |-> 0, anchor |-> AtEnd,
                      locals |-> {2 * k - 1 : k \in 1 .. arity}, blocks |-> << >>, test |-> 0, mark |-> 0]>>
  /\ placed = {Entry} /\ insert = Entry
  /\ results = << >> /\ size = 0 /\ anchored = TRUE
  /\ known = <<{}>>
  /\ at = [block |-> Entry, i |-> 1, from |-> Entry]
  /\ ran = {} /\ place = 1

Emit ==
  \/ EmitConstant
  \/ \E k \in DOMAIN frames : \E local \in frames[k].locals : EmitLoad(local)
  \/ \E form \in {"call", "set", "let", "for", "if"} : Enter(form)
  \/ \E target \in {ModuleVariable} \union UNION {frames[k].locals : k \in DOMAIN frames} :
       CloseSet(target)
  \/ \E valued \in BOOLEAN : CloseCall(valued)
  \/ Bind \/ EndBindings \/ CloseLet
  \/ BeginLoop \/ BranchLoop \/ CloseLoop
  \/ BranchIf \/ BeginElse \/ CloseIf
  \/ EndFunction

Run ==
  \/ Step \/ StepBranch \/ StepReturn
  \/ \E holds \in BOOLEAN : StepCondition(holds)

Next == Emit \/ Run

Spec == Init /\ [][Next]_vars

-----------------------------------------------------------------------------
(* Properties.                                                              *)

Complete == phase # "emit"

\* Each block of a compiled function is the function's, and ends with its only
\* terminator.
WellTerminated ==
  /\ placed = DOMAIN blocks
  /\ \A b \in DOMAIN blocks :
       /\ blocks[b] # << >> /\ Last(blocks[b]).op \in Terminators
       /\ \A i \in 1 .. Len(blocks[b]) - 1 : blocks[b][i].op \notin Terminators

\* verifyFunction accepts the blocks, unless a let or a for was compiled first of
\* all in a function without arguments and a value it binds has branches.
BlocksWellFormed == Complete /\ anchored => WellTerminated

\* The blocks a phi names are those that branch to it, whatever was compiled
\* between the making of a block and the branch that leaves its successors.
Predecessors(b) ==
  {p \in DOMAIN blocks : \E i \in DOMAIN blocks[p] : b \in Range(blocks[p][i].to)}
PhisNamePredecessors ==
  Complete =>
    \A b \in DOMAIN blocks : \A i \in DOMAIN blocks[b] :
      blocks[b][i].op = "phi" =>
        /\ Range(blocks[b][i].from) = Predecessors(b)
        /\ Cardinality(Predecessors(b)) = 2

\* On every path of every body the graph does what the body says, in its order:
\* a local is stored to where it is bound or set, each condition decides the part
\* that was written after it, each loop goes back to its condition, and the function
\* returns at the end and nowhere else.
RunsAsWritten ==
  phase = "run" /\ anchored =>
    /\ at.i \in DOMAIN blocks[at.block]
    /\ Current.op \in Written =>
         /\ place \in DOMAIN tokens /\ tokens[place].id = Current.id
         /\ tokens[place].kind = CASE Current.op = "br" -> "jump"
                                   [] Current.op = "condbr" -> "test"
                                   [] OTHER -> "do"
    /\ Current.op = "ret" => place = Len(tokens) + 1

\* On every path a value is computed, and a local has its place, before it is used.
UsesAreDefined ==
  phase = "run" /\ anchored /\ at.i \in DOMAIN blocks[at.block] =>
    IF Current.op = "phi"
    THEN \E k \in DOMAIN Current.from :
           Current.from[k] = at.from /\ Current.uses[k] \in ran \union {Constant}
    ELSE Range(Current.uses) \subseteq ran \union {Constant}

\* module.cpp:260, verifyFunction: what compile_second_pass has built is a
\* well-formed function.
FunctionsVerify == Complete => WellTerminated
=============================================================================
