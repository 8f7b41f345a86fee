--------------------------- MODULE CodeGen_proofs ---------------------------
(***************************************************************************)
(* Proofs about CodeGen, for every number of arguments and bodies of any   *)
(* size: IInv (module CodeGenInvariant) holds initially and is preserved   *)
(* by each step.  An action is taken apart into what it does to the graph  *)
(* (an instruction at the end of a block, with or without new blocks, an   *)
(* alloca in the entry block, a phi) and what it does to the stacks; the   *)
(* lemmas say what each of these keeps, part by part of the invariant.     *)
(***************************************************************************)
EXTENDS CodeGenInvariant, StackLemmas

-----------------------------------------------------------------------------
(* Graphs.                                                                  *)

\* Indices of the blocks and of their instructions.
LEMMA BlockFacts ==
  ASSUME NEW B \in Blocks
  PROVE  /\ Len(B) \in Nat /\ DOMAIN B = 1 .. Len(B)
         /\ \A b \in DOMAIN B :
              /\ B[b] \in Seq(Instructions)
              /\ Len(B[b]) \in Nat /\ DOMAIN B[b] = 1 .. Len(B[b])
              /\ B[b] # << >> <=> Len(B[b]) >= 1
              /\ \A i \in DOMAIN B[b] : B[b][i] \in Instructions
<1>1. Len(B) \in Nat /\ DOMAIN B = 1 .. Len(B)
  BY LenProperties DEF Blocks
<1>2. ASSUME NEW b \in DOMAIN B
      PROVE  /\ B[b] \in Seq(Instructions)
             /\ Len(B[b]) \in Nat /\ DOMAIN B[b] = 1 .. Len(B[b])
             /\ B[b] # << >> <=> Len(B[b]) >= 1
             /\ \A i \in DOMAIN B[b] : B[b][i] \in Instructions
  <2>1. B[b] \in Seq(Instructions)
    BY <1>1, ElementOfSeq DEF Blocks
  <2>2. Len(B[b]) \in Nat /\ DOMAIN B[b] = 1 .. Len(B[b])
    BY <2>1, LenProperties
  <2>3. B[b] # << >> <=> Len(B[b]) >= 1
    BY <2>1, EmptySeq
  <2> QED
    BY <2>1, <2>2, <2>3, ElementOfSeq
<1> QED
  BY <1>1, <1>2

\* C is B with ins at the end of block p, and n more blocks.
Grows(B, C, p, ins, n) ==
  /\ B \in Blocks /\ C \in Blocks /\ p \in DOMAIN B /\ ins \in Instructions /\ n \in Nat
  /\ Len(C) = Len(B) + n
  /\ Len(C[p]) = Len(B[p]) + 1 /\ C[p][Len(B[p]) + 1] = ins
  /\ \A i \in 1 .. Len(B[p]) : C[p][i] = B[p][i]
  /\ \A b \in 1 .. Len(B) : b # p => C[b] = B[b]
  /\ \A b \in Len(B) + 1 .. Len(B) + n : C[b] = << >>

\* An instruction at the end of a block.
LEMMA AppendGrows ==
  ASSUME NEW B \in Blocks, NEW p \in DOMAIN B, NEW ins \in Instructions
  PROVE  Grows(B, [B EXCEPT ![p] = Append(@, ins)], p, ins, 0)
<1> DEFINE C == [B EXCEPT ![p] = Append(B[p], ins)]
<1>1. /\ Append(B[p], ins) \in Seq(Instructions)
      /\ Len(Append(B[p], ins)) = Len(B[p]) + 1
      /\ \A i \in 1 .. Len(B[p]) : Append(B[p], ins)[i] = B[p][i]
      /\ Append(B[p], ins)[Len(B[p]) + 1] = ins
  BY BlockFacts, AppendProperties
<1>2. p \in 1 .. Len(B)
  BY BlockFacts
<1>3. /\ C \in Blocks /\ Len(C) = Len(B)
      /\ \A b \in 1 .. Len(B) : C[b] = IF b = p THEN Append(B[p], ins) ELSE B[b]
  BY <1>1, <1>2, ExceptSeq DEF Blocks
<1> HIDE DEF C
<1>4. Len(C) = Len(B) + 0 /\ \A b \in Len(B) + 1 .. Len(B) + 0 : C[b] = << >>
  BY <1>3, BlockFacts
<1>5. C[p] = Append(B[p], ins)
  BY <1>2, <1>3
<1>6. Grows(B, C, p, ins, 0)
  BY <1>1, <1>3, <1>4, <1>5, 0 \in Nat DEF Grows
<1> QED
  BY <1>6 DEF C

\* An instruction at the end of a block, and n blocks behind the others.
LEMMA BranchGrows ==
  ASSUME NEW B \in Blocks, NEW p \in DOMAIN B, NEW ins \in Instructions, NEW n \in Nat
  PROVE  Grows(B, [B EXCEPT ![p] = Append(@, ins)] \o [k \in 1 .. n |-> << >>], p, ins, n)
<1> DEFINE C == [B EXCEPT ![p] = Append(@, ins)]
           E == [k \in 1 .. n |-> << >>]
<1>1. Grows(B, C, p, ins, 0)
  BY AppendGrows
<1>2. E \in Seq(Seq(Instructions)) /\ Len(E) = n /\ \A k \in 1 .. n : E[k] = << >>
  <2>1. << >> \in Seq(Instructions)
    BY EmptySeq
  <2>2. E \in [1 .. n -> Seq(Instructions)]
    BY <2>1
  <2>3. E \in Seq(Seq(Instructions))
    BY <2>2, SeqDef
  <2>4. Len(E) \in Nat /\ DOMAIN E = 1 .. Len(E) /\ DOMAIN E = 1 .. n
    BY <2>3, LenProperties
  <2> QED
    BY <2>3, <2>4
<1> HIDE DEF C, E
<1>3. C \in Seq(Seq(Instructions)) /\ Len(C) = Len(B) /\ Len(B) \in Nat /\ DOMAIN B = 1 .. Len(B)
  BY <1>1, BlockFacts DEF Grows, Blocks
<1>4. /\ C \o E \in Seq(Seq(Instructions)) /\ Len(C \o E) = Len(B) + n
      /\ \A b \in 1 .. Len(B) + n : (C \o E)[b] = IF b <= Len(B) THEN C[b] ELSE E[b - Len(B)]
  <2>1. /\ C \o E \in Seq(Seq(Instructions)) /\ Len(C \o E) = Len(C) + Len(E)
        /\ \A b \in 1 .. Len(C) + Len(E) :
             (C \o E)[b] = IF b <= Len(C) THEN C[b] ELSE E[b - Len(C)]
    BY <1>2, <1>3, ConcatProperties
  <2> QED
    BY <1>2, <1>3, <2>1
<1>5. \A b \in 1 .. Len(B) : (C \o E)[b] = C[b]
  BY <1>3, <1>4
<1>6. \A b \in Len(B) + 1 .. Len(B) + n : (C \o E)[b] = << >>
  BY <1>2, <1>3, <1>4
<1>7. (C \o E)[p] = C[p]
  BY <1>3, <1>5
<1>8. Grows(B, C \o E, p, ins, n)
  BY <1>1, <1>3, <1>4, <1>5, <1>6, <1>7 DEF Grows, Blocks
<1> QED
  BY <1>8 DEF C, E

\* What is where in C.
LEMMA GrowsFacts ==
  ASSUME NEW B, NEW C, NEW p, NEW ins, NEW n, Grows(B, C, p, ins, n)
  PROVE  /\ DOMAIN B \subseteq DOMAIN C /\ p \in DOMAIN B /\ B \in Blocks
         /\ \A b \in DOMAIN B : b # p => C[b] = B[b]
         /\ DOMAIN C[p] = DOMAIN B[p] \union {Len(C[p])} /\ Len(C[p]) \notin DOMAIN B[p]
         /\ C[p] # << >> /\ Last(C[p]) = ins /\ C[p][Len(C[p])] = ins
         /\ \A b \in DOMAIN B : DOMAIN B[b] \subseteq DOMAIN C[b]
         /\ \A b \in DOMAIN B : \A i \in DOMAIN B[b] : C[b][i] = B[b][i]
         /\ \A b \in DOMAIN C \ DOMAIN B : C[b] = << >>
         /\ \A b \in DOMAIN C \ DOMAIN B : DOMAIN C[b] = {}
<1>1. /\ Len(B) \in Nat /\ DOMAIN B = 1 .. Len(B) /\ DOMAIN C = 1 .. Len(B) + n
      /\ Len(B[p]) \in Nat /\ DOMAIN B[p] = 1 .. Len(B[p]) /\ DOMAIN C[p] = 1 .. Len(B[p]) + 1
      /\ C[p] # << >>
  <2>1. /\ Len(B) \in Nat /\ DOMAIN B = 1 .. Len(B) /\ DOMAIN C = 1 .. Len(B) + n
        /\ Len(B[p]) \in Nat /\ DOMAIN B[p] = 1 .. Len(B[p])
    BY BlockFacts DEF Grows
  <2>2. p \in DOMAIN C
    BY <2>1 DEF Grows
  <2> QED
    BY <2>1, <2>2, BlockFacts DEF Grows
<1>2. \A b \in DOMAIN B : b # p => C[b] = B[b]
  BY <1>1 DEF Grows
<1>3. \A b \in DOMAIN C \ DOMAIN B : C[b] = << >>
  BY <1>1 DEF Grows
<1>8. \A b \in DOMAIN C \ DOMAIN B : DOMAIN C[b] = {}
  BY <1>3
<1>4. C[p] # << >> /\ Last(C[p]) = ins /\ C[p][Len(C[p])] = ins
  BY <1>1 DEF Grows, Last
<1>5. DOMAIN C[p] = DOMAIN B[p] \union {Len(C[p])} /\ Len(C[p]) \notin DOMAIN B[p]
  BY <1>1 DEF Grows
<1>6. \A i \in DOMAIN B[p] : C[p][i] = B[p][i]
  BY <1>1 DEF Grows
<1>7. DOMAIN B \subseteq DOMAIN C /\ p \in DOMAIN B /\ B \in Blocks
  BY <1>1 DEF Grows
<1> QED
  BY <1>2, <1>3, <1>4, <1>5, <1>6, <1>7, <1>8

\* The blocks there are.
LEMMA GrowsDomain ==
  ASSUME NEW B, NEW C, NEW p, NEW ins, NEW n, Grows(B, C, p, ins, n)
  PROVE  /\ n \in Nat /\ Len(B) \in Nat /\ Len(C) = Len(B) + n
         /\ DOMAIN B = 1 .. Len(B) /\ DOMAIN C = 1 .. Len(C)
         /\ n = 0 => DOMAIN C = DOMAIN B
  BY BlockFacts DEF Grows

\* Its code, and who branches where.
LEMMA GrowsCode ==
  ASSUME NEW B, NEW C, NEW p, NEW ins, NEW n, Grows(B, C, p, ins, n)
  PROVE  /\ Code(C) = Code(B) \union {ins}
         /\ \A c : Sources(C, c) = IF c \in Range(ins.to) THEN Sources(B, c) \union {p}
                                                          ELSE Sources(B, c)
<1>0. /\ DOMAIN B \subseteq DOMAIN C /\ p \in DOMAIN B
      /\ \A b \in DOMAIN B : b # p => C[b] = B[b]
      /\ DOMAIN C[p] = DOMAIN B[p] \union {Len(C[p])} /\ C[p][Len(C[p])] = ins
      /\ \A b \in DOMAIN B : DOMAIN B[b] \subseteq DOMAIN C[b]
      /\ \A b \in DOMAIN B : \A i \in DOMAIN B[b] : C[b][i] = B[b][i]
      /\ \A b \in DOMAIN C \ DOMAIN B : DOMAIN C[b] = {}
  BY GrowsFacts
<1>1. \A b \in DOMAIN C : \A i \in DOMAIN C[b] :
        \/ b \in DOMAIN B /\ i \in DOMAIN B[b] /\ C[b][i] = B[b][i]
        \/ b = p /\ C[b][i] = ins
  BY <1>0
<1>2. Code(C) = Code(B) \union {ins}
  <2>1. ASSUME NEW x \in Code(C) PROVE x \in Code(B) \union {ins}
    BY <1>1 DEF Code, Range
  <2>2. ASSUME NEW x \in Code(B) PROVE x \in Code(C)
    <3>1. PICK b \in DOMAIN B : x \in Range(B[b])
      BY DEF Code
    <3>2. PICK i \in DOMAIN B[b] : x = B[b][i]
      BY <3>1 DEF Range
    <3> QED
      BY <1>0, <3>2 DEF Code, Range
  <2>3. ins \in Code(C)
    BY <1>0 DEF Code, Range
  <2> QED
    BY <2>1, <2>2, <2>3
<1>3. ASSUME NEW c
      PROVE  Sources(C, c) = IF c \in Range(ins.to) THEN Sources(B, c) \union {p}
                                                    ELSE Sources(B, c)
  <2>1. ASSUME NEW b \in Sources(C, c)
        PROVE  b \in Sources(B, c) \/ (b = p /\ c \in Range(ins.to))
    BY <1>1 DEF Sources
  <2>2. Sources(B, c) \subseteq Sources(C, c)
    BY <1>0 DEF Sources
  <2>3. c \in Range(ins.to) => p \in Sources(C, c)
    BY <1>0 DEF Sources
  <2> QED
    BY <2>1, <2>2, <2>3
<1> QED
  BY <1>2, <1>3

\* An instruction, where it stands, and the blocks it branches to.
LEMMA CodeFacts ==
  ASSUME NEW B \in Blocks
  PROVE  /\ Code(B) \subseteq Instructions
         /\ \A b \in DOMAIN B : \A i \in DOMAIN B[b] : B[b][i] \in Code(B)
         /\ \A ins \in Code(B) : \E b \in DOMAIN B : \E i \in DOMAIN B[b] : ins = B[b][i]
         /\ \A b \in DOMAIN B : \A i \in DOMAIN B[b] : \A c \in Range(B[b][i].to) :
              b \in Sources(B, c)
         /\ \A c : Untargeted(B, c) => Sources(B, c) = {}
<1>1. \A ins \in Code(B) : \E b \in DOMAIN B : \E i \in DOMAIN B[b] : ins = B[b][i]
  BY DEF Code, Range
<1>2. \A b \in DOMAIN B : \A i \in DOMAIN B[b] : B[b][i] \in Code(B)
  BY DEF Code, Range
<1>3. Code(B) \subseteq Instructions
  BY <1>1, BlockFacts
<1>4. \A b \in DOMAIN B : \A i \in DOMAIN B[b] : \A c \in Range(B[b][i].to) : b \in Sources(B, c)
  BY DEF Sources
<1>5. \A c : Untargeted(B, c) => Sources(B, c) = {}
  BY <1>2 DEF Sources, Untargeted
<1> QED
  BY <1>1, <1>2, <1>3, <1>4, <1>5

-----------------------------------------------------------------------------
(* Where each block stands.                                                 *)

\* An instruction that ends no block.
LEMMA StandsAppend ==
  ASSUME NEW B, NEW C, NEW p, NEW ins, Grows(B, C, p, ins, 0), ins.op \notin Terminators,
         NEW Q, Stands(B, Q, {p})
  PROVE  /\ Stands(C, Q, {p})
         /\ EntryStands(B, {p}) => EntryStands(C, {p})
<1>1. /\ DOMAIN C = DOMAIN B
      /\ \A b \in DOMAIN B : b # p => C[b] = B[b]
      /\ DOMAIN C[p] = DOMAIN B[p] \union {Len(C[p])} /\ C[p][Len(C[p])] = ins
      /\ \A i \in DOMAIN B[p] : C[p][i] = B[p][i]
  BY GrowsFacts, GrowsDomain
<1>2. p \notin Q /\ Q \subseteq DOMAIN B /\ Open(B[p])
  BY DEF Stands
<1>3. Open(C[p])
  BY <1>1, <1>2 DEF Open
<1>4. \A b \in DOMAIN B : b # p => (C[b] = << >> <=> B[b] = << >>) /\ (Closed(B[b]) => Closed(C[b]))
  BY <1>1
<1>5. Stands(C, Q, {p})
  BY <1>1, <1>2, <1>3, <1>4 DEF Stands
<1>6. EntryStands(B, {p}) => EntryStands(C, {p})
  BY <1>1, BlockFacts DEF Grows, EntryStands, Entry
<1> QED
  BY <1>5, <1>6

\* An instruction that ends its block, with the builder on to a block that is pending or
\* new.
LEMMA StandsBranch ==
  ASSUME NEW B, NEW C, NEW p, NEW ins, NEW n, Grows(B, C, p, ins, n),
         ins.op \in Terminators,
         NEW Q, Stands(B, Q, {p}),
         NEW b \in Q \union (DOMAIN C \ DOMAIN B),
         NEW R, R = (Q \union (DOMAIN C \ DOMAIN B)) \ {b}
  PROVE  /\ Stands(C, R, {b})
         /\ EntryStands(B, {p}) => EntryStands(C, {b})
<1>1. /\ DOMAIN B \subseteq DOMAIN C /\ p \in DOMAIN B
      /\ \A c \in DOMAIN B : c # p => C[c] = B[c]
      /\ \A c \in DOMAIN C \ DOMAIN B : C[c] = << >>
  BY GrowsFacts
<1>2. Q \subseteq DOMAIN B /\ Entry \notin Q /\ p \notin Q /\ Open(B[p])
  BY DEF Stands
<1>3. Closed(C[p])
  <2>1. /\ C[p] # << >> /\ Last(C[p]).op \in Terminators
        /\ DOMAIN C[p] = DOMAIN B[p] \union {Len(C[p])}
        /\ \A i \in DOMAIN B[p] : C[p][i] = B[p][i]
    BY GrowsFacts
  <2>2. Len(C[p]) \in Nat /\ DOMAIN C[p] = 1 .. Len(C[p])
    BY <1>1, BlockFacts DEF Grows
  <2>3. \A i \in 1 .. Len(C[p]) - 1 : i \in DOMAIN B[p]
    BY <2>1, <2>2
  <2> QED
    BY <1>2, <2>1, <2>3 DEF Closed, Open
<1>4. Entry \in DOMAIN B
  BY <1>1, GrowsDomain DEF Entry
<1>5. \A c \in Q \union (DOMAIN C \ DOMAIN B) : C[c] = << >>
  BY <1>1, <1>2 DEF Stands
<1>6. Open(C[b])
  BY <1>5 DEF Open
<1>7. \A c \in DOMAIN C \ (R \union {b}) : C[c] # << >> /\ (c # Entry => Closed(C[c]))
  <2> TAKE c \in DOMAIN C \ (R \union {b})
  <2>1. c \in DOMAIN B \ Q
    OBVIOUS
  <2>2. CASE c = p
    BY <1>3, <2>2 DEF Closed
  <2>3. CASE c # p
    BY <1>1, <2>1, <2>3 DEF Stands
  <2> QED
    BY <2>2, <2>3
<1>8. Stands(C, R, {b})
  BY <1>1, <1>2, <1>4, <1>5, <1>6, <1>7 DEF Stands
<1>9. EntryStands(B, {p}) => EntryStands(C, {b})
  BY <1>1, <1>3, <1>4 DEF EntryStands
<1> QED
  BY <1>8, <1>9

\* The instruction that ends the function.
LEMMA StandsReturn ==
  ASSUME NEW B, NEW C, NEW p, NEW ins, Grows(B, C, p, ins, 0), ins.op \in Terminators,
         Stands(B, {}, {p})
  PROVE  /\ Stands(C, {}, {})
         /\ EntryStands(B, {p}) => EntryStands(C, {})
<1>1. /\ DOMAIN C = DOMAIN B /\ p \in DOMAIN B
      /\ \A c \in DOMAIN B : c # p => C[c] = B[c]
  BY GrowsFacts, GrowsDomain
<1>2. Closed(C[p])
  <2>1. /\ C[p] # << >> /\ Last(C[p]).op \in Terminators
        /\ DOMAIN C[p] = DOMAIN B[p] \union {Len(C[p])}
        /\ \A i \in DOMAIN B[p] : C[p][i] = B[p][i]
    BY GrowsFacts
  <2>2. Len(C[p]) \in Nat /\ DOMAIN C[p] = 1 .. Len(C[p])
    BY <1>1, BlockFacts DEF Grows
  <2>3. \A i \in 1 .. Len(C[p]) - 1 : i \in DOMAIN B[p]
    BY <2>1, <2>2
  <2>4. Open(B[p])
    BY DEF Stands
  <2> QED
    BY <2>1, <2>3, <2>4 DEF Closed, Open
<1>3. Entry \in DOMAIN B
  BY <1>1, GrowsDomain DEF Entry
<1>4. \A c \in DOMAIN C : C[c] # << >> /\ (c # Entry => Closed(C[c]))
  <2> TAKE c \in DOMAIN C
  <2>1. CASE c = p
    BY <1>2, <2>1 DEF Closed
  <2>2. CASE c # p
    BY <1>1, <2>2 DEF Stands
  <2> QED
    BY <2>1, <2>2
<1> QED
  BY <1>1, <1>2, <1>3, <1>4 DEF Stands, EntryStands

-----------------------------------------------------------------------------
(* The branches.                                                            *)

\* A block that branches has an instruction.
LEMMA SourceFacts ==
  ASSUME NEW B, NEW c, NEW b \in Sources(B, c)
  PROVE  b \in DOMAIN B /\ DOMAIN B[b] # {}
  BY DEF Sources

\* An instruction that is no phi, to blocks without phis; then a block is filled that
\* was filled before, or has nothing in it.
LEMMA BranchesGrow ==
  ASSUME NEW B, NEW C, NEW p, NEW ins, NEW n, Grows(B, C, p, ins, n),
         ins.op # "phi", BranchOK(ins, Len(C)),
         \A c \in Range(ins.to) \intersect DOMAIN B : \A i \in DOMAIN B[c] : B[c][i].op # "phi",
         NEW N, BranchesOK(B, N),
         NEW M, \A b \in M : b \in N \/ b \notin DOMAIN B \/ B[b] = << >>
  PROVE  BranchesOK(C, M)
<1>1. /\ DOMAIN B \subseteq DOMAIN C /\ p \in DOMAIN B
      /\ DOMAIN C[p] = DOMAIN B[p] \union {Len(C[p])} /\ C[p][Len(C[p])] = ins
      /\ \A b \in DOMAIN B : b # p => C[b] = B[b]
      /\ \A b \in DOMAIN B : \A i \in DOMAIN B[b] : C[b][i] = B[b][i]
      /\ \A b \in DOMAIN C \ DOMAIN B : DOMAIN C[b] = {}
  BY GrowsFacts
<1>2. /\ Code(C) = Code(B) \union {ins}
      /\ \A c : c \notin Range(ins.to) => Sources(C, c) = Sources(B, c)
  BY GrowsCode
<1>3. ASSUME NEW x \in Code(C) PROVE BranchOK(x, Len(C))
  <2>1. CASE x \in Code(B)
    <3>1. BranchOK(x, Len(B)) /\ 1 .. Len(B) \subseteq 1 .. Len(C)
      BY <1>1, <2>1, GrowsDomain DEF BranchesOK
    <3> QED
      BY <3>1 DEF BranchOK
  <2> QED
    BY <1>2, <2>1
<1>4. ASSUME NEW b \in DOMAIN C, NEW i \in DOMAIN C[b], C[b][i].op = "phi"
      PROVE  PhiOK(C, M, b, i)
  <2>1. b \in DOMAIN B /\ i \in DOMAIN B[b] /\ C[b][i] = B[b][i]
    BY <1>1, <1>4
  <2>2. PhiOK(B, N, b, i)
    BY <1>4, <2>1 DEF BranchesOK
  <2>3. Sources(C, b) = Sources(B, b)
    BY <1>2, <1>4, <2>1
  <2>4. \A c \in Sources(B, b) : c \notin M
    <3> TAKE c \in Sources(B, b)
    <3>1. c \in DOMAIN B /\ B[c] # << >> /\ c \notin N
      BY <2>2, SourceFacts DEF PhiOK
    <3> QED
      BY <3>1
  <2> QED
    BY <2>1, <2>2, <2>3, <2>4 DEF PhiOK
<1> QED
  BY <1>3, <1>4 DEF BranchesOK

\* A phi of the blocks that branch to the one being filled.
LEMMA BranchesPhi ==
  ASSUME NEW B, NEW C, NEW p, NEW phi, Grows(B, C, p, phi, 0), B[p] = << >>,
         phi.op = "phi", Len(phi.to) = 0, Range(phi.to) = {},
         DOMAIN phi.from = 1 .. 2, DOMAIN phi.uses = 1 .. 2, phi.from[1] # phi.from[2],
         Range(phi.from) = Sources(B, p),
         BranchesOK(B, {p})
  PROVE  BranchesOK(C, {p})
<1>1. /\ DOMAIN C = DOMAIN B /\ p \in DOMAIN B
      /\ DOMAIN C[p] = DOMAIN B[p] \union {Len(C[p])} /\ C[p][Len(C[p])] = phi
      /\ \A b \in DOMAIN B : b # p => C[b] = B[b]
      /\ Len(C) = Len(B)
  BY GrowsFacts, GrowsDomain
<1>2. /\ Code(C) = Code(B) \union {phi}
      /\ \A c : Sources(C, c) = Sources(B, c)
  BY GrowsCode
<1>3. BranchOK(phi, Len(C))
  BY DEF BranchOK
<1>4. DOMAIN C[p] = {1} /\ C[p][1] = phi
  BY <1>1, BlockFacts DEF Grows
<1>5. \A b \in DOMAIN B : b # p => \A i \in DOMAIN B[b] :
        B[b][i].op = "phi" => PhiOK(C, {p}, b, i)
  BY <1>1, <1>2 DEF BranchesOK, PhiOK
<1>6. PhiOK(C, {p}, p, 1)
  <2>1. p \notin Sources(B, p)
    BY SourceFacts
  <2> QED
    BY <1>2, <1>4, <2>1 DEF PhiOK
<1>7. \A x \in Code(C) : BranchOK(x, Len(C))
  BY <1>1, <1>2, <1>3 DEF BranchesOK
<1>8. ASSUME NEW b \in DOMAIN C, NEW i \in DOMAIN C[b], C[b][i].op = "phi"
      PROVE  PhiOK(C, {p}, b, i)
  <2>1. CASE b = p
    BY <1>4, <1>6, <1>8, <2>1
  <2>2. CASE b # p
    BY <1>1, <1>5, <1>8, <2>2
  <2> QED
    BY <2>1, <2>2
<1> QED
  BY <1>7, <1>8 DEF BranchesOK

\* The blocks of a frame.
LEMMA FrameBlocks ==
  ASSUME NEW f, NEW R, NEW B, FrameOK(f, R, B), HasBlocks(f), f.blocks \in Seq(Nat),
         B \in Blocks
  PROVE  /\ f.blocks[1] \in DOMAIN B /\ f.blocks[2] \in DOMAIN B /\ f.blocks[3] \in DOMAIN B
         /\ f.blocks[1] # f.blocks[3] /\ f.blocks[2] # f.blocks[3]
         /\ f.blocks[2] # Entry /\ f.blocks[3] # Entry
         /\ f.stage # "else" => f.blocks[1] # Entry
<1>1. DOMAIN f.blocks = 1 .. 3 /\ Range(f.blocks) \subseteq DOMAIN B
  BY LenProperties, BlockFacts DEF FrameOK
<1> QED
  BY <1>1 DEF FrameOK, Range

\* What a frame knows about its blocks, after an instruction that goes to none of those it
\* waits for.
LEMMA FrameBlocksKept ==
  ASSUME NEW B, NEW C, NEW p, NEW ins, NEW n, Grows(B, C, p, ins, n),
         NEW f, NEW Rs, FrameOK(f, Rs, B), f.blocks \in Seq(Nat),
         NEW Q, BlocksOK(f, B, Q, p),
         Range(ins.to) \intersect Waiting(f) = {},
         ins.op = "phi" /\ Looping(f) => f.blocks[2] # p,
         NEW R, R \subseteq Q \union (DOMAIN C \ DOMAIN B),
         NEW b \in Q \union (DOMAIN C \ DOMAIN B) \union {p}
  PROVE  BlocksOK(f, C, R, b)
<1>1. /\ p \in DOMAIN B
      /\ DOMAIN C[p] = DOMAIN B[p] \union {Len(C[p])} /\ C[p][Len(C[p])] = ins
      /\ \A c \in DOMAIN B : c # p => C[c] = B[c]
      /\ \A i \in DOMAIN B[p] : C[p][i] = B[p][i]
  BY GrowsFacts
<1>2. \A c : c \notin Range(ins.to) => Sources(C, c) = Sources(B, c)
  BY GrowsCode
<1>3. HasBlocks(f) => f.blocks[1] \in DOMAIN B /\ f.blocks[2] \in DOMAIN B
  BY FrameBlocks DEF Grows
<1>4. CASE Looping(f)
  <2>1. f.stage \notin {"then", "else"}
    BY <1>4 DEF Looping
  <2>2. f.blocks[2] \in DOMAIN B /\ f.blocks[2] \notin Q
    BY <1>3, <1>4 DEF HasBlocks, BlocksOK
  <2>3. f.blocks[2] \notin R
    BY <2>2
  <2>4. f.stage = "body" => f.blocks[2] # b
    BY <1>4, <2>2 DEF BlocksOK
  <2>5. \A i \in DOMAIN C[f.blocks[2]] : C[f.blocks[2]][i].op # "phi"
    <3>1. \A i \in DOMAIN B[f.blocks[2]] : B[f.blocks[2]][i].op # "phi"
      BY <1>4 DEF BlocksOK
    <3>2. CASE f.blocks[2] = p
      BY <1>1, <1>4, <3>1, <3>2
    <3>3. CASE f.blocks[2] # p
      BY <1>1, <2>2, <3>1, <3>3
    <3> QED
      BY <3>2, <3>3
  <2> QED
    BY <2>1, <2>3, <2>4, <2>5 DEF BlocksOK
<1>5. CASE f.stage = "then"
  <2>1. ~ Looping(f) /\ f.blocks[3] \in Waiting(f)
    BY <1>5 DEF Looping, Waiting
  <2>2. Sources(C, f.blocks[3]) = {}
    BY <1>2, <1>5, <2>1 DEF BlocksOK
  <2> QED
    BY <1>5, <2>1, <2>2 DEF BlocksOK
<1>6. CASE f.stage = "else"
  <2>1. ~ Looping(f) /\ f.blocks[3] \in Waiting(f)
    BY <1>6 DEF Looping, Waiting
  <2>2. Sources(C, f.blocks[3]) = {f.blocks[1]}
    BY <1>2, <1>6, <2>1 DEF BlocksOK
  <2>3. f.blocks[1] \in DOMAIN B /\ f.blocks[1] \notin Q \union {p}
    BY <1>3, <1>6 DEF BlocksOK, HasBlocks
  <2> QED
    BY <1>6, <2>1, <2>2, <2>3 DEF BlocksOK
<1> QED
  BY <1>4, <1>5, <1>6 DEF BlocksOK

-----------------------------------------------------------------------------
(* An alloca in the entry block.                                            *)

\* C is B with ins at position k of the entry block.
Inserts(B, C, k, ins) ==
  /\ B \in Blocks /\ C \in Blocks /\ Len(C) = Len(B) /\ Entry \in DOMAIN B
  /\ ins \in Instructions /\ ins.op = "alloca"
  /\ Range(ins.to) = {} /\ Len(ins.to) = 0 /\ Range(ins.uses) = {}
  /\ k \in 1 .. Len(B[Entry]) + 1
  /\ Len(C[Entry]) = Len(B[Entry]) + 1 /\ C[Entry][k] = ins
  /\ \A i \in 1 .. k - 1 : C[Entry][i] = B[Entry][i]
  /\ \A i \in k .. Len(B[Entry]) : C[Entry][i + 1] = B[Entry][i]
  /\ \A b \in DOMAIN B : b # Entry => C[b] = B[b]

\* The indices of the entry block.
LEMMA InsertsDomain ==
  ASSUME NEW B, NEW C, NEW k, NEW ins, Inserts(B, C, k, ins)
  PROVE  /\ DOMAIN B = 1 .. Len(B) /\ DOMAIN C = 1 .. Len(C) /\ Entry \in DOMAIN C
         /\ Len(B[Entry]) \in Nat /\ DOMAIN B[Entry] = 1 .. Len(B[Entry])
         /\ DOMAIN C[Entry] = 1 .. Len(B[Entry]) + 1
         /\ k \in DOMAIN C[Entry] /\ k \in Nat
<1>1. /\ DOMAIN B = 1 .. Len(B) /\ DOMAIN C = 1 .. Len(C) /\ Entry \in DOMAIN C
      /\ Len(B[Entry]) \in Nat /\ DOMAIN B[Entry] = 1 .. Len(B[Entry])
  BY BlockFacts DEF Inserts
<1>2. DOMAIN C[Entry] = 1 .. Len(B[Entry]) + 1
  BY <1>1, BlockFacts DEF Inserts
<1> QED
  BY <1>1, <1>2 DEF Inserts

\* Where the instructions are now: from where they came, or new.
LEMMA InsertsFacts ==
  ASSUME NEW B, NEW C, NEW k, NEW ins, Inserts(B, C, k, ins)
  PROVE  /\ DOMAIN C = DOMAIN B /\ Entry \in DOMAIN B /\ Range(ins.to) = {}
         /\ ins.op = "alloca" /\ ins.op \notin Terminators
         /\ \A b \in DOMAIN B : b # Entry => C[b] = B[b]
         /\ k \in DOMAIN C[Entry] /\ C[Entry][k] = ins /\ C[Entry] # << >>
         /\ \A i \in DOMAIN B[Entry] : \E j \in DOMAIN C[Entry] : C[Entry][j] = B[Entry][i]
         /\ \A j \in DOMAIN C[Entry] :
              C[Entry][j] = ins \/ \E i \in DOMAIN B[Entry] : C[Entry][j] = B[Entry][i]
<1>1. /\ DOMAIN C = DOMAIN B
      /\ Len(B[Entry]) \in Nat /\ DOMAIN B[Entry] = 1 .. Len(B[Entry])
      /\ DOMAIN C[Entry] = 1 .. Len(B[Entry]) + 1
  BY InsertsDomain DEF Inserts
<1>3. k \in DOMAIN C[Entry] /\ k \in Nat
  BY InsertsDomain
<1>4. ASSUME NEW i \in DOMAIN B[Entry]
      PROVE  \E j \in DOMAIN C[Entry] : C[Entry][j] = B[Entry][i]
  <2>1. CASE i < k
    <3>1. i \in DOMAIN C[Entry] /\ i \in 1 .. k - 1
      BY <1>1, <1>3, <2>1
    <3> QED
      BY <3>1 DEF Inserts
  <2>2. CASE ~ i < k
    <3>1. i + 1 \in DOMAIN C[Entry] /\ i \in k .. Len(B[Entry])
      BY <1>1, <1>3, <2>2
    <3> QED
      BY <3>1 DEF Inserts
  <2> QED
    BY <2>1, <2>2
<1>5. ASSUME NEW j \in DOMAIN C[Entry], j # k
      PROVE  \E i \in DOMAIN B[Entry] : C[Entry][j] = B[Entry][i]
  <2>1. CASE j < k
    <3>1. j \in DOMAIN B[Entry] /\ j \in 1 .. k - 1
      BY <1>1, <1>3, <2>1
    <3> QED
      BY <3>1 DEF Inserts
  <2>2. CASE ~ j < k
    <3>1. j - 1 \in DOMAIN B[Entry] /\ j - 1 \in k .. Len(B[Entry]) /\ (j - 1) + 1 = j
      BY <1>1, <1>3, <1>5, <2>2
    <3> QED
      BY <3>1 DEF Inserts
  <2> QED
    BY <2>1, <2>2
<1>6. C[Entry] # << >> /\ C[Entry][k] = ins /\ Entry \in DOMAIN B /\ Range(ins.to) = {}
  BY <1>1, InsertsDomain, BlockFacts DEF Inserts
<1>7. \A b \in DOMAIN B : b # Entry => C[b] = B[b]
  BY DEF Inserts
<1>8. ins.op = "alloca" /\ ins.op \notin Terminators
  BY DEF Inserts, Terminators
<1> QED
  BY <1>1, <1>3, <1>4, <1>5, <1>6, <1>7, <1>8

\* Its first and its last instruction.
LEMMA InsertsEnds ==
  ASSUME NEW B, NEW C, NEW k, NEW ins, Inserts(B, C, k, ins)
  PROVE  /\ C[Entry][1] = IF k = 1 THEN ins ELSE B[Entry][1]
         /\ k \in DOMAIN B[Entry] => Last(C[Entry]) = Last(B[Entry])
         /\ k \notin DOMAIN B[Entry] => k = Len(C[Entry]) /\ Last(C[Entry]) = ins
<1>1. /\ Len(B[Entry]) \in Nat /\ DOMAIN B[Entry] = 1 .. Len(B[Entry])
      /\ DOMAIN C[Entry] = 1 .. Len(B[Entry]) + 1
      /\ k \in DOMAIN C[Entry] /\ k \in Nat
  BY InsertsDomain
<1>2. C[Entry][1] = IF k = 1 THEN ins ELSE B[Entry][1]
  <2>1. CASE k = 1
    BY <2>1 DEF Inserts
  <2>2. CASE k # 1
    <3>1. 1 \in 1 .. k - 1
      BY <1>1, <2>2
    <3> QED
      BY <2>2, <3>1 DEF Inserts
  <2> QED
    BY <2>1, <2>2
<1>3. ASSUME k \in DOMAIN B[Entry] PROVE Last(C[Entry]) = Last(B[Entry])
  <2>1. Len(B[Entry]) \in k .. Len(B[Entry])
    BY <1>1, <1>3
  <2> QED
    BY <2>1 DEF Inserts, Last
<1>4. ASSUME k \notin DOMAIN B[Entry] PROVE k = Len(C[Entry]) /\ Last(C[Entry]) = ins
  <2>1. k = Len(B[Entry]) + 1
    BY <1>1, <1>4
  <2> QED
    BY <2>1 DEF Inserts, Last
<1> QED
  BY <1>2, <1>3, <1>4

\* An alloca in the entry block is the only new code, and no branch has changed.
LEMMA InsertsCode ==
  ASSUME NEW B, NEW C, NEW k, NEW ins, Inserts(B, C, k, ins)
  PROVE  Code(C) = Code(B) \union {ins} /\ \A c : Sources(C, c) = Sources(B, c)
<1>1. /\ DOMAIN C = DOMAIN B /\ Entry \in DOMAIN B
      /\ \A b \in DOMAIN B : b # Entry => C[b] = B[b]
      /\ \A i \in DOMAIN B[Entry] : \E j \in DOMAIN C[Entry] : C[Entry][j] = B[Entry][i]
      /\ \A j \in DOMAIN C[Entry] :
           C[Entry][j] = ins \/ \E i \in DOMAIN B[Entry] : C[Entry][j] = B[Entry][i]
      /\ \E j \in DOMAIN C[Entry] : C[Entry][j] = ins
      /\ Range(ins.to) = {}
  BY InsertsFacts
<1>2. \A b \in DOMAIN B : \A i \in DOMAIN B[b] : \E j \in DOMAIN C[b] : C[b][j] = B[b][i]
  BY <1>1
<1>3. \A b \in DOMAIN B : \A j \in DOMAIN C[b] :
        C[b][j] = ins \/ \E i \in DOMAIN B[b] : C[b][j] = B[b][i]
  BY <1>1
<1>4. Code(C) = Code(B) \union {ins}
  <2>1. ASSUME NEW x \in Code(C) PROVE x \in Code(B) \union {ins}
    BY <1>1, <1>3 DEF Code, Range
  <2>2. ASSUME NEW x \in Code(B) PROVE x \in Code(C)
    <3>1. PICK b \in DOMAIN B : \E i \in DOMAIN B[b] : x = B[b][i]
      BY DEF Code, Range
    <3>2. \E j \in DOMAIN C[b] : C[b][j] = x
      BY <1>2, <3>1
    <3> QED
      BY <1>1, <3>2 DEF Code, Range
  <2>3. ins \in Code(C)
    BY <1>1 DEF Code, Range
  <2> QED
    BY <2>1, <2>2, <2>3
<1>5. ASSUME NEW c PROVE Sources(C, c) = Sources(B, c)
  <2>1. ASSUME NEW b \in Sources(C, c) PROVE b \in Sources(B, c)
    <3>1. b \in DOMAIN B
      BY <1>1 DEF Sources
    <3>2. PICK j \in DOMAIN C[b] : c \in Range(C[b][j].to)
      BY DEF Sources
    <3>3. C[b][j] # ins
      BY <1>1, <3>2
    <3> QED
      BY <1>3, <3>1, <3>2, <3>3 DEF Sources
  <2>2. \A b \in Sources(B, c) : b \in Sources(C, c)
    BY <1>1, <1>2 DEF Sources
  <2> QED
    BY <2>1, <2>2
<1> QED
  BY <1>4, <1>5

\* The entry block stands as it stood, if the alloca is before its end or the block is
\* being filled.
LEMMA StandsInsert ==
  ASSUME NEW B, NEW C, NEW k, NEW ins, Inserts(B, C, k, ins),
         NEW Q, NEW p, Stands(B, Q, {p})
  PROVE  /\ Stands(C, Q, {p})
         /\ EntryStands(B, {p}) /\ (k \notin DOMAIN B[Entry] => Entry = p) => EntryStands(C, {p})
<1>1. /\ DOMAIN C = DOMAIN B /\ Entry \in DOMAIN B
      /\ \A b \in DOMAIN B : b # Entry => C[b] = B[b]
      /\ C[Entry] # << >>
      /\ \A j \in DOMAIN C[Entry] :
           C[Entry][j] = ins \/ \E i \in DOMAIN B[Entry] : C[Entry][j] = B[Entry][i]
  BY InsertsFacts
<1>2. ins.op \notin Terminators
  BY DEF Inserts, Terminators
<1>3. Open(B[Entry]) => Open(C[Entry])
  BY <1>1, <1>2 DEF Open
<1>4. Stands(C, Q, {p})
  <2>1. /\ Q \union {p} \subseteq DOMAIN B /\ Entry \notin Q /\ p \notin Q /\ Open(B[p])
        /\ \A b \in Q : B[b] = << >>
        /\ \A b \in DOMAIN B \ (Q \union {p}) : B[b] # << >> /\ (b # Entry => Closed(B[b]))
    BY DEF Stands
  <2>2. Open(C[p])
    BY <1>1, <1>3, <2>1
  <2>3. \A b \in Q : C[b] = << >>
    BY <1>1, <2>1
  <2>4. \A b \in DOMAIN C \ (Q \union {p}) : C[b] # << >> /\ (b # Entry => Closed(C[b]))
    BY <1>1, <2>1
  <2> QED
    BY <1>1, <2>1, <2>2, <2>3, <2>4 DEF Stands
<1>5. ASSUME k \in DOMAIN B[Entry], Closed(B[Entry]) PROVE Closed(C[Entry])
  <2>1. Last(C[Entry]) = Last(B[Entry])
    BY <1>5, InsertsEnds
  <2>2. /\ Len(B[Entry]) \in Nat /\ DOMAIN B[Entry] = 1 .. Len(B[Entry])
        /\ Len(C[Entry]) = Len(B[Entry]) + 1 /\ k \in Nat
    BY InsertsDomain DEF Inserts
  <2>3. ASSUME NEW i \in 1 .. Len(C[Entry]) - 1 PROVE C[Entry][i].op \notin Terminators
    <3>1. CASE i = k
      BY <1>2, <3>1 DEF Inserts
    <3>2. CASE i < k
      <4>1. i \in 1 .. k - 1 /\ i \in 1 .. Len(B[Entry]) - 1
        BY <1>5, <2>2, <3>2
      <4> QED
        BY <1>5, <4>1 DEF Inserts, Closed
    <3>3. CASE i > k
      <4>1. /\ i - 1 \in k .. Len(B[Entry]) /\ (i - 1) + 1 = i
            /\ i - 1 \in 1 .. Len(B[Entry]) - 1
        BY <1>5, <2>2, <3>3
      <4>2. C[Entry][i] = B[Entry][i - 1]
        BY <4>1 DEF Inserts
      <4> QED
        BY <1>5, <4>1, <4>2 DEF Closed
    <3> QED
      BY <2>2, <3>1, <3>2, <3>3
  <2> QED
    BY <1>1, <1>5, <2>1, <2>3 DEF Closed
<1> QED
  BY <1>4, <1>5 DEF EntryStands

\* Nothing branches to the entry block, and no phi is in it.
LEMMA EntrySources ==
  ASSUME NEW B, NEW N, BranchesOK(B, N)
  PROVE  Sources(B, Entry) = {} /\ \A i \in DOMAIN B[Entry] : Entry \in DOMAIN B => B[Entry][i].op # "phi"
<1>1. Sources(B, Entry) = {}
  <2> SUFFICES ASSUME NEW b \in DOMAIN B, NEW i \in DOMAIN B[b], Entry \in Range(B[b][i].to)
               PROVE  FALSE
    BY DEF Sources
  <2>1. B[b][i] \in Code(B)
    BY DEF Code, Range
  <2> QED
    BY <2>1 DEF BranchesOK, BranchOK
<1>2. ASSUME Entry \in DOMAIN B, NEW i \in DOMAIN B[Entry], B[Entry][i].op = "phi" PROVE FALSE
  <2>1. PhiOK(B, N, Entry, i)
    BY <1>2 DEF BranchesOK
  <2>2. B[Entry][i].from[1] \in Range(B[Entry][i].from)
    BY <2>1 DEF PhiOK, Range
  <2> QED
    BY <1>1, <2>1, <2>2 DEF PhiOK
<1> QED
  BY <1>1, <1>2

\* An alloca in the entry block keeps the branches and the phis.
LEMMA BranchesInsert ==
  ASSUME NEW B, NEW C, NEW k, NEW ins, Inserts(B, C, k, ins),
         NEW N, BranchesOK(B, N)
  PROVE  BranchesOK(C, N)
<1>1. /\ DOMAIN C = DOMAIN B /\ Entry \in DOMAIN B
      /\ \A b \in DOMAIN B : b # Entry => C[b] = B[b]
      /\ \A j \in DOMAIN C[Entry] :
           C[Entry][j] = ins \/ \E i \in DOMAIN B[Entry] : C[Entry][j] = B[Entry][i]
  BY InsertsFacts
<1>2. Code(C) = Code(B) \union {ins} /\ \A c : Sources(C, c) = Sources(B, c)
  BY InsertsCode
<1>3. /\ Len(C) = Len(B) /\ BranchOK(ins, Len(C)) /\ ins.op # "phi"
  BY DEF Inserts, BranchOK
<1>4. \A x \in Code(C) : BranchOK(x, Len(C))
  BY <1>2, <1>3 DEF BranchesOK
<1>5. ASSUME NEW b \in DOMAIN C, NEW i \in DOMAIN C[b], C[b][i].op = "phi"
      PROVE  PhiOK(C, N, b, i)
  <2>1. b # Entry
    BY <1>1, <1>3, <1>5, EntrySources
  <2>2. C[b] = B[b] /\ PhiOK(B, N, b, i)
    BY <1>1, <1>5, <2>1 DEF BranchesOK
  <2> QED
    BY <1>2, <2>2 DEF PhiOK
<1> QED
  BY <1>4, <1>5 DEF BranchesOK

\* An alloca in the entry block keeps what a frame says of its blocks.
LEMMA FrameBlocksInsert ==
  ASSUME NEW B, NEW C, NEW k, NEW ins, Inserts(B, C, k, ins),
         NEW f, NEW Rs, FrameOK(f, Rs, B), f.blocks \in Seq(Nat),
         NEW Q, NEW p, BlocksOK(f, B, Q, p)
  PROVE  BlocksOK(f, C, Q, p)
<1>1. \A b \in DOMAIN B : b # Entry => C[b] = B[b]
  BY InsertsFacts
<1>2. \A c : Sources(C, c) = Sources(B, c)
  BY InsertsCode
<1>3. Looping(f) => C[f.blocks[2]] = B[f.blocks[2]]
  BY <1>1, FrameBlocks DEF Inserts, HasBlocks
<1> QED
  BY <1>2, <1>3 DEF BlocksOK

-----------------------------------------------------------------------------
(* What is known where.                                                     *)

\* L says of the blocks of B what K says.
Extends(B, K, L) == \A b \in DOMAIN B : L[b] = K[b]

\* What has been computed at the end of a block.
LEMMA MadeGrows ==
  ASSUME NEW B, NEW C, NEW p, NEW ins, NEW n, Grows(B, C, p, ins, n),
         NEW K, NEW L, Extends(B, K, L)
  PROVE  /\ \A b \in DOMAIN B : MadeIn(B, K, b) \subseteq MadeIn(C, L, b)
         /\ ins.op \notin Terminators => ins.id \in MadeIn(C, L, p)
         /\ \A b \in DOMAIN C \ DOMAIN B : MadeIn(C, L, b) = L[b]
<1>1. /\ \A b \in DOMAIN B : DOMAIN B[b] \subseteq DOMAIN C[b]
      /\ \A b \in DOMAIN B : \A i \in DOMAIN B[b] : C[b][i] = B[b][i]
      /\ \A b \in DOMAIN C \ DOMAIN B : DOMAIN C[b] = {}
      /\ Len(C[p]) \in DOMAIN C[p] /\ C[p][Len(C[p])] = ins
  BY GrowsFacts
<1>2. ASSUME NEW b \in DOMAIN B PROVE MadeIn(B, K, b) \subseteq MadeIn(C, L, b)
  <2>1. Computed(B[b]) \subseteq Computed(C[b])
    BY <1>1 DEF Computed
  <2> QED
    BY <2>1 DEF MadeIn, Extends
<1>3. ins.op \notin Terminators => ins.id \in MadeIn(C, L, p)
  BY <1>1 DEF MadeIn, Computed
<1>4. \A b \in DOMAIN C \ DOMAIN B : MadeIn(C, L, b) = L[b]
  BY <1>1 DEF MadeIn, Computed
<1> QED
  BY <1>2, <1>3, <1>4

\* Before the instructions there were, and before the new one.
LEMMA BeforeGrows ==
  ASSUME NEW B, NEW C, NEW p, NEW ins, NEW n, Grows(B, C, p, ins, n),
         NEW K, NEW L, Extends(B, K, L)
  PROVE  /\ \A b \in DOMAIN B : \A i \in DOMAIN B[b] : Before(C, L, b, i) = Before(B, K, b, i)
         /\ Open(B[p]) => Before(C, L, p, Len(C[p])) = MadeIn(B, K, p)
<1>1. /\ p \in DOMAIN B /\ \A b \in DOMAIN B : \A i \in DOMAIN B[b] : C[b][i] = B[b][i]
  BY GrowsFacts
<1>2. ASSUME NEW b \in DOMAIN B, NEW i \in DOMAIN B[b]
      PROVE  Before(C, L, b, i) = Before(B, K, b, i)
  <2>1. Len(B[b]) \in Nat /\ DOMAIN B[b] = 1 .. Len(B[b])
    BY BlockFacts DEF Grows
  <2>2. \A j \in 1 .. i - 1 : j \in DOMAIN B[b]
    BY <2>1
  <2>3. \A j \in 1 .. i - 1 : C[b][j].id = B[b][j].id
    BY <1>1, <2>2
  <2>4. {C[b][j].id : j \in 1 .. i - 1} = {B[b][j].id : j \in 1 .. i - 1}
    BY <2>3
  <2> QED
    BY <2>4 DEF Before, Extends
<1>3. ASSUME Open(B[p]) PROVE Before(C, L, p, Len(C[p])) = MadeIn(B, K, p)
  <2>1. 1 .. Len(C[p]) - 1 = DOMAIN B[p]
    BY <1>1, BlockFacts DEF Grows
  <2>2. \A j \in DOMAIN B[p] : C[p][j].id = B[p][j].id
    BY <1>1
  <2>3. {C[p][j].id : j \in 1 .. Len(C[p]) - 1} = {B[p][j].id : j \in DOMAIN B[p]}
    BY <2>1, <2>2
  <2>4. Computed(B[p]) = {B[p][j].id : j \in DOMAIN B[p]}
    <3>1. {j \in DOMAIN B[p] : B[p][j].op \notin Terminators} = DOMAIN B[p]
      BY <1>3 DEF Open
    <3> QED
      BY <3>1 DEF Computed
  <2> QED
    BY <1>1, <2>3, <2>4 DEF Before, MadeIn, Extends
<1> QED
  BY <1>2, <1>3

\* What instruction ins, at the end of block p, may use and tell the blocks it goes to.
Knowing(B, K, L, p, ins) ==
  /\ IF ins.op = "phi"
     THEN \A m \in 1 .. 2 : /\ ins.from[m] \in DOMAIN B
                            /\ ins.uses[m] \in MadeIn(B, K, ins.from[m]) \union {Constant}
     ELSE Range(ins.uses) \subseteq MadeIn(B, K, p) \union {Constant}
  /\ \A c \in Range(ins.to) : L[c] \subseteq MadeIn(B, K, p)

\* Where the code of a graph goes, and where its phis come from.
LEMMA BranchFacts ==
  ASSUME NEW B, NEW N, B \in Blocks, BranchesOK(B, N)
  PROVE  /\ \A b \in DOMAIN B : \A i \in DOMAIN B[b] : \A c \in Range(B[b][i].to) :
              c \in DOMAIN B /\ c # Entry
         /\ \A b \in DOMAIN B : \A i \in DOMAIN B[b] : B[b][i].op = "phi" =>
              \A m \in 1 .. 2 : B[b][i].from[m] \in Sources(B, b)
         /\ \A b \in DOMAIN B : \A i \in DOMAIN B[b] : B[b][i].op \notin Terminators =>
              Range(B[b][i].to) = {}
<1>1. ASSUME NEW b \in DOMAIN B, NEW i \in DOMAIN B[b]
      PROVE  /\ \A c \in Range(B[b][i].to) : c \in DOMAIN B /\ c # Entry
             /\ B[b][i].op \notin Terminators => Range(B[b][i].to) = {}
  <2>1. B[b][i] \in Code(B) /\ B[b][i] \in Instructions /\ DOMAIN B = 1 .. Len(B)
    BY CodeFacts, BlockFacts
  <2>2. BranchOK(B[b][i], Len(B))
    BY <2>1 DEF BranchesOK
  <2>3. B[b][i].op \notin Terminators => Len(B[b][i].to) = 0
    BY <2>2 DEF BranchOK, Terminators
  <2>4. B[b][i].to \in Seq(Nat)
    BY <2>1 DEF Instructions
  <2>5. Len(B[b][i].to) = 0 => Range(B[b][i].to) = {}
    BY <2>4, LenProperties DEF Range
  <2> QED
    BY <2>1, <2>2, <2>3, <2>5 DEF BranchOK
<1>2. ASSUME NEW b \in DOMAIN B, NEW i \in DOMAIN B[b], B[b][i].op = "phi", NEW m \in 1 .. 2
      PROVE  B[b][i].from[m] \in Sources(B, b)
  BY <1>2 DEF BranchesOK, PhiOK, Range
<1> QED
  BY <1>1, <1>2

\* What is known where, after an instruction at the end of a block: the blocks that the
\* instruction branches to know no more than that block has made.
LEMMA FlowGrows ==
  ASSUME NEW B, NEW C, NEW p, NEW ins, NEW n, Grows(B, C, p, ins, n),
         NEW K, NEW L, Extends(B, K, L), Open(B[p]), Knowing(B, K, L, p, ins),
         NEW N, BranchesOK(B, N), Flow(B, K)
  PROVE  Flow(C, L)
<1>1. /\ p \in DOMAIN B /\ B \in Blocks
      /\ DOMAIN C[p] = DOMAIN B[p] \union {Len(C[p])} /\ C[p][Len(C[p])] = ins
      /\ \A b \in DOMAIN B : b # p => C[b] = B[b]
      /\ \A b \in DOMAIN B : \A i \in DOMAIN B[b] : C[b][i] = B[b][i]
      /\ \A b \in DOMAIN C \ DOMAIN B : DOMAIN C[b] = {}
  BY GrowsFacts
<1>2. \A b \in DOMAIN B : MadeIn(B, K, b) \subseteq MadeIn(C, L, b)
  BY MadeGrows
<1>3. /\ \A b \in DOMAIN B : \A i \in DOMAIN B[b] : Before(C, L, b, i) = Before(B, K, b, i)
      /\ Before(C, L, p, Len(C[p])) = MadeIn(B, K, p)
  BY BeforeGrows
<1>4. ASSUME NEW b \in DOMAIN C, NEW i \in DOMAIN C[b]
      PROVE  /\ UsesKnown(C, L, b, i)
             /\ \A c \in Range(C[b][i].to) : L[c] \subseteq Before(C, L, b, i)
  <2>1. CASE b \in DOMAIN B /\ i \in DOMAIN B[b]
    <3>1. C[b][i] = B[b][i] /\ Before(C, L, b, i) = Before(B, K, b, i)
      BY <1>1, <1>3, <2>1
    <3>2. /\ UsesKnown(B, K, b, i)
          /\ \A c \in Range(B[b][i].to) : K[c] \subseteq Before(B, K, b, i)
      BY <2>1 DEF Flow
    <3>3. \A c \in Range(B[b][i].to) : L[c] = K[c]
      BY <1>1, <2>1, BranchFacts DEF Extends
    <3>4. UsesKnown(C, L, b, i)
      <4>1. CASE B[b][i].op = "phi"
        <5>1. \A m \in 1 .. 2 : B[b][i].from[m] \in DOMAIN B
          BY <1>1, <2>1, <4>1, BranchFacts, SourceFacts
        <5>2. \A m \in 1 .. 2 :
                B[b][i].uses[m] \in MadeIn(B, K, B[b][i].from[m]) \union {Constant}
          BY <3>2, <4>1 DEF UsesKnown
        <5>3. \A m \in 1 .. 2 :
                B[b][i].uses[m] \in MadeIn(C, L, B[b][i].from[m]) \union {Constant}
          BY <1>2, <5>1, <5>2
        <5> QED
          BY <3>1, <4>1, <5>3 DEF UsesKnown
      <4>2. CASE B[b][i].op # "phi"
        BY <3>1, <3>2, <4>2 DEF UsesKnown
      <4> QED
        BY <4>1, <4>2
    <3> QED
      BY <3>1, <3>2, <3>3, <3>4
  <2>2. CASE b = p /\ i = Len(C[p])
    <3>1. C[b][i] = ins /\ Before(C, L, b, i) = MadeIn(B, K, p)
      BY <1>1, <1>3, <2>2
    <3>2. UsesKnown(C, L, b, i)
      <4>1. CASE ins.op = "phi"
        <5>1. \A m \in 1 .. 2 : ins.uses[m] \in MadeIn(C, L, ins.from[m]) \union {Constant}
          BY <1>2, <4>1 DEF Knowing
        <5> QED
          BY <3>1, <4>1, <5>1 DEF UsesKnown
      <4>2. CASE ins.op # "phi"
        BY <3>1, <4>2 DEF UsesKnown, Knowing
      <4> QED
        BY <4>1, <4>2
    <3> QED
      BY <3>1, <3>2 DEF Knowing
  <2> QED
    BY <1>1, <2>1, <2>2
<1>5. L[Entry] = {}
  BY <1>1, GrowsDomain DEF Flow, Extends, Entry
<1> QED
  BY <1>4, <1>5 DEF Flow

\* With an alloca more, known in all blocks but the entry block.
Widens(B, K, L, id) ==
  /\ L[Entry] = K[Entry]
  /\ \A b \in DOMAIN B : b # Entry => L[b] = K[b] \union {id}

\* What was computed at the end of a block still is, with the place of the alloca.
LEMMA MadeInserts ==
  ASSUME NEW B, NEW C, NEW k, NEW ins, Inserts(B, C, k, ins),
         NEW K, NEW L, Widens(B, K, L, ins.id)
  PROVE  \A b \in DOMAIN B : MadeIn(B, K, b) \union {ins.id} \subseteq MadeIn(C, L, b)
<1>1. /\ k \in DOMAIN C[Entry] /\ C[Entry][k] = ins /\ ins.op \notin Terminators
      /\ \A i \in DOMAIN B[Entry] : \E j \in DOMAIN C[Entry] : C[Entry][j] = B[Entry][i]
      /\ \A b \in DOMAIN B : b # Entry => C[b] = B[b]
  BY InsertsFacts
<1>2. ASSUME NEW b \in DOMAIN B PROVE MadeIn(B, K, b) \union {ins.id} \subseteq MadeIn(C, L, b)
  <2>1. CASE b = Entry
    <3>1. Computed(B[Entry]) \subseteq Computed(C[Entry])
      BY <1>1 DEF Computed
    <3>2. ins.id \in Computed(C[Entry])
      BY <1>1 DEF Computed
    <3> QED
      BY <2>1, <3>1, <3>2 DEF MadeIn, Widens
  <2>2. CASE b # Entry
    BY <1>1, <2>2 DEF MadeIn, Widens
  <2> QED
    BY <2>1, <2>2
<1> QED
  BY <1>2

\* What is known where, after an alloca in the entry block: its place is known in every
\* other block, since control leaves the entry block by its last instruction only.
LEMMA FlowInserts ==
  ASSUME NEW B, NEW C, NEW k, NEW ins, Inserts(B, C, k, ins),
         NEW K, NEW L, Widens(B, K, L, ins.id), Flow(B, K),
         NEW N, BranchesOK(B, N),
         Open(B[Entry]) \/ (k \in DOMAIN B[Entry] /\ Closed(B[Entry]))
  PROVE  Flow(C, L)
<1>1. /\ DOMAIN C = DOMAIN B /\ Entry \in DOMAIN B /\ B \in Blocks
      /\ \A b \in DOMAIN B : b # Entry => C[b] = B[b]
      /\ C[Entry][k] = ins /\ Range(ins.to) = {} /\ Range(ins.uses) = {} /\ ins.op = "alloca"
  BY InsertsFacts DEF Inserts
<1>2. \A b \in DOMAIN B : MadeIn(B, K, b) \union {ins.id} \subseteq MadeIn(C, L, b)
  BY MadeInserts
<1>3. \A b \in DOMAIN B : \A i \in DOMAIN B[b] :
        /\ UsesKnown(B, K, b, i)
        /\ \A c \in Range(B[b][i].to) : K[c] \subseteq Before(B, K, b, i)
        /\ \A c \in Range(B[b][i].to) : L[c] = K[c] \union {ins.id}
  <2>1. \A b \in DOMAIN B : \A i \in DOMAIN B[b] : \A c \in Range(B[b][i].to) :
          c \in DOMAIN B /\ c # Entry
    BY <1>1, BranchFacts
  <2> QED
    BY <2>1 DEF Flow, Widens
<1>4. ASSUME NEW b \in DOMAIN C, NEW i \in DOMAIN C[b], b # Entry
      PROVE  /\ UsesKnown(C, L, b, i)
             /\ \A c \in Range(C[b][i].to) : L[c] \subseteq Before(C, L, b, i)
  <2>1. C[b] = B[b] /\ i \in DOMAIN B[b]
    BY <1>1, <1>4
  <2>2. Before(C, L, b, i) = Before(B, K, b, i) \union {ins.id}
    BY <1>1, <1>4, <2>1 DEF Before, Widens
  <2>3. UsesKnown(C, L, b, i)
    <3>1. CASE B[b][i].op = "phi"
      <4>1. \A m \in 1 .. 2 : B[b][i].from[m] \in DOMAIN B
        BY <1>1, <2>1, <3>1, BranchFacts, SourceFacts
      <4>2. \A m \in 1 .. 2 : B[b][i].uses[m] \in MadeIn(B, K, B[b][i].from[m]) \union {Constant}
        BY <1>1, <1>3, <2>1, <3>1 DEF UsesKnown
      <4> QED
        BY <1>2, <2>1, <3>1, <4>1, <4>2 DEF UsesKnown
    <3>2. CASE B[b][i].op # "phi"
      BY <1>1, <1>3, <2>1, <2>2, <3>2 DEF UsesKnown
    <3> QED
      BY <3>1, <3>2
  <2> QED
    BY <1>1, <1>3, <2>1, <2>2, <2>3
<1>5. ASSUME NEW j \in DOMAIN C[Entry]
      PROVE  /\ UsesKnown(C, L, Entry, j)
             /\ \A c \in Range(C[Entry][j].to) : L[c] \subseteq Before(C, L, Entry, j)
  <2>0. /\ Len(B[Entry]) \in Nat /\ DOMAIN B[Entry] = 1 .. Len(B[Entry])
        /\ DOMAIN C[Entry] = 1 .. Len(B[Entry]) + 1 /\ k \in Nat /\ k \in DOMAIN C[Entry]
        /\ \A i \in 1 .. k - 1 : C[Entry][i] = B[Entry][i]
        /\ \A i \in k .. Len(B[Entry]) : C[Entry][i + 1] = B[Entry][i]
    BY InsertsDomain DEF Inserts
  <2>1. CASE j = k
    BY <1>1, <2>1 DEF UsesKnown
  <2>2. CASE j < k
    <3>1. j \in 1 .. k - 1 /\ j \in DOMAIN B[Entry] /\ C[Entry][j] = B[Entry][j]
      BY <2>0, <2>2
    <3>2. Before(C, L, Entry, j) = Before(B, K, Entry, j)
      <4>1. \A x \in 1 .. j - 1 : x \in 1 .. k - 1
        BY <2>0, <2>2
      <4>2. \A x \in 1 .. j - 1 : C[Entry][x].id = B[Entry][x].id
        BY <2>0, <4>1
      <4>3. {C[Entry][x].id : x \in 1 .. j - 1} = {B[Entry][x].id : x \in 1 .. j - 1}
        BY <4>2
      <4> QED
        BY <4>3 DEF Before, Widens
    <3>3. B[Entry][j].op \notin Terminators
      <4>1. CASE Open(B[Entry])
        BY <3>1, <4>1 DEF Open
      <4>2. CASE k \in DOMAIN B[Entry] /\ Closed(B[Entry])
        <5>1. j \in 1 .. Len(B[Entry]) - 1
          BY <2>0, <2>2, <4>2
        <5> QED
          BY <4>2, <5>1 DEF Closed
      <4> QED
        BY <4>1, <4>2
    <3>4. Range(B[Entry][j].to) = {}
      BY <1>1, <3>1, <3>3, BranchFacts
    <3>5. B[Entry][j].op # "phi" /\ UsesKnown(B, K, Entry, j)
      BY <1>1, <1>3, <3>1, EntrySources
    <3> QED
      BY <3>1, <3>2, <3>4, <3>5 DEF UsesKnown
  <2>3. CASE j > k
    <3> DEFINE i == j - 1
    <3>1. i \in k .. Len(B[Entry]) /\ i \in DOMAIN B[Entry] /\ i + 1 = j
      BY <2>0, <2>3
    <3>2. C[Entry][j] = B[Entry][i]
      BY <2>0, <3>1
    <3>3. Before(B, K, Entry, i) \union {ins.id} \subseteq Before(C, L, Entry, j)
      <4>1. ASSUME NEW x \in 1 .. i - 1
            PROVE  \E y \in 1 .. j - 1 : C[Entry][y].id = B[Entry][x].id
        <5>1. CASE x < k
          <6>1. x \in 1 .. k - 1 /\ x \in 1 .. j - 1
            BY <2>0, <3>1, <5>1
          <6> QED
            BY <2>0, <6>1
        <5>2. CASE ~ x < k
          <6>1. x \in k .. Len(B[Entry]) /\ x + 1 \in 1 .. j - 1
            BY <2>0, <3>1, <5>2
          <6> QED
            BY <2>0, <6>1
        <5> QED
          BY <5>1, <5>2
      <4>2. {B[Entry][x].id : x \in 1 .. i - 1} \subseteq {C[Entry][y].id : y \in 1 .. j - 1}
        BY <4>1
      <4>3. k \in 1 .. j - 1
        BY <2>0, <2>3
      <4>4. ins.id \in {C[Entry][y].id : y \in 1 .. j - 1}
        BY <1>1, <4>3
      <4> QED
        BY <4>2, <4>4 DEF Before, Widens
    <3>4. B[Entry][i].op # "phi" /\ UsesKnown(B, K, Entry, i)
      BY <1>1, <1>3, <3>1, EntrySources
    <3>5. UsesKnown(C, L, Entry, j)
      BY <3>2, <3>3, <3>4 DEF UsesKnown
    <3>6. \A c \in Range(B[Entry][i].to) : L[c] \subseteq Before(B, K, Entry, i) \union {ins.id}
      BY <1>1, <1>3, <3>1
    <3> QED
      BY <3>2, <3>3, <3>5, <3>6
  <2> QED
    BY <2>0, <2>1, <2>2, <2>3
<1>6. L[Entry] = {}
  BY DEF Flow, Widens
<1> QED
  BY <1>1, <1>4, <1>5, <1>6 DEF Flow

-----------------------------------------------------------------------------
(* The stacks.                                                              *)

\* Of the frames F, G has those it has below t, and of the results R, S has the first r,
\* among which are all those below the frames kept.
Keeps(F, G, t, R, S, r) ==
  /\ F \in Seq(Frames) /\ G \in Seq(Frames) /\ R \in Seq(Int) /\ S \in Seq(Int)
  /\ \A k \in DOMAIN G : k # t => k \in DOMAIN F /\ G[k] = F[k] /\ G[k].base <= r
  /\ t \in DOMAIN G => \A k \in DOMAIN G : k <= t
  /\ r \in Nat /\ r <= Len(R) /\ r <= Len(S) /\ \A j \in 1 .. r : S[j] = R[j]

\* Frames and results, and their indices.
LEMMA FrameFacts ==
  ASSUME NEW F \in Seq(Frames)
  PROVE  /\ Len(F) \in Nat /\ DOMAIN F = 1 .. Len(F)
         /\ \A k \in DOMAIN F : F[k] \in Frames /\ F[k].base \in Nat /\ F[k].blocks \in Seq(Nat)
<1>1. Len(F) \in Nat /\ DOMAIN F = 1 .. Len(F)
  BY LenProperties
<1>2. \A k \in DOMAIN F : F[k] \in Frames
  BY <1>1, ElementOfSeq
<1> QED
  BY <1>1, <1>2 DEF Frames

\* A frame stays as it was in a graph that has grown.
Wider(B, C) ==
  /\ B \in Blocks /\ C \in Blocks /\ DOMAIN B \subseteq DOMAIN C /\ Entry \in DOMAIN B
  /\ \A i \in DOMAIN B[Entry] : \E j \in DOMAIN C[Entry] : C[Entry][j] = B[Entry][i]

\* After an instruction at the end of a block the entry block has what it had.
LEMMA GrowsWider ==
  ASSUME NEW B, NEW C, NEW p, NEW ins, NEW n, Grows(B, C, p, ins, n)
  PROVE  Wider(B, C)
<1>1. Entry \in DOMAIN B /\ C \in Blocks
  BY GrowsDomain, GrowsFacts DEF Entry, Grows
<1> QED
  BY <1>1, GrowsFacts DEF Wider

\* After an alloca the entry block has what it had.
LEMMA InsertsWider ==
  ASSUME NEW B, NEW C, NEW k, NEW ins, Inserts(B, C, k, ins)
  PROVE  Wider(B, C)
<1>1. B \in Blocks /\ C \in Blocks
  BY DEF Inserts
<1> QED
  BY <1>1, InsertsFacts DEF Wider

\* A frame stays well formed while the graph grows and its results are there.
LEMMA FrameKept ==
  ASSUME NEW B, NEW C, Wider(B, C),
         NEW f, NEW R, FrameOK(f, R, B), NEW S, f.base <= Len(S)
  PROVE  FrameOK(f, S, C)
<1>1. 1 .. Len(B) \subseteq 1 .. Len(C)
  BY BlockFacts DEF Wider
<1>2. f.anchor # AtEnd => \E i \in DOMAIN C[Entry] : C[Entry][i].id = f.anchor
  <2> SUFFICES ASSUME f.anchor # AtEnd
               PROVE  \E i \in DOMAIN C[Entry] : C[Entry][i].id = f.anchor
    OBVIOUS
  <2>1. PICK i \in DOMAIN B[Entry] : B[Entry][i].id = f.anchor
    BY DEF FrameOK
  <2> QED
    BY <2>1 DEF Wider
<1> QED
  BY <1>1, <1>2 DEF FrameOK

\* The frames are inside each other if the top one is inside those kept.
LEMMA NestKept ==
  ASSUME NEW F, NEW G, NEW t, NEW R, NEW S, NEW r, Keeps(F, G, t, R, S, r),
         NEW B, NEW C, Wider(B, C), FramesNest(F, R, B),
         t \in DOMAIN G =>
           /\ FrameOK(G[t], S, C) /\ (G[t].form = "function" <=> t = 1)
           /\ \A k \in DOMAIN G : k # t =>
                G[k].base <= Below(G[t]) /\ Waiting(G[k]) \intersect Waiting(G[t]) = {}
  PROVE  FramesNest(G, S, C)
<1>1. /\ F \in Seq(Frames) /\ G \in Seq(Frames) /\ r \in Nat /\ Len(S) \in Nat /\ r <= Len(S)
      /\ \A k \in DOMAIN G : k # t => k \in DOMAIN F /\ G[k] = F[k] /\ G[k].base <= r
      /\ t \in DOMAIN G => \A k \in DOMAIN G : k <= t
  BY LenProperties DEF Keeps
<1>2. ASSUME NEW k \in DOMAIN G
      PROVE  FrameOK(G[k], S, C) /\ (G[k].form = "function" <=> k = 1)
  <2>1. CASE k = t
    BY <2>1
  <2>2. CASE k # t
    <3>1. G[k] = F[k] /\ k \in DOMAIN F /\ G[k].base <= r /\ G[k].base \in Nat
      BY <1>1, <2>2, FrameFacts
    <3>2. FrameOK(F[k], R, B) /\ (F[k].form = "function" <=> k = 1)
      BY <3>1 DEF FramesNest
    <3>3. F[k].base <= Len(S)
      BY <1>1, <3>1
    <3> QED
      BY <3>1, <3>2, <3>3, FrameKept
  <2> QED
    BY <2>1, <2>2
<1>3. ASSUME NEW j \in DOMAIN G, NEW k \in DOMAIN G, j < k
      PROVE  G[j].base <= Below(G[k]) /\ Waiting(G[j]) \intersect Waiting(G[k]) = {}
  <2>1. j # t
    <3> SUFFICES ASSUME j = t PROVE FALSE
      OBVIOUS
    <3>1. k <= t /\ k \in Nat /\ j \in Nat
      BY <1>1, FrameFacts
    <3> QED
      BY <1>3, <3>1
  <2>2. CASE k = t
    BY <2>1, <2>2
  <2>3. CASE k # t
    BY <1>1, <1>3, <2>1, <2>3 DEF FramesNest
  <2> QED
    BY <2>2, <2>3
<1> QED
  BY <1>2, <1>3 DEF FramesNest

\* What the frames and the results know, if the top frame knows it.
LEMMA FramesKnowKept ==
  ASSUME NEW F, NEW G, NEW t, NEW R, NEW S, NEW r, Keeps(F, G, t, R, S, r),
         NEW B, NEW C, NEW K, NEW L, NEW p, NEW q,
         FramesNest(F, R, B), FramesKnow(F, R, B, K, p), B \in Blocks,
         Extends(B, K, L),
         \A b \in DOMAIN B : MadeIn(B, K, b) \subseteq MadeIn(C, L, b),
         \A b \in DOMAIN C \ DOMAIN B : MadeIn(C, L, b) = MadeIn(B, K, p),
         p \in DOMAIN B,
         \A k \in DOMAIN G : k # t /\ HasBlocks(G[k]) => Level(G[k], L) \subseteq MadeIn(C, L, q),
         \A j \in 1 .. r : ThenValue(F, j) => ThenValue(G, j),
         t \in DOMAIN G =>
           /\ LevelOK(G[t], G, S, C, L, q)
           /\ \A b \in DOMAIN C : G[t].locals \subseteq MadeIn(C, L, b)
           /\ HasBlocks(G[t]) => \A k \in DOMAIN G : k # t /\ HasBlocks(G[k]) =>
                Level(G[k], L) \subseteq Level(G[t], L),
         \A j \in DOMAIN S : ThenValue(G, j) \/ Available(S[j], MadeIn(C, L, q))
  PROVE  FramesKnow(G, S, C, L, q)
<1>1. /\ F \in Seq(Frames) /\ G \in Seq(Frames) /\ r \in Nat
      /\ \A k \in DOMAIN G : k # t => k \in DOMAIN F /\ G[k] = F[k] /\ G[k].base <= r
      /\ t \in DOMAIN G => \A k \in DOMAIN G : k <= t
      /\ \A j \in 1 .. r : S[j] = R[j]
  BY DEF Keeps
<1>2. ASSUME NEW k \in DOMAIN G, k # t
      PROVE  /\ k \in DOMAIN F /\ G[k] = F[k] /\ FrameOK(F[k], R, B)
             /\ G[k].base \in Nat /\ G[k].blocks \in Seq(Nat) /\ G[k].base <= r
             /\ LevelOK(F[k], F, R, B, K, p)
             /\ \A b \in DOMAIN B : F[k].locals \subseteq MadeIn(B, K, b)
  BY <1>1, <1>2, FrameFacts DEF FramesNest, FramesKnow
<1>3. ASSUME NEW k \in DOMAIN G, k # t, HasBlocks(G[k])
      PROVE  /\ L[G[k].blocks[1]] = K[G[k].blocks[1]] /\ L[G[k].blocks[2]] = K[G[k].blocks[2]]
             /\ Level(G[k], L) = Level(G[k], K) /\ G[k].blocks[1] \in DOMAIN B
  <2>1. G[k].blocks[1] \in DOMAIN B /\ G[k].blocks[2] \in DOMAIN B /\ G[k].blocks[3] \in DOMAIN B
    BY <1>2, <1>3, FrameBlocks
  <2> QED
    BY <2>1 DEF Level, Extends
<1>4. ASSUME NEW k \in DOMAIN G, k # t PROVE LevelOK(G[k], G, S, C, L, q)
  <2> SUFFICES ASSUME HasBlocks(G[k]) PROVE LevelOK(G[k], G, S, C, L, q)
    BY DEF LevelOK
  <2> DEFINE f == G[k]
  <2>0. LevelOK(f, F, R, B, K, p) /\ FormOK(f) /\ f.base \in Nat /\ f.base <= r
    BY <1>2, <1>4 DEF FrameOK
  <2>1. /\ L[f.blocks[1]] = K[f.blocks[1]] /\ L[f.blocks[2]] = K[f.blocks[2]]
        /\ Level(f, L) = Level(f, K) /\ f.blocks[1] \in DOMAIN B
    BY <1>3, <1>4
  <2>2. /\ Looping(f) => L[f.blocks[1]] = Level(f, L) /\ L[f.blocks[2]] = Level(f, L)
        /\ f.stage = "then" => L[f.blocks[2]] = Level(f, L)
    BY <2>0, <2>1 DEF LevelOK
  <2>3. Level(f, L) \subseteq MadeIn(C, L, q)
    BY <1>4
  <2>4. ASSUME NEW j \in 1 .. Below(f)
        PROVE  ThenValue(G, j) \/ Available(S[j], Level(f, L))
    <3>1. j \in 1 .. r
      BY <1>1, <2>0, <2>4 DEF Below, FormOK
    <3>2. ThenValue(F, j) \/ Available(R[j], Level(f, K))
      BY <2>0, <2>4 DEF LevelOK
    <3> QED
      BY <1>1, <2>1, <3>1, <3>2
  <2>5. f.stage = "else" => Available(S[f.base], MadeIn(C, L, f.blocks[1]))
    <3> SUFFICES ASSUME f.stage = "else" PROVE Available(S[f.base], MadeIn(C, L, f.blocks[1]))
      OBVIOUS
    <3>1. f.base \in 1 .. r /\ Available(R[f.base], MadeIn(B, K, f.blocks[1]))
      <4>1. f.base >= 1
        BY <2>0, HasBlocks(f), f.stage = "else" DEF FormOK
      <4> QED
        BY <1>1, <2>0, <4>1 DEF LevelOK
    <3>2. MadeIn(B, K, f.blocks[1]) \subseteq MadeIn(C, L, f.blocks[1])
      BY <2>1
    <3> QED
      BY <1>1, <3>1, <3>2 DEF Available
  <2> QED
    BY <2>2, <2>3, <2>4, <2>5 DEF LevelOK
<1>5. ASSUME NEW k \in DOMAIN G, k # t, NEW b \in DOMAIN C
      PROVE  G[k].locals \subseteq MadeIn(C, L, b)
  <2>1. CASE b \in DOMAIN B
    BY <1>2, <1>5, <2>1
  <2>2. CASE b \notin DOMAIN B
    BY <1>2, <1>5, <2>2
  <2> QED
    BY <2>1, <2>2
<1>6. ASSUME NEW j \in DOMAIN G, NEW k \in DOMAIN G, j < k, HasBlocks(G[j]), HasBlocks(G[k])
      PROVE  Level(G[j], L) \subseteq Level(G[k], L)
  <2>1. j # t
    <3> SUFFICES ASSUME j = t PROVE FALSE
      OBVIOUS
    <3>1. k <= t /\ k \in Nat /\ j \in Nat
      BY <1>1, FrameFacts
    <3> QED
      BY <1>6, <3>1
  <2>2. CASE k = t
    BY <1>6, <2>1, <2>2
  <2>3. CASE k # t
    <3>1. Level(F[j], K) \subseteq Level(F[k], K)
      BY <1>1, <1>6, <2>1, <2>3 DEF FramesKnow
    <3> QED
      BY <1>1, <1>3, <1>6, <2>1, <2>3, <3>1
  <2> QED
    BY <2>2, <2>3
<1> QED
  BY <1>4, <1>5, <1>6 DEF FramesKnow

\* An alloca in the entry block keeps what the frames and the results know.
LEMMA FramesKnowInserts ==
  ASSUME NEW B, NEW C, NEW k, NEW ins, Inserts(B, C, k, ins),
         NEW K, NEW L, Widens(B, K, L, ins.id),
         NEW F \in Seq(Frames), NEW R, FramesNest(F, R, B),
         NEW p \in DOMAIN B, FramesKnow(F, R, B, K, p)
  PROVE  FramesKnow(F, R, C, L, p)
<1>1. \A b \in DOMAIN B : MadeIn(B, K, b) \union {ins.id} \subseteq MadeIn(C, L, b)
  BY MadeInserts
<1>2. DOMAIN C = DOMAIN B /\ B \in Blocks
  BY InsertsFacts DEF Inserts
<1>3. ASSUME NEW m \in DOMAIN F, HasBlocks(F[m])
      PROVE  /\ Level(F[m], L) = Level(F[m], K) \union {ins.id}
             /\ F[m].blocks[1] \in DOMAIN B
             /\ L[F[m].blocks[2]] = K[F[m].blocks[2]] \union {ins.id}
             /\ F[m].stage # "else" => L[F[m].blocks[1]] = K[F[m].blocks[1]] \union {ins.id}
  <2>1. FrameOK(F[m], R, B) /\ F[m].blocks \in Seq(Nat)
    BY FrameFacts DEF FramesNest
  <2>2. /\ F[m].blocks[1] \in DOMAIN B /\ F[m].blocks[2] \in DOMAIN B
        /\ F[m].blocks[3] \in DOMAIN B
        /\ F[m].blocks[2] # Entry /\ F[m].blocks[3] # Entry
        /\ F[m].stage # "else" => F[m].blocks[1] # Entry
    BY <1>2, <1>3, <2>1, FrameBlocks
  <2> QED
    BY <2>2 DEF Widens, Level
<1>4. ASSUME NEW m \in DOMAIN F PROVE LevelOK(F[m], F, R, C, L, p)
  <2> SUFFICES ASSUME HasBlocks(F[m]) PROVE LevelOK(F[m], F, R, C, L, p)
    BY DEF LevelOK
  <2> DEFINE f == F[m]
  <2>0. LevelOK(f, F, R, B, K, p)
    BY DEF FramesKnow
  <2>1. /\ Level(f, L) = Level(f, K) \union {ins.id} /\ f.blocks[1] \in DOMAIN B
        /\ L[f.blocks[2]] = K[f.blocks[2]] \union {ins.id}
        /\ f.stage # "else" => L[f.blocks[1]] = K[f.blocks[1]] \union {ins.id}
    BY <1>3
  <2>2. /\ Looping(f) => L[f.blocks[1]] = Level(f, L) /\ L[f.blocks[2]] = Level(f, L)
        /\ f.stage = "then" => L[f.blocks[2]] = Level(f, L)
    BY <2>0, <2>1 DEF LevelOK, Looping
  <2>3. Level(f, L) \subseteq MadeIn(C, L, p)
    BY <1>1, <2>0, <2>1 DEF LevelOK
  <2>4. \A j \in 1 .. Below(f) : ThenValue(F, j) \/ Available(R[j], Level(f, L))
    BY <2>0, <2>1 DEF LevelOK, Available
  <2>5. f.stage = "else" => Available(R[f.base], MadeIn(C, L, f.blocks[1]))
    BY <1>1, <2>0, <2>1 DEF LevelOK, Available
  <2> QED
    BY <2>2, <2>3, <2>4, <2>5 DEF LevelOK
<1>5. ASSUME NEW m \in DOMAIN F, NEW b \in DOMAIN C PROVE F[m].locals \subseteq MadeIn(C, L, b)
  <2>1. F[m].locals \subseteq MadeIn(B, K, b)
    BY <1>2 DEF FramesKnow
  <2> QED
    BY <1>1, <1>2, <2>1
<1>6. ASSUME NEW j \in DOMAIN F, NEW m \in DOMAIN F, j < m, HasBlocks(F[j]), HasBlocks(F[m])
      PROVE  Level(F[j], L) \subseteq Level(F[m], L)
  BY <1>3, <1>6 DEF FramesKnow
<1>7. \A j \in DOMAIN R : ThenValue(F, j) \/ Available(R[j], MadeIn(C, L, p))
  BY <1>1 DEF FramesKnow, Available
<1> QED
  BY <1>4, <1>5, <1>6, <1>7 DEF FramesKnow

-----------------------------------------------------------------------------
(* Where in the body each block stands.                                     *)

\* U says what T says, but for where some of its jumps go.
SaysMore(T, U) ==
  /\ T \in Seq(Tokens) /\ U \in Seq(Tokens) /\ DOMAIN T \subseteq DOMAIN U
  /\ \A x \in DOMAIN T : U[x].id = T[x].id /\ U[x].kind = T[x].kind

\* A block begins where it began.
LEMMA FirstKept ==
  ASSUME NEW B, NEW C, NEW p, NEW ins, NEW n, Grows(B, C, p, ins, n),
         NEW T, ins.place = Len(T) + 1, NEW U,
         NEW Q, Stands(B, Q, {p})
  PROVE  \A c \in DOMAIN B : c \notin Q => First(C, U, c) = First(B, T, c)
<1> TAKE c \in DOMAIN B
<1> HAVE c \notin Q
<1>1. CASE c = p
  <2>1. /\ Len(B[p]) \in Nat /\ Len(C[p]) = Len(B[p]) + 1 /\ C[p][Len(B[p]) + 1] = ins
        /\ \A i \in 1 .. Len(B[p]) : C[p][i] = B[p][i]
        /\ B[p] # << >> <=> Len(B[p]) >= 1
    BY <1>1, BlockFacts DEF Grows
  <2>2. C[p] # << >>
    BY GrowsFacts
  <2>3. CASE B[p] = << >>
    BY <1>1, <2>1, <2>2, <2>3 DEF First
  <2>4. CASE B[p] # << >>
    <3>1. 1 \in 1 .. Len(B[p])
      BY <2>1, <2>4
    <3> QED
      BY <1>1, <2>1, <2>2, <2>4, <3>1 DEF First
  <2> QED
    BY <2>3, <2>4
<1>2. CASE c # p
  <2>1. C[c] = B[c]
    BY <1>2, GrowsFacts
  <2>2. B[c] # << >>
    BY <1>2 DEF Stands
  <2> QED
    BY <2>1, <2>2 DEF First
<1> QED
  BY <1>1, <1>2

\* Said(ins, T) for an instruction that was there.
LEMMA SaidKept ==
  ASSUME NEW T, NEW U, SaysMore(T, U), NEW ins, Said(ins, T)
  PROVE  Said(ins, U)
  BY DEF Said, SaysMore

\* One instruction after the other, and the last one before the end of the body.
LEMMA StepsGrow ==
  ASSUME NEW B, NEW C, NEW p, NEW ins, NEW n, Grows(B, C, p, ins, n),
         NEW T, ins.place = Len(T) + 1,
         NEW Q, NEW N, PathOK(B, T, Q, N), p \in N
  PROVE  \A b \in DOMAIN C : \A i \in 1 .. Len(C[b]) - 1 : C[b][i + 1].place = Next1(C[b][i])
<1> TAKE b \in DOMAIN C
<1>1. CASE b = p
  <2>1. /\ Len(B[p]) \in Nat /\ Len(C[p]) = Len(B[p]) + 1 /\ C[p][Len(B[p]) + 1] = ins
        /\ \A i \in 1 .. Len(B[p]) : C[p][i] = B[p][i]
        /\ B[p] # << >> <=> Len(B[p]) >= 1
        /\ p \in DOMAIN B
    BY BlockFacts DEF Grows
  <2>2. ASSUME NEW i \in 1 .. Len(C[p]) - 1 PROVE C[p][i + 1].place = Next1(C[p][i])
    <3>1. i \in 1 .. Len(B[p]) /\ C[p][i] = B[p][i]
      BY <2>1
    <3>2. CASE i = Len(B[p])
      <4>1. Next1(Last(B[p])) = Len(T) + 1 /\ Last(B[p]) = B[p][i]
        BY <2>1, <3>2 DEF PathOK, Last
      <4> QED
        BY <2>1, <3>1, <3>2, <4>1
    <3>3. CASE i # Len(B[p])
      <4>1. i \in 1 .. Len(B[p]) - 1 /\ i + 1 \in 1 .. Len(B[p])
        BY <2>1, <3>1, <3>3
      <4>2. B[p][i + 1].place = Next1(B[p][i])
        BY <2>1, <4>1 DEF PathOK
      <4> QED
        BY <2>1, <3>1, <4>1, <4>2
    <3> QED
      BY <3>2, <3>3
  <2> QED
    BY <1>1, <2>2
<1>2. CASE b # p /\ b \in DOMAIN B
  BY <1>2, GrowsFacts DEF PathOK
<1>3. CASE b \notin DOMAIN B
  <2>1. C[b] = << >>
    BY <1>3, GrowsFacts
  <2>2. Len(C[b]) = 0
    BY <2>1, EmptySeq
  <2> QED
    BY <2>2
<1> QED
  BY <1>1, <1>2, <1>3

\* An instruction leads on as it did if neither its token nor its target has changed, but
\* for a target that is now pending.
GoesOn(y, C, T, U, Q, R) ==
  \/ LeadsOn(y, C, U, R)
  \/ U[y.place].to = T[y.place].to /\ Range(y.to) \intersect Q \subseteq R

\* The path is right after an instruction that the body says, if it is right for the
\* instruction, and for those whose token or target it has changed.
LEMMA PathSaid ==
  ASSUME NEW B, NEW C, NEW p, NEW ins, NEW n, Grows(B, C, p, ins, n),
         NEW T, NEW U, SaysMore(T, U), Len(U) = Len(T) + 1, ins.place = Len(T) + 1,
         NEW Q, Stands(B, Q, {p}), BranchesOK(B, {p}), PathOK(B, T, Q, {p}),
         NEW q, NEW R,
         q # p => C[q] = << >>, q = p => Next1(ins) = Len(U) + 1,
         ins.op # "ret", Said(ins, U), LeadsOn(ins, C, U, R),
         \A y \in Code(B) : GoesOn(y, C, T, U, Q, R)
  PROVE  PathOK(C, U, R, {q})
<1>1. Code(C) = Code(B) \union {ins}
  BY GrowsCode
<1>2. /\ Entry \in DOMAIN B /\ Entry \notin Q /\ B \in Blocks
      /\ \A c \in DOMAIN B : c \notin Q => First(C, U, c) = First(B, T, c)
  <2>1. Entry \in DOMAIN B /\ Entry \notin Q /\ B \in Blocks
    BY GrowsFacts, GrowsDomain DEF Stands, Entry
  <2> QED
    BY <2>1, FirstKept
<1>3. First(C, U, Entry) = 1
  BY <1>2 DEF PathOK
<1>4. ASSUME NEW y \in Code(B) PROVE LeadsOn(y, C, U, R)
  <2> SUFFICES ASSUME U[y.place].to = T[y.place].to, Range(y.to) \intersect Q \subseteq R
               PROVE  LeadsOn(y, C, U, R)
    BY DEF GoesOn
  <2>1. LeadsOn(y, B, T, Q)
    BY DEF PathOK
  <2>2. ASSUME NEW c \in Range(y.to), c \notin R
        PROVE  c \notin Q /\ First(C, U, c) = First(B, T, c)
    <3>1. PICK b \in DOMAIN B : \E i \in DOMAIN B[b] : y = B[b][i]
      BY CodeFacts, <1>2
    <3>2. c \in DOMAIN B
      BY <1>2, <3>1, BranchFacts
    <3> QED
      BY <1>2, <2>2, <3>2
  <2>3. /\ y.op = "br" => y.to[1] \in Range(y.to)
        /\ y.op = "condbr" => y.to[1] \in Range(y.to) /\ y.to[2] \in Range(y.to)
    <3>1. y.to \in Seq(Nat) /\ BranchOK(y, Len(B))
      BY <1>2, CodeFacts DEF BranchesOK, Instructions
    <3>2. DOMAIN y.to = 1 .. Len(y.to)
      BY <3>1, LenProperties
    <3> QED
      BY <3>1, <3>2 DEF BranchOK, Range
  <2> QED
    BY <2>1, <2>2, <2>3 DEF LeadsOn
<1>5. ASSUME NEW y \in Code(C)
      PROVE  Said(y, U) /\ LeadsOn(y, C, U, R) /\ y.op # "ret"
  <2>1. CASE y \in Code(B)
    BY <1>4, <2>1, SaidKept DEF PathOK
  <2> QED
    BY <1>1, <2>1
<1>6. \A b \in DOMAIN C : \A i \in 1 .. Len(C[b]) - 1 : C[b][i + 1].place = Next1(C[b][i])
  <2>1. p \in {p}
    OBVIOUS
  <2> QED
    BY <2>1, StepsGrow
<1>7. C[q] # << >> => Next1(Last(C[q])) = Len(U) + 1
  BY GrowsFacts
<1> QED
  BY <1>3, <1>5, <1>6, <1>7 DEF PathOK

\* The path is right after an instruction that the body does not say.
LEMMA PathUnsaid ==
  ASSUME NEW B, NEW C, NEW p, NEW ins, NEW n, Grows(B, C, p, ins, n),
         NEW T, ins.place = Len(T) + 1, ins.op \notin Written,
         NEW Q, Stands(B, Q, {p}), BranchesOK(B, {p}), PathOK(B, T, Q, {p}),
         NEW N, N \subseteq {p}, ins.op = "ret" => N = {}
  PROVE  PathOK(C, T, Q, N)
<1>1. Code(C) = Code(B) \union {ins}
  BY GrowsCode
<1>2. /\ Entry \in DOMAIN B /\ Entry \notin Q /\ B \in Blocks
      /\ \A c \in DOMAIN B : c \notin Q => First(C, T, c) = First(B, T, c)
  <2>1. Entry \in DOMAIN B /\ Entry \notin Q /\ B \in Blocks
    BY GrowsFacts, GrowsDomain DEF Stands, Entry
  <2> QED
    BY <2>1, FirstKept
<1>3. First(C, T, Entry) = 1
  BY <1>2 DEF PathOK
<1>4. ASSUME NEW y \in Code(B) PROVE LeadsOn(y, C, T, Q)
  <2>1. LeadsOn(y, B, T, Q)
    BY DEF PathOK
  <2>2. ASSUME NEW c \in Range(y.to), c \notin Q PROVE First(C, T, c) = First(B, T, c)
    <3>1. PICK b \in DOMAIN B : \E i \in DOMAIN B[b] : y = B[b][i]
      BY CodeFacts, <1>2
    <3>2. c \in DOMAIN B
      BY <1>2, <3>1, BranchFacts
    <3> QED
      BY <1>2, <2>2, <3>2
  <2>3. /\ y.op = "br" => y.to[1] \in Range(y.to)
        /\ y.op = "condbr" => y.to[1] \in Range(y.to) /\ y.to[2] \in Range(y.to)
    <3>1. y.to \in Seq(Nat) /\ BranchOK(y, Len(B))
      BY <1>2, CodeFacts DEF BranchesOK, Instructions
    <3>2. DOMAIN y.to = 1 .. Len(y.to)
      BY <3>1, LenProperties
    <3> QED
      BY <3>1, <3>2 DEF BranchOK, Range
  <2> QED
    BY <2>1, <2>2, <2>3 DEF LeadsOn
<1>5. ASSUME NEW y \in Code(C)
      PROVE  /\ Said(y, T) /\ LeadsOn(y, C, T, Q)
             /\ y.op = "ret" => N = {} /\ y.place = Len(T) + 1
  <2>1. CASE y \in Code(B)
    BY <1>4, <2>1 DEF PathOK
  <2>2. CASE y = ins
    BY <2>2 DEF Said, LeadsOn, Written
  <2> QED
    BY <1>1, <2>1, <2>2
<1>6. \A b \in DOMAIN C : \A i \in 1 .. Len(C[b]) - 1 : C[b][i + 1].place = Next1(C[b][i])
  <2>1. p \in {p}
    OBVIOUS
  <2> QED
    BY <2>1, StepsGrow
<1>7. \A b \in N : C[b] # << >> => Next1(Last(C[b])) = Len(T) + 1
  BY GrowsFacts DEF Next1
<1> QED
  BY <1>3, <1>5, <1>6, <1>7 DEF PathOK

\* The place an alloca takes is that of the instruction it is put before.
LEMMA PathInserts ==
  ASSUME NEW B, NEW C, NEW k, NEW ins, Inserts(B, C, k, ins),
         NEW T, NEW p, NEW Q, Stands(B, Q, {p}), BranchesOK(B, {p}), PathOK(B, T, Q, {p}),
         k \in DOMAIN B[Entry] => ins.place = B[Entry][k].place,
         k \notin DOMAIN B[Entry] => p = Entry /\ ins.place = Len(T) + 1
  PROVE  PathOK(C, T, Q, {p})
<1>1. Code(C) = Code(B) \union {ins}
  BY InsertsCode
<1>2. /\ DOMAIN C = DOMAIN B /\ Entry \in DOMAIN B /\ B \in Blocks /\ Entry \notin Q
      /\ \A b \in DOMAIN B : b # Entry => C[b] = B[b]
      /\ C[Entry] # << >> /\ ins.op = "alloca"
  BY InsertsFacts DEF Inserts, Stands
<1>3. /\ Len(B[Entry]) \in Nat /\ DOMAIN B[Entry] = 1 .. Len(B[Entry])
      /\ DOMAIN C[Entry] = 1 .. Len(B[Entry]) + 1
      /\ Len(C[Entry]) = Len(B[Entry]) + 1 /\ k \in DOMAIN C[Entry] /\ k \in Nat
      /\ C[Entry][k] = ins
      /\ \A i \in 1 .. k - 1 : C[Entry][i] = B[Entry][i]
      /\ \A i \in k .. Len(B[Entry]) : C[Entry][i + 1] = B[Entry][i]
      /\ B[Entry] # << >> <=> Len(B[Entry]) >= 1
  BY <1>2, InsertsDomain, BlockFacts DEF Inserts
<1>4. First(C, T, Entry) = First(B, T, Entry)
  <2>1. CASE k = 1 /\ k \in DOMAIN B[Entry]
    <3>1. B[Entry] # << >>
      BY <1>3, <2>1
    <3> QED
      BY <1>2, <1>3, <2>1, <3>1 DEF First
  <2>2. CASE k = 1 /\ k \notin DOMAIN B[Entry]
    <3>1. B[Entry] = << >>
      BY <1>3, <2>2
    <3> QED
      BY <1>2, <1>3, <2>2, <3>1 DEF First
  <2>3. CASE k # 1
    <3>1. 1 \in 1 .. k - 1 /\ B[Entry] # << >>
      BY <1>3, <2>3
    <3> QED
      BY <1>2, <1>3, <3>1 DEF First
  <2> QED
    BY <2>1, <2>2, <2>3
<1>5. \A c \in DOMAIN B : First(C, T, c) = First(B, T, c)
  BY <1>2, <1>4 DEF First
<1>6. ASSUME NEW y \in Code(B) PROVE LeadsOn(y, C, T, Q)
  <2>1. LeadsOn(y, B, T, Q)
    BY DEF PathOK
  <2>2. ASSUME NEW c \in Range(y.to) PROVE First(C, T, c) = First(B, T, c)
    <3>1. PICK b \in DOMAIN B : \E i \in DOMAIN B[b] : y = B[b][i]
      BY CodeFacts, <1>2
    <3>2. c \in DOMAIN B
      BY <1>2, <3>1, BranchFacts
    <3> QED
      BY <1>5, <3>2
  <2>3. /\ y.op = "br" => y.to[1] \in Range(y.to)
        /\ y.op = "condbr" => y.to[1] \in Range(y.to) /\ y.to[2] \in Range(y.to)
    <3>1. y.to \in Seq(Nat) /\ BranchOK(y, Len(B))
      BY <1>2, CodeFacts DEF BranchesOK, Instructions
    <3>2. DOMAIN y.to = 1 .. Len(y.to)
      BY <3>1, LenProperties
    <3> QED
      BY <3>1, <3>2 DEF BranchOK, Range
  <2> QED
    BY <2>1, <2>2, <2>3 DEF LeadsOn
<1>7. ASSUME NEW y \in Code(C)
      PROVE  Said(y, T) /\ LeadsOn(y, C, T, Q) /\ y.op # "ret"
  <2>1. CASE y \in Code(B)
    BY <1>6, <2>1 DEF PathOK
  <2>2. CASE y = ins
    BY <1>2, <2>2 DEF Said, LeadsOn, Written
  <2> QED
    BY <1>1, <2>1, <2>2
<1>8. Next1(ins) = ins.place
  BY <1>2 DEF Next1, Written
<1>9. ASSUME NEW i \in 1 .. Len(C[Entry]) - 1
      PROVE  C[Entry][i + 1].place = Next1(C[Entry][i])
  <2>0. \A j \in 1 .. Len(B[Entry]) - 1 : B[Entry][j + 1].place = Next1(B[Entry][j])
    BY <1>2 DEF PathOK
  <2>1. CASE i = k
    <3>1. k \in k .. Len(B[Entry]) /\ k \in DOMAIN B[Entry]
      BY <1>3, <2>1
    <3> QED
      BY <1>3, <1>8, <2>1, <3>1
  <2>2. CASE i > k
    <3>1. /\ i - 1 \in k .. Len(B[Entry]) /\ (i - 1) + 1 = i /\ i \in k .. Len(B[Entry])
          /\ i - 1 \in 1 .. Len(B[Entry]) - 1
      BY <1>3, <2>2
    <3>2. C[Entry][i] = B[Entry][i - 1] /\ C[Entry][i + 1] = B[Entry][i]
      BY <1>3, <3>1
    <3>3. B[Entry][(i - 1) + 1].place = Next1(B[Entry][i - 1])
      BY <2>0, <3>1
    <3> QED
      BY <3>1, <3>2, <3>3
  <2>3. CASE i + 1 < k
    <3>1. i \in 1 .. k - 1 /\ i + 1 \in 1 .. k - 1 /\ i \in 1 .. Len(B[Entry]) - 1
      BY <1>3, <2>3
    <3> QED
      BY <1>3, <2>0, <3>1
  <2>4. CASE i + 1 = k
    <3>1. i \in 1 .. k - 1 /\ C[Entry][i] = B[Entry][i] /\ C[Entry][i + 1] = ins
      BY <1>3, <2>4
    <3>2. CASE k \in DOMAIN B[Entry]
      <4>1. i \in 1 .. Len(B[Entry]) - 1
        BY <1>3, <2>4, <3>2
      <4> QED
        BY <2>0, <2>4, <3>1, <3>2, <4>1
    <3>3. CASE k \notin DOMAIN B[Entry]
      <4>1. i = Len(B[Entry]) /\ B[Entry] # << >>
        BY <1>3, <2>4, <3>3
      <4>2. Next1(Last(B[Entry])) = Len(T) + 1
        BY <3>3, <4>1 DEF PathOK
      <4> QED
        BY <3>1, <3>3, <4>1, <4>2 DEF Last
    <3> QED
      BY <3>2, <3>3
  <2>5. i = k \/ i > k \/ i + 1 < k \/ i + 1 = k
    BY <1>3
  <2> QED
    BY <2>1, <2>2, <2>3, <2>4, <2>5
<1>10. ASSUME NEW b \in DOMAIN C
       PROVE  \A i \in 1 .. Len(C[b]) - 1 : C[b][i + 1].place = Next1(C[b][i])
  <2>1. CASE b = Entry
    BY <1>9, <2>1
  <2>2. CASE b # Entry
    <3>1. C[b] = B[b] /\ b \in DOMAIN B
      BY <1>2, <2>2
    <3> QED
      BY <3>1 DEF PathOK
  <2> QED
    BY <2>1, <2>2
<1>11. C[p] # << >> => Next1(Last(C[p])) = Len(T) + 1
  <2>1. CASE p # Entry
    <3>1. C[p] = B[p]
      BY <1>2, <2>1 DEF Stands
    <3> QED
      BY <3>1 DEF PathOK
  <2>2. CASE p = Entry /\ k \in DOMAIN B[Entry]
    <3>1. Last(C[Entry]) = Last(B[Entry]) /\ B[Entry] # << >>
      BY <1>3, <2>2, InsertsEnds
    <3> QED
      BY <2>2, <3>1 DEF PathOK
  <2>3. CASE p = Entry /\ k \notin DOMAIN B[Entry]
    <3>1. Last(C[Entry]) = ins
      BY <2>3, InsertsEnds
    <3> QED
      BY <1>8, <2>3, <3>1
  <2> QED
    BY <2>1, <2>2, <2>3
<1>12. First(C, T, Entry) = 1
  BY <1>4 DEF PathOK
<1> QED
  BY <1>7, <1>10, <1>11, <1>12 DEF PathOK

\* A frame knows the places it knew, after an instruction that goes to none of the blocks
\* it waits for.
LEMMA FramePlaceKept ==
  ASSUME NEW B, NEW C, NEW ins, Code(C) = Code(B) \union {ins},
         NEW T, NEW U, SaysMore(T, U),
         ins.op \in Written => ins.place \notin DOMAIN T,
         NEW f, Range(ins.to) \intersect Waiting(f) = {},
         FramePlace(f, B, T),
         Looping(f) => First(C, U, f.blocks[2]) = First(B, T, f.blocks[2])
  PROVE  FramePlace(f, C, U)
<1>1. \A c \in Waiting(f) : Untargeted(B, c) => Untargeted(C, c)
  BY DEF Untargeted
<1>2. ASSUME NEW x, NEW m, NEW c \in Waiting(f), Awaited(B, T, x, m, c)
      PROVE  Awaited(C, U, x, m, c)
  BY <1>2 DEF Awaited, SaysMore
<1>3. CASE Looping(f)
  <2>1. /\ f.stage = "cond" => f.blocks[1] \in Waiting(f) /\ f.blocks[3] \in Waiting(f)
        /\ f.stage = "body" => f.blocks[3] \in Waiting(f)
        /\ f.stage \notin {"then", "else"}
    BY <1>3 DEF Looping, Waiting
  <2> QED
    BY <1>1, <1>2, <1>3, <2>1 DEF FramePlace
<1>4. CASE f.stage = "then"
  <2>1. f.blocks[2] \in Waiting(f) /\ f.blocks[3] \in Waiting(f) /\ ~ Looping(f)
    BY <1>4 DEF Looping, Waiting
  <2> QED
    BY <1>1, <1>2, <1>4, <2>1 DEF FramePlace
<1>5. CASE f.stage = "else"
  <2>1. f.blocks[3] \in Waiting(f) /\ ~ Looping(f)
    BY <1>5 DEF Looping, Waiting
  <2> QED
    BY <1>1, <1>2, <1>5, <2>1 DEF FramePlace
<1> QED
  BY <1>3, <1>4, <1>5 DEF FramePlace

-----------------------------------------------------------------------------
(* What the actions build.                                                  *)

\* Identities are numbers.
LEMMA FreshType ==
  ASSUME TypeOK, NEW n \in Nat \ {0}
  PROVE  Fresh(n) \in Nat \ {0}
<1> DEFINE At(b) == {b} \X DOMAIN blocks[b]
           All   == {At(b) : b \in DOMAIN blocks}
<1>1. blocks \in Blocks /\ Len(blocks) \in Nat /\ DOMAIN blocks = 1 .. Len(blocks)
  BY BlockFacts DEF TypeOK
<1>2. IsFiniteSet(DOMAIN blocks)
  <2>1. IsFiniteSet(1 .. Len(blocks))
    BY <1>1, FS_Interval
  <2> QED
    BY <1>1, <2>1
<1>3. IsFiniteSet(All)
  <2> DEFINE f == [b \in DOMAIN blocks |-> At(b)]
  <2>1. f \in Surjection(DOMAIN blocks, All)
    BY DEF Surjection
  <2> HIDE DEF f, All
  <2> QED
    BY <1>2, <2>1, FS_Surjection
<1>4. ASSUME NEW b \in DOMAIN blocks
      PROVE  IsFiniteSet(At(b))
  <2>1. IsFiniteSet({b})
    BY FS_Singleton
  <2>2. Len(blocks[b]) \in Nat /\ DOMAIN blocks[b] = 1 .. Len(blocks[b])
    BY <1>1, BlockFacts
  <2>3. IsFiniteSet(1 .. Len(blocks[b]))
    BY <2>2, FS_Interval
  <2>4. IsFiniteSet(DOMAIN blocks[b])
    BY <2>2, <2>3
  <2> HIDE DEF At
  <2> QED
    BY <2>1, <2>4, FS_Product DEF At
<1>5. IsFiniteSet(UNION All)
  <2>1. \A x \in All : IsFiniteSet(x)
    BY <1>4
  <2> HIDE DEF All
  <2> QED
    BY <1>3, <2>1, FS_UNION
<1>6. Cardinality(UNION All) \in Nat
  BY <1>5, FS_CardinalityType
<1>7. Fresh(n) = n + Cardinality(UNION All)
  BY DEF Fresh
<1> HIDE DEF All
<1> QED
  BY <1>6, <1>7

\* What an instruction uses.
LEMMA UsesType ==
  ASSUME NEW a \in Int, NEW b \in Int
  PROVE  /\ << >> \in Uses /\ <<a>> \in Uses /\ <<a, b>> \in Uses
         /\ Range(<< >>) = {} /\ Range(<<a>>) = {a} /\ Range(<<a, b>>) = {a, b}
         /\ DOMAIN <<a, b>> = 1 .. 2 /\ Len(<< >>) = 0
<1>1. << >> \in [{} -> Int] /\ <<a>> \in [{1} -> Int] /\ <<a, b>> \in [{1, 2} -> Int]
  OBVIOUS
<1>2. {} \in SUBSET Nat /\ {1} \in SUBSET Nat /\ {1, 2} \in SUBSET Nat
  OBVIOUS
<1>3. << >> \in Uses /\ <<a>> \in Uses /\ <<a, b>> \in Uses
  BY <1>1, <1>2 DEF Uses
<1>4. Range(<< >>) = {} /\ Range(<<a>>) = {a} /\ Range(<<a, b>>) = {a, b}
  BY DEF Range
<1> QED
  BY <1>3, <1>4

\* An instruction may use nothing, branch nowhere and come from nowhere.
LEMMA NoUses == << >> \in Uses /\ Range(<< >>) = {} /\ Len(<< >>) = 0
<1>1. << >> \in [{} -> Int] /\ {} \in SUBSET Nat
  OBVIOUS
<1> QED
  BY <1>1 DEF Uses, Range

\* Where it goes and comes from.
BlockList(s) == s \in Seq(Nat)

\* Lists of no block, of one and of two.
LEMMA PlacesType ==
  ASSUME NEW a \in Nat, NEW b \in Nat
  PROVE  /\ BlockList(<< >>) /\ BlockList(<<a>>) /\ BlockList(<<a, b>>)
         /\ Range(<< >>) = {} /\ Range(<<a>>) = {a} /\ Range(<<a, b>>) = {a, b}
         /\ Len(<< >>) = 0 /\ Len(<<a>>) = 1 /\ Len(<<a, b>>) = 2
         /\ DOMAIN <<a, b>> = 1 .. 2
BY DEF Range, BlockList

\* The fields of an instruction.
LEMMA InstructionFacts ==
  ASSUME TypeOK, NEW op \in Ops, NEW id \in Nat \ {0}, NEW uses \in Uses,
         NEW to, BlockList(to), NEW from, BlockList(from),
         NEW ins, ins = Instruction(op, id, uses, to, from)
  PROVE  /\ ins \in Instructions
         /\ ins.op = op /\ ins.id = id /\ ins.uses = uses /\ ins.to = to /\ ins.from = from
         /\ ins.place = Len(tokens) + 1 /\ ins.place \notin DOMAIN tokens
<1>1. Len(tokens) \in Nat /\ DOMAIN tokens = 1 .. Len(tokens)
  BY DEF TypeOK
<1> QED
  BY <1>1 DEF Instruction, Instructions, BlockList

\* An instruction of a node, and its token.
LEMMA TokenFacts ==
  ASSUME TypeOK, NEW token \in Tokens, NEW U, U = Append(tokens, token)
  PROVE  /\ U \in Seq(Tokens) /\ Len(U) = Len(tokens) + 1 /\ SaysMore(tokens, U)
         /\ U[Len(U)] = token /\ Len(tokens) + 1 \in DOMAIN U
         /\ \A x \in DOMAIN tokens : U[x] = tokens[x]
<1>1. tokens \in Seq(Tokens) /\ Len(tokens) \in Nat /\ DOMAIN tokens = 1 .. Len(tokens)
  BY DEF TypeOK
<1>3. /\ U \in Seq(Tokens) /\ Len(U) = Len(tokens) + 1 /\ U[Len(tokens) + 1] = token
      /\ \A x \in 1 .. Len(tokens) : U[x] = tokens[x]
  BY <1>1, AppendProperties
<1>4. DOMAIN U = 1 .. Len(tokens) + 1
  BY <1>1, <1>3
<1> QED
  BY <1>1, <1>3, <1>4 DEF SaysMore

-----------------------------------------------------------------------------
(* The invariant while a body is compiled, of a graph and its stacks.       *)

Built(F, R, B, p, a) ==
  /\ FramesNest(F, R, B)
  /\ Stands(B, Pending(F), {p})
  /\ a => EntryStands(B, {p})
  /\ BranchesOK(B, {p})
  /\ \A k \in DOMAIN F : BlocksOK(F[k], B, Pending(F), p)

Meant(F, R, B, K, T, p) ==
  /\ Flow(B, K) /\ FramesKnow(F, R, B, K, p)
  /\ PathOK(B, T, Pending(F), {p})
  /\ \A k \in DOMAIN F : FramePlace(F[k], B, T)

\* The stacks change, but for the blocks that frames wait for.
Plain(F, G, t, R, S, r, B) ==
  /\ Keeps(F, G, t, R, S, r) /\ Pending(G) = Pending(F)
  /\ \A j \in 1 .. r : ThenValue(F, j) => ThenValue(G, j)
  /\ t \in DOMAIN G =>
       /\ ~ HasBlocks(G[t]) /\ FrameOK(G[t], S, B) /\ (G[t].form = "function" <=> t = 1)
       /\ \A k \in DOMAIN G : k # t => G[k].base <= Below(G[t])

\* A frame without blocks has little to say.
LEMMA NoBlocks ==
  ASSUME NEW f, ~ HasBlocks(f)
  PROVE  /\ Waiting(f) = {}
         /\ \A B, Q, p : BlocksOK(f, B, Q, p)
         /\ \A F, R, B, K, p : LevelOK(f, F, R, B, K, p)
         /\ \A B, T : FramePlace(f, B, T)
<1>1. ~ Looping(f) /\ f.stage # "then" /\ f.stage # "else"
  BY DEF HasBlocks
<1> QED
  BY <1>1 DEF Looping, Waiting, BlocksOK, LevelOK, FramePlace

\* The frames kept, in the frames there were.
LEMMA KeptFrames ==
  ASSUME NEW F, NEW G, NEW t, NEW R, NEW S, NEW r, Keeps(F, G, t, R, S, r),
         NEW B \in Blocks, FramesNest(F, R, B),
         NEW k \in DOMAIN G, k # t
  PROVE  /\ k \in DOMAIN F /\ G[k] = F[k] /\ G[k].blocks \in Seq(Nat)
         /\ FrameOK(G[k], R, B) /\ Waiting(G[k]) \subseteq Pending(F)
<1>1. k \in DOMAIN F /\ G[k] = F[k] /\ F \in Seq(Frames)
  BY DEF Keeps
<1>2. G[k].blocks \in Seq(Nat)
  BY <1>1, FrameFacts
<1>3. FrameOK(G[k], R, B)
  BY <1>1 DEF FramesNest
<1>4. Waiting(G[k]) \subseteq Pending(F)
  BY <1>1 DEF Pending
<1> QED
  BY <1>1, <1>2, <1>3, <1>4

\* The frames after a plain change of the stacks.
LEMMA PlainNest ==
  ASSUME NEW F, NEW G, NEW t, NEW R, NEW S, NEW r, NEW B, NEW C, Wider(B, C),
         Plain(F, G, t, R, S, r, B), FramesNest(F, R, B)
  PROVE  FramesNest(G, S, C)
<1>1. Keeps(F, G, t, R, S, r)
  BY DEF Plain
<1>2. ASSUME t \in DOMAIN G
      PROVE  /\ FrameOK(G[t], S, C) /\ (G[t].form = "function" <=> t = 1)
             /\ \A k \in DOMAIN G : k # t =>
                  G[k].base <= Below(G[t]) /\ Waiting(G[k]) \intersect Waiting(G[t]) = {}
  <2>1. FrameOK(G[t], S, B) /\ ~ HasBlocks(G[t]) /\ (G[t].form = "function" <=> t = 1)
        /\ \A k \in DOMAIN G : k # t => G[k].base <= Below(G[t])
    BY <1>2 DEF Plain
  <2>2. Waiting(G[t]) = {}
    BY <2>1, NoBlocks
  <2>3. G[t].base <= Len(S)
    BY <2>1 DEF FrameOK
  <2>4. FrameOK(G[t], S, C)
    BY <2>1, <2>3, FrameKept
  <2> QED
    BY <2>1, <2>2, <2>4
<1> QED
  BY <1>1, <1>2, NestKept

\* An instruction that a node puts at the end of the insert block.
LEMMA BuiltAppend ==
  ASSUME NEW F, NEW G, NEW t, NEW R, NEW S, NEW r, NEW B, NEW C, NEW p, NEW ins,
         Grows(B, C, p, ins, 0), ins.op \in {"load", "store", "call"},
         Range(ins.to) = {}, Len(ins.to) = 0,
         Plain(F, G, t, R, S, r, B),
         NEW a, Built(F, R, B, p, a)
  PROVE  Built(G, S, C, p, a)
<1>1. /\ FramesNest(F, R, B) /\ Stands(B, Pending(F), {p}) /\ (a => EntryStands(B, {p}))
      /\ BranchesOK(B, {p}) /\ B \in Blocks
      /\ Keeps(F, G, t, R, S, r) /\ Pending(G) = Pending(F)
  BY GrowsFacts DEF Built, Plain
<1>2. ins.op \notin Terminators /\ ins.op \notin {"br", "condbr", "phi"}
  BY DEF Terminators
<1>3. FramesNest(G, S, C)
  BY <1>1, GrowsWider, PlainNest
<1>4. Stands(C, Pending(G), {p}) /\ (a => EntryStands(C, {p}))
  BY <1>1, <1>2, StandsAppend
<1>5. BranchesOK(C, {p})
  <2>1. BranchOK(ins, Len(C))
    BY <1>2 DEF BranchOK
  <2>2. \A b \in {p} : b \in {p} \/ b \notin DOMAIN B \/ B[b] = << >>
    OBVIOUS
  <2> QED
    BY <1>1, <1>2, <2>1, <2>2, BranchesGrow
<1>6. ASSUME NEW k \in DOMAIN G
      PROVE  BlocksOK(G[k], C, Pending(G), p)
  <2>1. CASE k = t
    BY <2>1, NoBlocks DEF Plain
  <2>2. CASE k # t
    <3>1. /\ k \in DOMAIN F /\ G[k] = F[k] /\ G[k].blocks \in Seq(Nat) /\ FrameOK(G[k], R, B)
      BY <1>1, <2>2, KeptFrames
    <3>2. BlocksOK(G[k], B, Pending(F), p)
      BY <3>1 DEF Built
    <3>3. /\ Pending(G) \subseteq Pending(F) \union (DOMAIN C \ DOMAIN B)
          /\ p \in Pending(F) \union (DOMAIN C \ DOMAIN B) \union {p}
      BY <1>1
    <3> QED
      BY <1>2, <3>1, <3>2, <3>3, FrameBlocksKept
  <2> QED
    BY <2>1, <2>2
<1> QED
  BY <1>3, <1>4, <1>5, <1>6 DEF Built

\* What the others know, and where they stand, when the body says so.
LEMMA MeantAppend ==
  ASSUME NEW F, NEW G, NEW t, NEW R, NEW S, NEW r, NEW B, NEW C, NEW p, NEW ins,
         Grows(B, C, p, ins, 0), ins.op \in {"load", "store", "call"},
         Range(ins.to) = {}, Len(ins.to) = 0,
         Plain(F, G, t, R, S, r, B),
         NEW a, Built(F, R, B, p, a),
         NEW K, NEW T, Meant(F, R, B, K, T, p),
         NEW U, SaysMore(T, U), Len(U) = Len(T) + 1, \A x \in DOMAIN T : U[x] = T[x],
         ins.place = Len(T) + 1, ins.place \notin DOMAIN T, Said(ins, U),
         Range(ins.uses) \subseteq MadeIn(B, K, p) \union {Constant},
         t \in DOMAIN G => \A b \in DOMAIN C : G[t].locals \subseteq MadeIn(C, K, b),
         \A j \in DOMAIN S : ThenValue(G, j) \/ Available(S[j], MadeIn(C, K, p))
  PROVE  Meant(G, S, C, K, U, p)
<1>1. /\ FramesNest(F, R, B) /\ Stands(B, Pending(F), {p})
      /\ BranchesOK(B, {p}) /\ B \in Blocks /\ p \in DOMAIN B
      /\ Keeps(F, G, t, R, S, r) /\ Pending(G) = Pending(F)
      /\ Flow(B, K) /\ FramesKnow(F, R, B, K, p) /\ PathOK(B, T, Pending(F), {p})
  BY GrowsFacts DEF Built, Plain, Meant
<1>2. ins.op \notin Terminators /\ ins.op \notin {"br", "condbr", "phi", "ret"} /\ ins.op \in Written
  BY DEF Terminators, Written
<1>3. Extends(B, K, K)
  BY DEF Extends
<1>4. Flow(C, K)
  <2>1. Open(B[p])
    BY <1>1 DEF Stands
  <2>2. Knowing(B, K, K, p, ins)
    BY <1>2 DEF Knowing
  <2> QED
    BY <1>1, <1>3, <2>1, <2>2, FlowGrows
<1>5. FramesKnow(G, S, C, K, p)
  <2>1. \A b \in DOMAIN B : MadeIn(B, K, b) \subseteq MadeIn(C, K, b)
    BY <1>3, MadeGrows
  <2>2. DOMAIN C = DOMAIN B
    BY GrowsDomain
  <2>3. ASSUME NEW k \in DOMAIN G, k # t, HasBlocks(G[k])
        PROVE  Level(G[k], K) \subseteq MadeIn(C, K, p)
    <3>1. k \in DOMAIN F /\ G[k] = F[k]
      BY <1>1, <2>3, KeptFrames
    <3>2. LevelOK(F[k], F, R, B, K, p)
      BY <1>1, <3>1 DEF FramesKnow
    <3>3. Level(G[k], K) \subseteq MadeIn(B, K, p)
      BY <2>3, <3>1, <3>2 DEF LevelOK
    <3> QED
      BY <1>1, <2>1, <3>3
  <2>4. t \in DOMAIN G => ~ HasBlocks(G[t]) /\ LevelOK(G[t], G, S, C, K, p)
    BY NoBlocks DEF Plain
  <2>5. \A j \in 1 .. r : ThenValue(F, j) => ThenValue(G, j)
    BY DEF Plain
  <2>6. \A b \in DOMAIN C \ DOMAIN B : MadeIn(C, K, b) = MadeIn(B, K, p)
    BY <2>2
  <2>7. t \in DOMAIN G =>
          /\ LevelOK(G[t], G, S, C, K, p)
          /\ \A b \in DOMAIN C : G[t].locals \subseteq MadeIn(C, K, b)
          /\ HasBlocks(G[t]) => \A k \in DOMAIN G : k # t /\ HasBlocks(G[k]) =>
               Level(G[k], K) \subseteq Level(G[t], K)
    BY <2>4
  <2>8. \A k \in DOMAIN G : k # t /\ HasBlocks(G[k]) => Level(G[k], K) \subseteq MadeIn(C, K, p)
    BY <2>3
  <2> QED
    BY <1>1, <1>3, <2>1, <2>5, <2>6, <2>7, <2>8, FramesKnowKept
<1>6. PathOK(C, U, Pending(G), {p})
  <2>1. LeadsOn(ins, C, U, Pending(G))
    BY <1>2 DEF LeadsOn
  <2>2. ASSUME NEW y \in Code(B)
        PROVE  GoesOn(y, C, T, U, Pending(F), Pending(G))
    <3>1. CASE y.op \in {"br", "condbr"}
      <4>1. y.place \in DOMAIN T
        BY <1>1, <3>1 DEF PathOK, Said, Written
      <4> QED
        BY <1>1, <4>1 DEF GoesOn
    <3>2. CASE y.op \notin {"br", "condbr"}
      BY <3>2 DEF LeadsOn, GoesOn
    <3> QED
      BY <3>1, <3>2
  <2>3. Next1(ins) = Len(U) + 1
    BY <1>2 DEF Next1
  <2>4. \A y \in Code(B) : GoesOn(y, C, T, U, Pending(F), Pending(G))
    BY <2>2

  <2>5. ASSUME NEW q, q = p
        PROVE  PathOK(C, U, Pending(G), {q})
    <3>1. (q # p => C[q] = << >>) /\ (q = p => Next1(ins) = Len(U) + 1) /\ ins.op # "ret"
      BY <1>2, <2>3, <2>5
    <3>2. Stands(B, Pending(F), {p}) /\ BranchesOK(B, {p}) /\ PathOK(B, T, Pending(F), {p})
      BY <1>1
    <3> QED
      BY <2>1, <2>4, <3>1, <3>2, PathSaid
  <2> QED
    BY <2>5

<1>7. ASSUME NEW k \in DOMAIN G
      PROVE  FramePlace(G[k], C, U)
  <2>1. CASE k = t
    BY <2>1, NoBlocks DEF Plain
  <2>2. CASE k # t
    <3>1. k \in DOMAIN F /\ G[k] = F[k] /\ G[k].blocks \in Seq(Nat) /\ FrameOK(G[k], R, B)
      BY <1>1, <2>2, KeptFrames
    <3>2. FramePlace(G[k], B, T) /\ BlocksOK(G[k], B, Pending(F), p)
      BY <3>1 DEF Meant, Built
    <3>3. Code(C) = Code(B) \union {ins}
      BY GrowsCode
    <3>4. Looping(G[k]) => First(C, U, G[k].blocks[2]) = First(B, T, G[k].blocks[2])
      <4>1. SUFFICES ASSUME Looping(G[k])
                     PROVE  First(C, U, G[k].blocks[2]) = First(B, T, G[k].blocks[2])
        OBVIOUS
      <4>2. G[k].blocks[2] \in DOMAIN B
        BY <1>1, <3>1, <4>1, FrameBlocks DEF HasBlocks
      <4>3. G[k].blocks[2] \notin Pending(F)
        BY <3>2, <4>1 DEF BlocksOK
      <4> QED
        BY <1>1, <4>2, <4>3, FirstKept
    <3>5. Range(ins.to) \intersect Waiting(G[k]) = {} /\ (ins.op \in Written => ins.place \notin DOMAIN T)
      OBVIOUS
    <3> QED
      BY <3>2, <3>3, <3>4, <3>5, FramePlaceKept
  <2> QED
    BY <2>1, <2>2
<1> QED
  BY <1>4, <1>5, <1>6, <1>7 DEF Meant

\* An alloca for a variable.
LEMMA BuiltInsert ==
  ASSUME NEW F \in Seq(Frames), NEW R, NEW B, NEW C, NEW k, NEW ins, Inserts(B, C, k, ins),
         NEW p \in DOMAIN B, NEW a, Built(F, R, B, p, a),
         NEW c, c => a /\ (k \notin DOMAIN B[Entry] => Entry = p)
  PROVE  Built(F, R, C, p, c)
<1>1. /\ FramesNest(F, R, B) /\ Stands(B, Pending(F), {p}) /\ (a => EntryStands(B, {p}))
      /\ BranchesOK(B, {p}) /\ B \in Blocks
  BY DEF Built, Inserts
<1>2. Wider(B, C)
  BY InsertsWider
<1>3. FramesNest(F, R, C)
  <2>1. ASSUME NEW j \in DOMAIN F
        PROVE  FrameOK(F[j], R, C) /\ (F[j].form = "function" <=> j = 1)
    <3>1. FrameOK(F[j], R, B) /\ (F[j].form = "function" <=> j = 1)
      BY <1>1 DEF FramesNest
    <3>2. F[j].base <= Len(R)
      BY <3>1 DEF FrameOK
    <3> QED
      BY <1>2, <3>1, <3>2, FrameKept
  <2> QED
    BY <1>1, <2>1 DEF FramesNest
<1>4. Stands(C, Pending(F), {p}) /\ (c => EntryStands(C, {p}))
  BY <1>1, StandsInsert
<1>5. BranchesOK(C, {p})
  BY <1>1, BranchesInsert
<1>6. ASSUME NEW j \in DOMAIN F
      PROVE  BlocksOK(F[j], C, Pending(F), p)
  <2>1. FrameOK(F[j], R, B) /\ F[j].blocks \in Seq(Nat)
    BY <1>1, FrameFacts DEF FramesNest
  <2>2. BlocksOK(F[j], B, Pending(F), p)
    BY DEF Built
  <2> QED
    BY <2>1, <2>2, FrameBlocksInsert
<1> QED
  BY <1>3, <1>4, <1>5, <1>6 DEF Built

\* Its place is known everywhere but in the entry block.
LEMMA MeantInsert ==
  ASSUME NEW F \in Seq(Frames), NEW R, NEW B, NEW C, NEW k, NEW ins, Inserts(B, C, k, ins),
         NEW p \in DOMAIN B, Built(F, R, B, p, TRUE),
         NEW K, NEW L, Widens(B, K, L, ins.id),
         NEW T \in Seq(Tokens), Meant(F, R, B, K, T, p),
         k \in DOMAIN B[Entry] => ins.place = B[Entry][k].place,
         k \notin DOMAIN B[Entry] => p = Entry /\ ins.place = Len(T) + 1
  PROVE  Meant(F, R, C, L, T, p)
<1>1. /\ FramesNest(F, R, B) /\ Stands(B, Pending(F), {p}) /\ EntryStands(B, {p})
      /\ BranchesOK(B, {p}) /\ B \in Blocks
      /\ Flow(B, K) /\ FramesKnow(F, R, B, K, p) /\ PathOK(B, T, Pending(F), {p})
  BY DEF Built, Meant, Inserts
<1>2. Open(B[Entry]) \/ (k \in DOMAIN B[Entry] /\ Closed(B[Entry]))
  <2>1. CASE p = Entry
    BY <1>1, <2>1 DEF Stands
  <2>2. CASE p # Entry
    BY <1>1, <2>2 DEF EntryStands
  <2> QED
    BY <2>1, <2>2
<1>3. Flow(C, L)
  BY <1>1, <1>2, FlowInserts
<1>4. FramesKnow(F, R, C, L, p)
  BY <1>1, FramesKnowInserts
<1>5. PathOK(C, T, Pending(F), {p})
  BY <1>1, PathInserts
<1>6. ASSUME NEW j \in DOMAIN F
      PROVE  FramePlace(F[j], C, T)
  <2>1. FrameOK(F[j], R, B) /\ F[j].blocks \in Seq(Nat) /\ FramePlace(F[j], B, T)
    BY <1>1, FrameFacts DEF FramesNest, Meant
  <2>2. /\ Code(C) = Code(B) \union {ins} /\ Range(ins.to) = {} /\ ins.op \notin Written
        /\ \A b \in DOMAIN B : b # Entry => C[b] = B[b]
    <3>1. Code(C) = Code(B) \union {ins}
      BY InsertsCode
    <3>2. /\ Range(ins.to) = {} /\ ins.op = "alloca"
          /\ \A b \in DOMAIN B : b # Entry => C[b] = B[b]
      BY DEF Inserts
    <3> QED

      BY <3>1, <3>2 DEF Written

  <2>3. SaysMore(T, T)
    BY DEF SaysMore
  <2>4. Looping(F[j]) => First(C, T, F[j].blocks[2]) = First(B, T, F[j].blocks[2])
    <3>1. SUFFICES ASSUME Looping(F[j])
                   PROVE  First(C, T, F[j].blocks[2]) = First(B, T, F[j].blocks[2])
      OBVIOUS
    <3>2. F[j].blocks[2] \in DOMAIN B /\ F[j].blocks[2] # Entry
      BY <1>1, <2>1, <3>1, FrameBlocks DEF HasBlocks
    <3> QED
      BY <2>2, <3>2 DEF First
  <2>5. Range(ins.to) \intersect Waiting(F[j]) = {} /\ (ins.op \in Written => ins.place \notin DOMAIN T)
    BY <2>2
  <2> QED
    BY <2>1, <2>2, <2>3, <2>4, <2>5, FramePlaceKept
<1> QED
  BY <1>3, <1>4, <1>5, <1>6 DEF Meant

\* Only the stacks change.
LEMMA BuiltPlain ==
  ASSUME NEW F, NEW G, NEW t, NEW R, NEW S, NEW r, NEW B \in Blocks, NEW p \in DOMAIN B,
         Plain(F, G, t, R, S, r, B),
         NEW a, Built(F, R, B, p, a)
  PROVE  Built(G, S, B, p, a)
<1>1. /\ FramesNest(F, R, B) /\ Stands(B, Pending(F), {p}) /\ (a => EntryStands(B, {p}))
      /\ BranchesOK(B, {p}) /\ Keeps(F, G, t, R, S, r) /\ Pending(G) = Pending(F)
  BY DEF Built, Plain
<1>2. FramesNest(G, S, B)
  <2>1. Wider(B, B)
    <3>1. Entry \in DOMAIN B
      BY BlockFacts DEF Entry
    <3> QED
      BY <3>1 DEF Wider
  <2> QED
    BY <1>1, <2>1, PlainNest
<1>3. ASSUME NEW k \in DOMAIN G
      PROVE  BlocksOK(G[k], B, Pending(G), p)
  <2>1. CASE k = t
    BY <2>1, NoBlocks DEF Plain
  <2>2. CASE k # t
    <3>1. k \in DOMAIN F /\ G[k] = F[k]
      BY <1>1, <2>2, KeptFrames
    <3> QED
      BY <1>1, <3>1 DEF Built
  <2> QED
    BY <2>1, <2>2
<1> QED
  BY <1>1, <1>2, <1>3 DEF Built

\* What is known and where things stand, when only the stacks change and no frame with
\* blocks is on top.
LEMMA MeantPlain ==
  ASSUME NEW F, NEW G, NEW t, NEW R, NEW S, NEW r, NEW B \in Blocks, NEW p \in DOMAIN B,
         Plain(F, G, t, R, S, r, B),
         NEW a, Built(F, R, B, p, a),
         NEW K, NEW T, Meant(F, R, B, K, T, p),
         t \in DOMAIN G => \A b \in DOMAIN B : G[t].locals \subseteq MadeIn(B, K, b),
         \A j \in DOMAIN S : ThenValue(G, j) \/ Available(S[j], MadeIn(B, K, p))
  PROVE  Meant(G, S, B, K, T, p)
<1>1. /\ FramesNest(F, R, B) /\ Keeps(F, G, t, R, S, r) /\ Pending(G) = Pending(F)
      /\ Flow(B, K) /\ FramesKnow(F, R, B, K, p) /\ PathOK(B, T, Pending(F), {p})
  BY DEF Built, Plain, Meant
<1>2. FramesKnow(G, S, B, K, p)
  <2>1. ASSUME NEW k \in DOMAIN G, k # t, HasBlocks(G[k])
        PROVE  Level(G[k], K) \subseteq MadeIn(B, K, p)
    <3>1. k \in DOMAIN F /\ G[k] = F[k]
      BY <1>1, <2>1, KeptFrames
    <3>2. LevelOK(F[k], F, R, B, K, p)
      BY <1>1, <3>1 DEF FramesKnow
    <3> QED
      BY <2>1, <3>1, <3>2 DEF LevelOK
  <2>2. t \in DOMAIN G => ~ HasBlocks(G[t]) /\ LevelOK(G[t], G, S, B, K, p)
    BY NoBlocks DEF Plain
  <2>3. \A j \in 1 .. r : ThenValue(F, j) => ThenValue(G, j)
    BY DEF Plain
  <2>4. t \in DOMAIN G =>
          /\ LevelOK(G[t], G, S, B, K, p)
          /\ \A b \in DOMAIN B : G[t].locals \subseteq MadeIn(B, K, b)
          /\ HasBlocks(G[t]) => \A k \in DOMAIN G : k # t /\ HasBlocks(G[k]) =>
               Level(G[k], K) \subseteq Level(G[t], K)
    BY <2>2
  <2>5. \A k \in DOMAIN G : k # t /\ HasBlocks(G[k]) => Level(G[k], K) \subseteq MadeIn(B, K, p)
    BY <2>1
  <2>6. Extends(B, K, K) /\ (\A b \in DOMAIN B : MadeIn(B, K, b) \subseteq MadeIn(B, K, b))
        /\ (\A b \in DOMAIN B \ DOMAIN B : MadeIn(B, K, b) = MadeIn(B, K, p))
    BY DEF Extends
  <2> QED
    BY <1>1, <2>3, <2>4, <2>5, <2>6, FramesKnowKept
<1>3. ASSUME NEW k \in DOMAIN G
      PROVE  FramePlace(G[k], B, T)
  <2>1. CASE k = t
    BY <2>1, NoBlocks DEF Plain
  <2>2. CASE k # t
    <3>1. k \in DOMAIN F /\ G[k] = F[k]
      BY <1>1, <2>2, KeptFrames
    <3> QED
      BY <3>1 DEF Meant
  <2> QED
    BY <2>1, <2>2
<1> QED
  BY <1>1, <1>2, <1>3 DEF Meant

\* The builder branches from p and goes on in q, a block that was pending or is new; of the
\* blocks it makes, and of those the top frame waited for, the new top frame waits for the
\* others.
Moves(F, G, t, R, S, r, B, C, p, ins, n, q) ==
  /\ Grows(B, C, p, ins, n) /\ ins.op \in {"br", "condbr"} /\ BranchOK(ins, Len(C))
  /\ Keeps(F, G, t, R, S, r)
  /\ q \in Pending(F) \union (DOMAIN C \ DOMAIN B)
  /\ Pending(G) = (Pending(F) \union (DOMAIN C \ DOMAIN B)) \ {q}
  /\ \A c \in Range(ins.to) \intersect DOMAIN B : \A i \in DOMAIN B[c] : B[c][i].op # "phi"
  /\ \A k \in DOMAIN G : k # t => Range(ins.to) \intersect Waiting(G[k]) = {}

\* The top frame, if there is one.
TopBuilt(G, t, S, C, q) ==
  t \in DOMAIN G =>
    /\ FrameOK(G[t], S, C) /\ (G[t].form = "function" <=> t = 1)
    /\ \A k \in DOMAIN G : k # t =>
         G[k].base <= Below(G[t]) /\ Waiting(G[k]) \intersect Waiting(G[t]) = {}
    /\ BlocksOK(G[t], C, Pending(G), q)

\* The graph and the stacks, after a branch.
LEMMA BuiltMove ==
  ASSUME NEW F, NEW G, NEW t, NEW R, NEW S, NEW r, NEW B, NEW C, NEW p, NEW ins, NEW n, NEW q,
         Moves(F, G, t, R, S, r, B, C, p, ins, n, q), TopBuilt(G, t, S, C, q),
         NEW a, Built(F, R, B, p, a)
  PROVE  Built(G, S, C, q, a)
<1>1. /\ FramesNest(F, R, B) /\ Stands(B, Pending(F), {p}) /\ (a => EntryStands(B, {p}))
      /\ BranchesOK(B, {p}) /\ Grows(B, C, p, ins, n) /\ Keeps(F, G, t, R, S, r)
      /\ ins.op \in Terminators /\ ins.op # "phi" /\ BranchOK(ins, Len(C))
      /\ q \in Pending(F) \union (DOMAIN C \ DOMAIN B)
      /\ Pending(G) = (Pending(F) \union (DOMAIN C \ DOMAIN B)) \ {q}
  BY DEF Built, Moves, Terminators
<1>2. B \in Blocks
  BY <1>1, GrowsFacts
<1>3. FramesNest(G, S, C)
  <2>1. Wider(B, C)
    BY <1>1, GrowsWider
  <2> QED
    BY <1>1, <2>1, NestKept DEF TopBuilt
<1>4. Stands(C, Pending(G), {q}) /\ (a => EntryStands(C, {q}))
  BY <1>1, StandsBranch
<1>5. BranchesOK(C, {q})
  <2>1. \A c \in Range(ins.to) \intersect DOMAIN B : \A i \in DOMAIN B[c] : B[c][i].op # "phi"
    BY DEF Moves
  <2>2. \A b \in {q} : b \in {p} \/ b \notin DOMAIN B \/ B[b] = << >>
    BY <1>1 DEF Stands
  <2> QED
    BY <1>1, <2>1, <2>2, BranchesGrow
<1>6. ASSUME NEW k \in DOMAIN G
      PROVE  BlocksOK(G[k], C, Pending(G), q)
  <2>1. CASE k = t
    BY <2>1 DEF TopBuilt
  <2>2. CASE k # t
    <3>1. k \in DOMAIN F /\ G[k] = F[k] /\ G[k].blocks \in Seq(Nat) /\ FrameOK(G[k], R, B)
      BY <1>1, <1>2, <2>2, KeptFrames
    <3>2. BlocksOK(G[k], B, Pending(F), p)
      BY <3>1 DEF Built
    <3>3. /\ Pending(G) \subseteq Pending(F) \union (DOMAIN C \ DOMAIN B)
          /\ q \in Pending(F) \union (DOMAIN C \ DOMAIN B) \union {p}
      BY <1>1
    <3>4. Range(ins.to) \intersect Waiting(G[k]) = {}
      BY <2>2 DEF Moves
    <3> QED
      BY <1>1, <3>1, <3>2, <3>3, <3>4, FrameBlocksKept
  <2> QED
    BY <2>1, <2>2
<1> QED
  BY <1>3, <1>4, <1>5, <1>6 DEF Built

\* What is known in the blocks there are is known in q, which knows what its frame ends
\* with or what was known where it was made.
Learns(F, G, t, R, S, r, B, C, K, L, p, ins, q) ==
  /\ Extends(B, K, L)
  /\ \A b \in DOMAIN C \ DOMAIN B : L[b] = MadeIn(B, K, p)
  /\ Range(ins.uses) \subseteq MadeIn(B, K, p) \union {Constant}
  /\ \A c \in Range(ins.to) : L[c] \subseteq MadeIn(B, K, p)
  /\ \A j \in 1 .. r : ThenValue(F, j) => ThenValue(G, j)
  /\ \A k \in DOMAIN G : k # t /\ HasBlocks(G[k]) => Level(G[k], L) \subseteq L[q]
  /\ t \in DOMAIN G =>
       /\ t \in DOMAIN F /\ G[t].locals = F[t].locals
       /\ LevelOK(G[t], G, S, C, L, q)
       /\ HasBlocks(G[t]) => \A k \in DOMAIN G : k # t /\ HasBlocks(G[k]) =>
            Level(G[k], L) \subseteq Level(G[t], L)
  /\ \A j \in DOMAIN S : ThenValue(G, j) \/ Available(S[j], L[q])

\* The body goes on where the branches go.
Continues(G, t, B, C, T, U, ins, Q, RQ) ==
  /\ SaysMore(T, U) /\ Len(U) = Len(T) + 1
  /\ ins.place = Len(T) + 1 /\ ins.place \notin DOMAIN T
  /\ Said(ins, U) /\ LeadsOn(ins, C, U, RQ)
  /\ \A y \in Code(B) : GoesOn(y, C, T, U, Q, RQ)
  /\ t \in DOMAIN G => FramePlace(G[t], C, U)

\* What is known and where things stand, after a branch.
LEMMA MeantMove ==
  ASSUME NEW F, NEW G, NEW t, NEW R, NEW S, NEW r, NEW B, NEW C, NEW p, NEW ins, NEW n, NEW q,
         Moves(F, G, t, R, S, r, B, C, p, ins, n, q),
         NEW a, Built(F, R, B, p, a),
         NEW K, NEW L, NEW T, NEW U, Meant(F, R, B, K, T, p),
         Learns(F, G, t, R, S, r, B, C, K, L, p, ins, q),
         Continues(G, t, B, C, T, U, ins, Pending(F), Pending(G))
  PROVE  Meant(G, S, C, L, U, q)
<1>1. /\ FramesNest(F, R, B) /\ Stands(B, Pending(F), {p})
      /\ BranchesOK(B, {p}) /\ Grows(B, C, p, ins, n) /\ Keeps(F, G, t, R, S, r)
      /\ ins.op \in {"br", "condbr"} /\ ins.op # "phi" /\ ins.op # "ret"
      /\ q \in Pending(F) \union (DOMAIN C \ DOMAIN B)
      /\ Flow(B, K) /\ FramesKnow(F, R, B, K, p) /\ PathOK(B, T, Pending(F), {p})
  BY DEF Built, Moves, Meant
<1>2. /\ B \in Blocks /\ p \in DOMAIN B /\ Extends(B, K, L)
      /\ \A b \in DOMAIN C \ DOMAIN B : C[b] = << >>
      /\ \A b \in DOMAIN B : b # p => C[b] = B[b]
      /\ \A b \in DOMAIN C \ DOMAIN B : L[b] = MadeIn(B, K, p)
  BY <1>1, GrowsFacts DEF Learns
<1>3. C[q] = << >> /\ q # p
  BY <1>1, <1>2 DEF Stands
<1>4. Flow(C, L)
  <2>1. Open(B[p])
    BY <1>1 DEF Stands
  <2>2. Knowing(B, K, L, p, ins)
    BY <1>1 DEF Knowing, Learns
  <2> QED
    BY <1>1, <1>2, <2>1, <2>2, FlowGrows
<1>5. /\ \A b \in DOMAIN B : MadeIn(B, K, b) \subseteq MadeIn(C, L, b)
      /\ \A b \in DOMAIN C \ DOMAIN B : MadeIn(C, L, b) = MadeIn(B, K, p)
  BY <1>1, <1>2, MadeGrows
<1>6. L[q] \subseteq MadeIn(C, L, q)
  BY DEF MadeIn
<1>7. FramesKnow(G, S, C, L, q)
  <2>1. \A k \in DOMAIN G : k # t /\ HasBlocks(G[k]) => Level(G[k], L) \subseteq MadeIn(C, L, q)
    BY <1>6 DEF Learns
  <2>2. ASSUME t \in DOMAIN G
        PROVE  /\ LevelOK(G[t], G, S, C, L, q)
               /\ \A b \in DOMAIN C : G[t].locals \subseteq MadeIn(C, L, b)
               /\ HasBlocks(G[t]) => \A k \in DOMAIN G : k # t /\ HasBlocks(G[k]) =>
                    Level(G[k], L) \subseteq Level(G[t], L)
    <3>1. /\ t \in DOMAIN F /\ G[t].locals = F[t].locals /\ LevelOK(G[t], G, S, C, L, q)
          /\ HasBlocks(G[t]) => \A k \in DOMAIN G : k # t /\ HasBlocks(G[k]) =>
               Level(G[k], L) \subseteq Level(G[t], L)
      BY <2>2 DEF Learns
    <3>2. \A b \in DOMAIN B : F[t].locals \subseteq MadeIn(B, K, b)
      BY <1>1, <3>1 DEF FramesKnow
    <3>3. \A b \in DOMAIN C : G[t].locals \subseteq MadeIn(C, L, b)
      BY <1>2, <1>5, <3>1, <3>2
    <3> QED
      BY <3>1, <3>3
  <2>3. \A j \in DOMAIN S : ThenValue(G, j) \/ Available(S[j], MadeIn(C, L, q))
    BY <1>6 DEF Learns, Available
  <2>4. \A j \in 1 .. r : ThenValue(F, j) => ThenValue(G, j)
    BY DEF Learns
  <2> QED
    BY <1>1, <1>2, <1>5, <2>1, <2>2, <2>3, <2>4, FramesKnowKept
<1>8. PathOK(C, U, Pending(G), {q})
  <2>1. /\ SaysMore(T, U) /\ Len(U) = Len(T) + 1 /\ ins.place = Len(T) + 1
        /\ Said(ins, U) /\ LeadsOn(ins, C, U, Pending(G))
        /\ \A y \in Code(B) : GoesOn(y, C, T, U, Pending(F), Pending(G))
    BY DEF Continues
  <2> QED
    BY <1>1, <1>3, <2>1, PathSaid
<1>9. ASSUME NEW k \in DOMAIN G
      PROVE  FramePlace(G[k], C, U)
  <2>1. CASE k = t
    BY <2>1 DEF Continues
  <2>2. CASE k # t
    <3>1. k \in DOMAIN F /\ G[k] = F[k] /\ G[k].blocks \in Seq(Nat) /\ FrameOK(G[k], R, B)
      BY <1>1, <1>2, <2>2, KeptFrames
    <3>2. FramePlace(G[k], B, T) /\ BlocksOK(G[k], B, Pending(F), p)
      BY <3>1 DEF Meant, Built
    <3>3. Code(C) = Code(B) \union {ins}
      BY <1>1, GrowsCode
    <3>4. /\ SaysMore(T, U) /\ ins.place = Len(T) + 1
          /\ (ins.op \in Written => ins.place \notin DOMAIN T)
      BY DEF Continues
    <3>5. Looping(G[k]) => First(C, U, G[k].blocks[2]) = First(B, T, G[k].blocks[2])
      <4>1. SUFFICES ASSUME Looping(G[k])
                     PROVE  First(C, U, G[k].blocks[2]) = First(B, T, G[k].blocks[2])
        OBVIOUS
      <4>2. G[k].blocks[2] \in DOMAIN B
        BY <1>2, <3>1, <4>1, FrameBlocks DEF HasBlocks
      <4>3. G[k].blocks[2] \notin Pending(F)
        BY <3>2, <4>1 DEF BlocksOK
      <4> QED
        BY <1>1, <3>4, <4>2, <4>3, FirstKept
    <3>6. Range(ins.to) \intersect Waiting(G[k]) = {}
      BY <2>2 DEF Moves
    <3> QED
      BY <3>2, <3>3, <3>4, <3>5, <3>6, FramePlaceKept
  <2> QED
    BY <2>1, <2>2
<1> QED
  BY <1>4, <1>7, <1>8, <1>9 DEF Meant

-----------------------------------------------------------------------------
(* The stacks of the actions.                                               *)

\* G is F with another top frame, or without.
Retops(F, G) ==
  /\ F \in Seq(Frames) /\ G \in Seq(Frames) /\ F # << >>
  /\ Len(G) \in {Len(F) - 1, Len(F)}
  /\ \A k \in 1 .. Len(F) - 1 : G[k] = F[k]

\* Leaving the top frame changes no other.
LEMMA PopRetops ==
  ASSUME NEW F \in Seq(Frames), F # << >>
  PROVE  Retops(F, Front(F)) /\ Len(Front(F)) = Len(F) - 1
BY FrontFacts DEF Retops

\* Replacing the top frame changes no other.
LEMMA TopRetops ==
  ASSUME NEW F \in Seq(Frames), F # << >>, NEW g \in Frames
  PROVE  /\ Retops(F, [F EXCEPT ![Len(F)] = g])
         /\ Len([F EXCEPT ![Len(F)] = g]) = Len(F) /\ [F EXCEPT ![Len(F)] = g][Len(F)] = g
<1> DEFINE G == [F EXCEPT ![Len(F)] = g]
<1>1. PICK m \in Nat : m = Len(F) /\ m >= 1 /\ DOMAIN F = 1 .. m
  BY EmptySeq, LenProperties
<1>2. G \in [1 .. m -> Frames]
  BY <1>1
<1>3. G \in Seq(Frames) /\ Len(G) = m
  BY <1>1, <1>2, SeqDef, LenProperties
<1>4. m \in DOMAIN F /\ \A k \in 1 .. m - 1 : k \in DOMAIN F /\ k # m
  BY <1>1
<1>5. G[m] = g /\ \A k \in 1 .. m - 1 : G[k] = F[k]
  BY <1>1, <1>4
<1> QED
  BY <1>1, <1>3, <1>5 DEF Retops

\* The indices of F and of G.
LEMMA RetopsIndices ==
  ASSUME NEW F, NEW G, Retops(F, G)
  PROVE  /\ \A k \in DOMAIN F : k # Len(F) => k \in DOMAIN G /\ G[k] = F[k] /\ k < Len(F)
         /\ \A k \in DOMAIN G : k # Len(F) => k \in DOMAIN F /\ G[k] = F[k] /\ k < Len(F)
         /\ \A k \in DOMAIN G : k <= Len(F)
         /\ Len(F) \in DOMAIN G <=> Len(G) = Len(F)
         /\ F \in Seq(Frames) /\ G \in Seq(Frames)
         /\ Len(F) \in Nat /\ Len(F) >= 1 /\ Len(F) \in DOMAIN F /\ F[Len(F)] \in Frames
<1>1. F \in Seq(Frames) /\ G \in Seq(Frames) /\ F # << >>
  BY DEF Retops
<1>2. PICK m \in Nat : m = Len(F) /\ m >= 1 /\ DOMAIN F = 1 .. m
  BY <1>1, FrameFacts, EmptySeq
<1>3. PICK l \in Nat : l = Len(G) /\ l \in {m - 1, m} /\ DOMAIN G = 1 .. l
  BY <1>1, <1>2, FrameFacts DEF Retops
<1>4. \A k \in 1 .. m - 1 : G[k] = F[k]
  BY <1>2 DEF Retops
<1>5. \A k \in 1 .. m : k # m => k \in 1 .. l /\ k \in 1 .. m - 1 /\ k < m
  BY <1>3
<1>6. \A k \in 1 .. l : k <= m /\ (k # m => k \in 1 .. m /\ k \in 1 .. m - 1 /\ k < m)
  BY <1>3
<1>7. m \in 1 .. m /\ (m \in 1 .. l <=> l = m)
  BY <1>2, <1>3
<1>8. F[m] \in Frames
  BY <1>1, <1>2, <1>7, FrameFacts
<1> QED
  BY <1>1, <1>2, <1>3, <1>4, <1>5, <1>6, <1>7, <1>8

\* What is kept: the frames below the top one, and the results it was called with.
LEMMA RetopsKeeps ==
  ASSUME NEW F, NEW G, Retops(F, G), NEW R \in Seq(Int), NEW S \in Seq(Int),
         NEW B, FramesNest(F, R, B),
         NEW r \in Nat, r = Below(F[Len(F)]), r <= Len(R), r <= Len(S),
         \A j \in 1 .. r : S[j] = R[j]
  PROVE  /\ Keeps(F, G, Len(F), R, S, r)
         /\ \A j \in 1 .. r : ThenValue(F, j) => ThenValue(G, j)
         /\ \A k \in DOMAIN G : k # Len(F) => G[k].base <= r
<1> DEFINE m == Len(F)
<1>1. /\ \A k \in DOMAIN F : k # m => k \in DOMAIN G /\ G[k] = F[k] /\ k < m
      /\ \A k \in DOMAIN G : k # m => k \in DOMAIN F /\ G[k] = F[k] /\ k < m
      /\ \A k \in DOMAIN G : k <= m
      /\ F \in Seq(Frames) /\ G \in Seq(Frames)
      /\ m \in DOMAIN F /\ F[m] \in Frames /\ F[m].base \in Nat
  BY RetopsIndices, FrameFacts
<1>2. r = Below(F[m])
  OBVIOUS
<1> HIDE DEF m
<1>3. ASSUME NEW k \in DOMAIN G, k # m
      PROVE  k \in DOMAIN F /\ G[k] = F[k] /\ G[k].base <= r
  <2>1. k \in DOMAIN F /\ k < m /\ G[k] = F[k]
    BY <1>1, <1>3
  <2>2. F[k].base <= Below(F[m])
    BY <1>1, <2>1 DEF FramesNest
  <2> QED
    BY <1>2, <2>1, <2>2
<1>4. Keeps(F, G, m, R, S, r)
  BY <1>1, <1>3 DEF Keeps
<1>5. ASSUME NEW j \in 1 .. r, ThenValue(F, j)
      PROVE  ThenValue(G, j)
  <2>1. PICK k \in DOMAIN F : F[k].stage = "else" /\ F[k].base = j
    BY <1>5 DEF ThenValue
  <2>2. CASE k = m
    <3>1. r = F[m].base - 1 /\ F[m].base = j
      BY <1>2, <2>1, <2>2 DEF Below
    <3>2. FALSE
      BY <1>1, <3>1
    <3> QED
      BY <3>2
  <2>3. CASE k # m
    BY <1>1, <2>1, <2>3 DEF ThenValue
  <2> QED
    BY <2>2, <2>3
<1> QED
  BY <1>3, <1>4, <1>5 DEF m

\* The blocks frames wait for, when there is another top frame.
LEMMA RetopsPending ==
  ASSUME NEW F, NEW G, Retops(F, G), NEW R, NEW B, FramesNest(F, R, B)
  PROVE  /\ Pending(G) = (Pending(F) \ Waiting(F[Len(F)]))
                           \union (IF Len(G) = Len(F) THEN Waiting(G[Len(F)]) ELSE {})
         /\ Unplaced(G) = (Unplaced(F) \ (IF F[Len(F)].form = "if" THEN Waiting(F[Len(F)]) ELSE {}))
                           \union (IF Len(G) = Len(F) /\ G[Len(F)].form = "if"
                                   THEN Waiting(G[Len(F)]) ELSE {})
         /\ Waiting(F[Len(F)]) \subseteq Pending(F)
         /\ \A k \in DOMAIN G : k # Len(F) =>
              Waiting(G[k]) \intersect Waiting(F[Len(F)]) = {} /\ Waiting(G[k]) \subseteq Pending(F)
<1> DEFINE m == Len(F)
<1>1. /\ \A k \in DOMAIN F : k # m => k \in DOMAIN G /\ G[k] = F[k] /\ k < m
      /\ \A k \in DOMAIN G : k # m => k \in DOMAIN F /\ G[k] = F[k]
      /\ m \in DOMAIN G <=> Len(G) = m
      /\ m \in DOMAIN F
  BY RetopsIndices
<1> HIDE DEF m
<1>5. \A k \in DOMAIN F : k # m => Waiting(F[k]) \intersect Waiting(F[m]) = {}
  BY <1>1 DEF FramesNest
<1>6. Pending(G) = (Pending(F) \ Waiting(F[m]))
                      \union (IF Len(G) = m THEN Waiting(G[m]) ELSE {})
  BY <1>1, <1>5 DEF Pending
<1>7. Unplaced(G) = (Unplaced(F) \ (IF F[m].form = "if" THEN Waiting(F[m]) ELSE {}))
                      \union (IF Len(G) = m /\ G[m].form = "if" THEN Waiting(G[m]) ELSE {})
  BY <1>1, <1>5 DEF Unplaced
<1>8. Waiting(F[m]) \subseteq Pending(F)
  BY <1>1 DEF Pending
<1>9. \A k \in DOMAIN G : k # m =>
        Waiting(G[k]) \intersect Waiting(F[m]) = {} /\ Waiting(G[k]) \subseteq Pending(F)
  BY <1>1, <1>5 DEF Pending
<1> QED
  BY <1>6, <1>7, <1>8, <1>9 DEF m

\* Another frame on top, or another result.
LEMMA PushKeeps ==
  ASSUME NEW F \in Seq(Frames), NEW R \in Seq(Int),
         NEW G \in Seq(Frames), Len(G) \in {Len(F), Len(F) + 1},
         \A k \in 1 .. Len(F) : G[k] = F[k],
         NEW S \in Seq(Int), NEW r \in Nat, r <= Len(R), r <= Len(S),
         \A k \in DOMAIN F : F[k].base <= r,
         \A j \in 1 .. r : S[j] = R[j],
         Len(G) = Len(F) + 1 => Waiting(G[Len(F) + 1]) = {}
  PROVE  /\ Keeps(F, G, Len(F) + 1, R, S, r) /\ Pending(G) = Pending(F) /\ Unplaced(G) = Unplaced(F)
         /\ \A j : ThenValue(F, j) => ThenValue(G, j)
         /\ Len(F) + 1 \in DOMAIN G <=> Len(G) = Len(F) + 1
<1>1. PICK m \in Nat : m = Len(F) /\ DOMAIN F = 1 .. m
  BY FrameFacts
<1>2. PICK l \in Nat : l = Len(G) /\ l \in {m, m + 1} /\ DOMAIN G = 1 .. l
  BY <1>1, FrameFacts
<1>3. \A k \in 1 .. m : k \in 1 .. l
  BY <1>2
<1>4. \A k \in 1 .. l : k <= m + 1 /\ (k # m + 1 => k \in 1 .. m)
  BY <1>2
<1>5. m + 1 \in 1 .. l <=> l = m + 1
  BY <1>2
<1>6. /\ \A k \in DOMAIN F : k \in DOMAIN G /\ G[k] = F[k]
      /\ \A k \in DOMAIN G : k # m + 1 => k \in DOMAIN F
      /\ \A k \in DOMAIN G : k <= m + 1
      /\ m + 1 \in DOMAIN G <=> l = m + 1
  BY <1>1, <1>2, <1>3, <1>4, <1>5
<1>7. \A k \in DOMAIN G : k \in DOMAIN F \/ Waiting(G[k]) = {}
  BY <1>1, <1>2, <1>6
<1>8. Pending(G) = Pending(F) /\ Unplaced(G) = Unplaced(F)
  BY <1>6, <1>7 DEF Pending, Unplaced
<1>9. \A j : ThenValue(F, j) => ThenValue(G, j)
  BY <1>6 DEF ThenValue
<1>10. Keeps(F, G, m + 1, R, S, r)
  BY <1>6 DEF Keeps
<1> QED
  BY <1>1, <1>2, <1>6, <1>8, <1>9, <1>10

-----------------------------------------------------------------------------
(* The actions.                                                             *)

\* What the invariant says while the body is being compiled.
LEMMA Emitting ==
  ASSUME IInv, phase = "emit"
  PROVE  /\ Built(frames, results, blocks, insert, anchored)
         /\ anchored => Meant(frames, results, blocks, known, tokens, insert)
         /\ FramesNest(frames, results, blocks)
         /\ placed = DOMAIN blocks \ Unplaced(frames) /\ anchored \in BOOLEAN
         /\ frames \in Seq(Frames) /\ frames # << >> /\ results \in Seq(Int)
         /\ blocks \in Blocks /\ insert \in DOMAIN blocks /\ tokens \in Seq(Tokens)
         /\ known \in Seq(SUBSET Nat) /\ Len(known) = Len(blocks)
         /\ TypeOK
<1>1. TypeOK /\ Layout /\ Edges /\ (anchored => Knowledge /\ Places) /\ frames # << >>
  BY DEF IInv, RunOK
<1>2. Filling(frames, insert) = {insert}
  BY <1>1 DEF Filling
<1> QED
  BY <1>1, <1>2 DEF Layout, Edges, Knowledge, Places, Built, Meant, TypeOK

\* The invariant holds after an action that goes on compiling, if its parts do.
LEMMA Emits ==
  ASSUME IInv, phase = "emit", phase' = "emit", TypeOK', frames' # << >>, UNCHANGED run,
         Built(frames', results', blocks', insert', anchored'),
         placed' = DOMAIN blocks' \ Unplaced(frames'),
         anchored' => Meant(frames', results', blocks', known', tokens', insert')
  PROVE  IInv'
<1>1. Filling(frames', insert') = {insert'}
  BY DEF Filling
<1>2. Layout' /\ Edges' /\ (anchored' => Knowledge' /\ Places')
  BY <1>1 DEF Built, Meant, Layout, Edges, Knowledge, Places
<1>3. RunOK'
  BY DEF IInv, RunOK, run
<1> QED
  BY <1>2, <1>3 DEF IInv

\* The top frame.
LEMMA TopFacts ==
  ASSUME IInv, phase = "emit"
  PROVE  /\ Top = frames[Len(frames)] /\ Top \in Frames /\ Len(frames) \in DOMAIN frames
         /\ FrameOK(Top, results, blocks) /\ FormOK(Top)
         /\ Top.form = "function" <=> Len(frames) = 1
         /\ Len(results) \in Nat /\ DOMAIN results = 1 .. Len(results)
         /\ Top.base \in Nat /\ Top.base <= Len(results) /\ Below(Top) \in Nat
         /\ Below(Top) <= Len(results) /\ Delivered = Len(results) - Top.base
         /\ Len(frames) \in Nat /\ Len(frames) >= 1
<1>1. frames \in Seq(Frames) /\ frames # << >> /\ results \in Seq(Int)
      /\ FramesNest(frames, results, blocks)
  BY Emitting
<1>2. PICK m \in Nat : m = Len(frames) /\ m >= 1 /\ m \in DOMAIN frames
  BY <1>1, FrameFacts, EmptySeq
<1>3. Top = frames[m]
  BY <1>2 DEF Top, Last
<1>4. Top \in Frames /\ Top.base \in Nat
  BY <1>1, <1>2, <1>3, FrameFacts
<1>5. FrameOK(Top, results, blocks) /\ (Top.form = "function" <=> m = 1)
  BY <1>1, <1>2, <1>3 DEF FramesNest
<1>6. FormOK(Top) /\ Top.base <= Len(results) /\ (Top.stage = "else" => Top.base >= 1)
  BY <1>5 DEF FrameOK, FormOK
<1>7. Len(results) \in Nat /\ DOMAIN results = 1 .. Len(results)
  BY <1>1, LenProperties
<1>8. Below(Top) \in Nat /\ Below(Top) <= Len(results)
  BY <1>4, <1>6, <1>7 DEF Below
<1> QED
  BY <1>2, <1>3, <1>4, <1>5, <1>6, <1>7, <1>8 DEF Delivered

\* The results of the top frame are above those of the others, and none is the value of a
\* then part.
LEMMA OwnResults ==
  ASSUME IInv, phase = "emit"
  PROVE  /\ \A k \in DOMAIN frames : frames[k].base \in Nat /\ frames[k].base <= Top.base
         /\ \A j \in DOMAIN results : j > Top.base => ~ ThenValue(frames, j)
<1>1. frames \in Seq(Frames) /\ FramesNest(frames, results, blocks)
  BY Emitting
<1>2. PICK m \in Nat : m = Len(frames) /\ m >= 1 /\ DOMAIN frames = 1 .. m
  BY <1>1, TopFacts, FrameFacts
<1>3. \A k \in 1 .. m : k = m \/ k < m
  OBVIOUS
<1>4. ASSUME NEW k \in DOMAIN frames
      PROVE  frames[k].base \in Nat /\ frames[k].base <= Top.base
  <2>1. CASE k = m
    BY <1>2, <2>1, TopFacts
  <2>2. CASE k < m
    <3>1. frames[k].base <= Below(frames[m]) /\ frames[m] = Top
      BY <1>1, <1>2, <2>2, TopFacts DEF FramesNest
    <3>2. frames[k].base \in Nat /\ Below(Top) <= Top.base /\ Below(Top) \in Nat /\ Top.base \in Nat
      BY <1>1, TopFacts, FrameFacts DEF Below
    <3> QED
      BY <3>1, <3>2
  <2> QED
    BY <1>2, <1>3, <2>1, <2>2
<1>5. ASSUME NEW j \in DOMAIN results, j > Top.base, ThenValue(frames, j)
      PROVE  FALSE
  <2>1. PICK k \in DOMAIN frames : frames[k].base = j
    BY <1>5 DEF ThenValue
  <2>2. j <= Top.base /\ j \in Nat /\ Top.base \in Nat
    BY <1>4, <2>1, TopFacts
  <2> QED
    BY <1>5, <2>2
<1> QED
  BY <1>4, <1>5

\* Another value, and no other frame.
LEMMA PlainDeliver ==
  ASSUME IInv, phase = "emit", NEW S \in Seq(Int), NEW r \in Nat,
         Top.base <= r, r <= Len(results), r <= Len(S), \A j \in 1 .. r : S[j] = results[j]
  PROVE  /\ Plain(frames, frames, Len(frames) + 1, results, S, r, blocks)
         /\ Len(frames) + 1 \notin DOMAIN frames
<1>1. frames \in Seq(Frames) /\ results \in Seq(Int) /\ FramesNest(frames, results, blocks)
  BY Emitting
<1>2. PICK m \in Nat : m = Len(frames) /\ m >= 1 /\ DOMAIN frames = 1 .. m
  BY <1>1, TopFacts, FrameFacts
<1>4. ASSUME NEW k \in DOMAIN frames
      PROVE  frames[k].base <= r
  BY OwnResults, TopFacts
<1>5. m + 1 \notin 1 .. m
  OBVIOUS
<1>6. Len(frames) # Len(frames) + 1 /\ Len(frames) \in {Len(frames), Len(frames) + 1}
  BY <1>2
<1>7. Keeps(frames, frames, Len(frames) + 1, results, S, r)
  BY <1>1, <1>4, <1>6, PushKeeps
<1> QED
  BY <1>2, <1>5, <1>7 DEF Plain

\* The top frame is left, with the results above r gone.
LEMMA PlainPop ==
  ASSUME IInv, phase = "emit", Waiting(Top) = {}, Top.form # "function",
         NEW S \in Seq(Int),
         Below(Top) <= Len(S), \A j \in 1 .. Below(Top) : S[j] = results[j]
  PROVE  /\ Plain(frames, Front(frames), Len(frames), results, S, Below(Top), blocks)
         /\ Len(frames) \notin DOMAIN Front(frames) /\ Front(frames) # << >>
         /\ Unplaced(Front(frames)) = Unplaced(frames) /\ Front(frames) \in Seq(Frames)
<1>1. /\ frames \in Seq(Frames) /\ frames # << >> /\ results \in Seq(Int)
      /\ FramesNest(frames, results, blocks)
  BY Emitting
<1>2. PICK m \in Nat : m = Len(frames) /\ m >= 2 /\ Len(Front(frames)) = m - 1
  <2>1. PICK m \in Nat : m = Len(frames) /\ m >= 1 /\ m # 1
    BY TopFacts
  <2>2. Len(Front(frames)) = Len(frames) - 1
    BY <1>1, FrontFacts
  <2> QED
    BY <2>1, <2>2
<1>3. Retops(frames, Front(frames)) /\ Front(frames) \in Seq(Frames)
  BY <1>1, PopRetops DEF Retops
<1>4. Len(frames) \notin DOMAIN Front(frames) /\ Front(frames) # << >> /\ Len(Front(frames)) # Len(frames)
  <2>1. Len(Front(frames)) # Len(frames) /\ Len(Front(frames)) # 0
    BY <1>2
  <2> QED
    BY <1>3, <2>1, RetopsIndices, EmptySeq
<1>5. Top = frames[Len(frames)] /\ Below(Top) \in Nat /\ Below(Top) <= Len(results)
  BY TopFacts
<1>6. /\ Keeps(frames, Front(frames), Len(frames), results, S, Below(Top))
      /\ \A j \in 1 .. Below(Top) : ThenValue(frames, j) => ThenValue(Front(frames), j)
  BY <1>1, <1>3, <1>5, RetopsKeeps
<1>7. /\ Pending(Front(frames)) = Pending(frames) \ {}
      /\ Unplaced(Front(frames)) = Unplaced(frames) \ {}
  <2> DEFINE G == Front(frames)
             m1 == Len(frames)
  <2>1. /\ Pending(G) = (Pending(frames) \ Waiting(frames[m1]))
                           \union (IF Len(G) = m1 THEN Waiting(G[m1]) ELSE {})
        /\ Unplaced(G) = (Unplaced(frames) \ (IF frames[m1].form = "if" THEN Waiting(frames[m1]) ELSE {}))
                           \union (IF Len(G) = m1 /\ G[m1].form = "if" THEN Waiting(G[m1]) ELSE {})
    BY <1>1, <1>3, RetopsPending
  <2>2. Waiting(frames[m1]) = {} /\ Len(G) # m1
    BY <1>4, <1>5
  <2> HIDE DEF G, m1
  <2>3. Pending(G) = Pending(frames) \ {} /\ Unplaced(G) = Unplaced(frames) \ {}
    BY <2>1, <2>2
  <2> QED
    BY <2>3 DEF G

<1> QED
  BY <1>3, <1>4, <1>6, <1>7 DEF Plain

\* What is known of the results where the builder is.
LEMMA KnownResults ==
  ASSUME IInv, phase = "emit", anchored
  PROVE  /\ \A j \in DOMAIN results :
              ThenValue(frames, j) \/ Available(results[j], MadeIn(blocks, known, insert))
         /\ \A j \in DOMAIN results :
              j > Top.base => Available(results[j], MadeIn(blocks, known, insert))
<1>1. FramesKnow(frames, results, blocks, known, insert)
  BY Emitting DEF Meant
<1> QED
  BY <1>1, OwnResults DEF FramesKnow

\* The value a child has delivered.
LEMMA LastResult ==
  ASSUME IInv, phase = "emit", Delivered >= 1
  PROVE  /\ Last(results) \in Int /\ Last(results) = results[Len(results)]
         /\ Len(results) \in DOMAIN results /\ Len(results) > Top.base /\ results # << >>
         /\ anchored => Available(Last(results), MadeIn(blocks, known, insert))
         /\ Len(results) >= 1
         /\ Front(results) \in Seq(Int) /\ Len(Front(results)) = Len(results) - 1
         /\ \A j \in 1 .. Len(results) - 1 : Front(results)[j] = results[j]
<1>1. results \in Seq(Int)
  BY Emitting
<1>2. PICK l \in Nat : l = Len(results) /\ DOMAIN results = 1 .. l /\ l - Top.base >= 1 /\ Top.base \in Nat
  BY TopFacts
<1>3. l \in DOMAIN results /\ l > Top.base /\ l >= 1
  BY <1>2
<1>4. results # << >>
  BY <1>3
<1>5. Last(results) = results[l] /\ Last(results) \in Int
  BY <1>1, <1>2, <1>3 DEF Last
<1>6. anchored => Available(Last(results), MadeIn(blocks, known, insert))
  BY <1>3, <1>5, KnownResults
<1>7. /\ Front(results) \in Seq(Int) /\ Len(Front(results)) = Len(results) - 1
      /\ \A j \in 1 .. Len(results) - 1 : Front(results)[j] = results[j]
  BY <1>1, <1>4, FrontFacts
<1> QED
  BY <1>2, <1>3, <1>4, <1>5, <1>6, <1>7

\* A value on top of the first r results.
LEMMA ReplaceResults ==
  ASSUME IInv, phase = "emit", NEW d \in Nat, d <= Len(results), NEW v \in Int
  PROVE  LET S == Append(DropLast(results, d), v) IN
         /\ S \in Seq(Int) /\ Len(S) = Len(results) - d + 1
         /\ \A j \in 1 .. Len(results) - d : S[j] = results[j]
         /\ \A j \in DOMAIN S : (j \in DOMAIN results /\ j <= Len(results) - d /\ S[j] = results[j]) \/ S[j] = v
<1> DEFINE S == Append(DropLast(results, d), v)
<1>1. results \in Seq(Int)
  BY Emitting
<1>2. /\ S \in Seq(Int) /\ Len(S) = Len(results) - d + 1
      /\ \A j \in 1 .. Len(results) - d : S[j] = results[j]
      /\ S[Len(results) - d + 1] = v
  BY <1>1, ReplaceSome DEF DropLast
<1> HIDE DEF S
<1>3. PICK l \in Nat : l = Len(results) /\ DOMAIN results = 1 .. l /\ d <= l
  BY TopFacts
<1>4. DOMAIN S = 1 .. l - d + 1
  BY <1>2, <1>3, LenProperties
<1>5. \A j \in 1 .. l - d + 1 : (j \in 1 .. l /\ j \in 1 .. l - d /\ j <= l - d) \/ j = l - d + 1
  BY <1>3
<1>6. \A j \in DOMAIN S : (j \in DOMAIN results /\ j <= Len(results) - d /\ S[j] = results[j]) \/ S[j] = v
  BY <1>2, <1>3, <1>4, <1>5
<1> QED
  BY <1>2, <1>6 DEF S

\* A value on top of the results.
LEMMA AppendResult ==
  ASSUME IInv, phase = "emit", NEW v \in Int
  PROVE  LET S == Append(results, v) IN
         /\ S \in Seq(Int) /\ Len(S) = Len(results) + 1
         /\ \A j \in 1 .. Len(results) : S[j] = results[j]
         /\ \A j \in DOMAIN S : (j \in DOMAIN results /\ S[j] = results[j]) \/ S[j] = v
<1> DEFINE S == Append(results, v)
<1>1. results \in Seq(Int)
  BY Emitting
<1>2. PICK l \in Nat : l = Len(results) /\ DOMAIN results = 1 .. l
  BY TopFacts
<1>3. /\ S \in Seq(Int) /\ Len(S) = l + 1 /\ DOMAIN S = 1 .. l + 1
      /\ \A j \in 1 .. l : S[j] = results[j]
      /\ S[l + 1] = v
  BY <1>1, <1>2, AppendProperties
<1> HIDE DEF S
<1>4. \A j \in 1 .. l + 1 : j \in 1 .. l \/ j = l + 1
  BY <1>2
<1>5. \A j \in DOMAIN S : (j \in DOMAIN results /\ S[j] = results[j]) \/ S[j] = v
  BY <1>2, <1>3, <1>4
<1> QED
  BY <1>2, <1>3, <1>5 DEF S

\* A constant is delivered, and nothing is emitted.
LEMMA EmitConstantStep == ASSUME IInv, EmitConstant PROVE IInv'
<1>1. /\ phase = "emit" /\ phase' = "emit" /\ results' = Append(results, Constant)
      /\ blocks' = blocks /\ placed' = placed /\ insert' = insert /\ known' = known
      /\ frames' = frames /\ size' = size /\ anchored' = anchored /\ tokens' = tokens
      /\ at' = at /\ ran' = ran /\ place' = place
  BY DEF EmitConstant, WantsChild, graph, shape, run
<1>2. Constant \in Int
  BY DEF Constant
<1>3. /\ results' \in Seq(Int) /\ Len(results') = Len(results) + 1
      /\ \A j \in 1 .. Len(results) : results'[j] = results[j]
      /\ \A j \in DOMAIN results' : (j \in DOMAIN results /\ results'[j] = results[j]) \/ results'[j] = Constant
  BY <1>1, <1>2, AppendResult
<1>4. /\ Plain(frames, frames, Len(frames) + 1, results, results', Len(results), blocks)
      /\ Len(frames) + 1 \notin DOMAIN frames
  <2>1. PICK l \in Nat : l = Len(results) /\ Top.base <= l
    BY <1>1, TopFacts
  <2>2. l <= Len(results) /\ l <= Len(results')
    BY <1>3, <2>1
  <2> QED
    BY <1>1, <1>3, <2>1, <2>2, PlainDeliver
<1>5. Built(frames, results', blocks, insert, anchored)
  BY <1>1, <1>4, Emitting, BuiltPlain
<1>6. ASSUME anchored PROVE Meant(frames, results', blocks, known, tokens, insert)
  <2>1. \A j \in DOMAIN results' :
          ThenValue(frames, j) \/ Available(results'[j], MadeIn(blocks, known, insert))
    BY <1>1, <1>3, <1>6, KnownResults DEF Available
  <2> QED
    BY <1>1, <1>4, <1>6, <2>1, Emitting, MeantPlain
<1>7. TypeOK'
  BY <1>1, <1>3, Emitting DEF TypeOK
<1> QED
  BY <1>1, <1>5, <1>6, <1>7, Emitting, Emits DEF run

\* The frame of a node that has just been entered.
LEMMA FrameType ==
  ASSUME IInv, phase = "emit", NEW form \in {"call", "set", "let", "for", "if"},
         NEW stage \in {"bind", "cond", "body"}
  PROVE  /\ Frame(form, stage) \in Frames
         /\ Frame(form, stage).form = form /\ Frame(form, stage).stage = stage
         /\ Frame(form, stage).base = Len(results) /\ Frame(form, stage).locals = {}
         /\ Frame(form, stage).anchor = AtEnd \/
              \E i \in DOMAIN blocks[Entry] : blocks[Entry][i].id = Frame(form, stage).anchor
<1>1. Len(results) \in Nat
  BY TopFacts
<1>2. blocks \in Blocks /\ Entry \in DOMAIN blocks
  <2>1. blocks \in Blocks /\ insert \in DOMAIN blocks
    BY Emitting
  <2> QED
    BY <2>1, BlockFacts DEF Entry
<1>3. Anchor \in Nat /\ (Anchor = AtEnd \/ \E i \in DOMAIN blocks[Entry] : blocks[Entry][i].id = Anchor)
  <2>1. CASE blocks[Entry] = << >>
    BY <2>1 DEF Anchor, AtEnd
  <2>2. CASE blocks[Entry] # << >>
    <3>1. 1 \in DOMAIN blocks[Entry] /\ blocks[Entry][1] \in Instructions
      BY <1>2, <2>2, BlockFacts
    <3>2. Anchor = blocks[Entry][1].id
      BY <2>2 DEF Anchor
    <3> QED
      BY <3>1, <3>2 DEF Instructions
  <2> QED
    BY <2>1, <2>2
<1>4. << >> \in Seq(Nat)
  OBVIOUS
<1>5. Frame(form, stage) =
        [form |-> form, stage |-> stage, base |-> Len(results), anchor |-> Anchor,
         locals |-> {}, blocks |-> << >>, test |-> 0, mark |-> 0]
  BY DEF Frame
<1>6. Frame(form, stage) \in Frames
  BY <1>1, <1>3, <1>4, <1>5 DEF Frames
<1> QED
  BY <1>3, <1>5, <1>6

\* A node is entered: a frame without blocks on top.
LEMMA EnterStep ==
  ASSUME IInv, NEW form \in {"call", "set", "let", "for", "if"}, Enter(form)
  PROVE  IInv'
<1> DEFINE stage == CASE form \in {"call", "set"} -> "body"
                      [] form = "if" -> "cond"
                      [] OTHER -> "bind"
           f == Frame(form, stage)
<1>1. /\ phase = "emit" /\ phase' = "emit" /\ results' = results
      /\ blocks' = blocks /\ placed' = placed /\ insert' = insert /\ known' = known
      /\ frames' = Append(frames, f) /\ size' = size + 1 /\ anchored' = anchored /\ tokens' = tokens
      /\ at' = at /\ ran' = ran /\ place' = place
  BY DEF Enter, Count, WantsChild, graph, shape, run
<1>2. /\ stage \in {"bind", "cond", "body"} /\ (form # "if" => stage # "cond")
      /\ (form = "if" => stage = "cond") /\ (stage = "bind" => form \in {"let", "for"})
      /\ (form = "for" => stage = "bind")

  OBVIOUS
<1> HIDE DEF stage
<1>3. /\ f \in Frames /\ f.form = form /\ f.stage = stage /\ f.base = Len(results) /\ f.locals = {}
      /\ f.anchor = AtEnd \/ \E i \in DOMAIN blocks[Entry] : blocks[Entry][i].id = f.anchor
  BY <1>1, <1>2, FrameType
<1> HIDE DEF f
<1>4. ~ HasBlocks(f)
  BY <1>2, <1>3 DEF HasBlocks, Looping
<1>5. PICK m \in Nat : m = Len(frames) /\ DOMAIN frames = 1 .. m /\ m >= 1
  BY <1>1, TopFacts, FrameFacts, Emitting
<1>6. /\ frames' \in Seq(Frames) /\ Len(frames') = m + 1 /\ DOMAIN frames' = 1 .. m + 1
      /\ \A k \in 1 .. m : frames'[k] = frames[k]
      /\ frames'[m + 1] = f
  BY <1>1, <1>3, <1>5, Emitting, AppendProperties
<1>7. /\ Keeps(frames, frames', m + 1, results, results, Len(results))
      /\ Pending(frames') = Pending(frames) /\ Unplaced(frames') = Unplaced(frames)
      /\ \A j : ThenValue(frames, j) => ThenValue(frames', j)
      /\ m + 1 \in DOMAIN frames'
  <2>1. PICK l \in Nat : l = Len(results) /\ l <= Len(results) /\ Top.base <= l /\ Top.base \in Nat
    BY <1>1, TopFacts
  <2>2. \A k \in DOMAIN frames : frames[k].base <= l
    BY <1>1, <2>1, OwnResults
  <2>3. Waiting(frames'[m + 1]) = {}
    BY <1>4, <1>6, NoBlocks
  <2>4. Len(frames') \in {Len(frames), Len(frames) + 1}
    BY <1>5, <1>6
  <2>5. m + 1 \in 1 .. m + 1
    OBVIOUS
  <2>6. frames \in Seq(Frames) /\ results \in Seq(Int)
    BY <1>1, Emitting
  <2> QED
    BY <1>5, <1>6, <2>1, <2>2, <2>3, <2>4, <2>5, <2>6, PushKeeps
<1>8. Plain(frames, frames', m + 1, results, results', Len(results), blocks)
  <2>1. FrameOK(f, results, blocks)
    BY <1>1, <1>2, <1>3, <1>4, TopFacts DEF FrameOK, FormOK
  <2>2. f.form # "function" /\ m + 1 # 1
    BY <1>3, <1>5
  <2>3. Below(f) = Len(results) /\ Len(results) \in Nat
    BY <1>1, <1>2, <1>3, TopFacts DEF Below
  <2>4. \A k \in DOMAIN frames' : k # m + 1 => frames'[k].base <= Below(f)
    BY <1>7, <2>3 DEF Keeps
  <2> QED
    BY <1>1, <1>4, <1>6, <1>7, <2>1, <2>2, <2>4 DEF Plain
<1>9. Built(frames', results', blocks, insert, anchored)
  BY <1>1, <1>8, Emitting, BuiltPlain
<1>10. ASSUME anchored PROVE Meant(frames', results', blocks, known, tokens, insert)
  <2>1. \A j \in DOMAIN results' :
          ThenValue(frames', j) \/ Available(results'[j], MadeIn(blocks, known, insert))
    BY <1>1, <1>7, <1>10, KnownResults
  <2>2. \A b \in DOMAIN blocks : frames'[m + 1].locals \subseteq MadeIn(blocks, known, b)
    BY <1>3, <1>6
  <2> QED
    BY <1>1, <1>8, <1>10, <2>1, <2>2, Emitting, MeantPlain
<1>11. TypeOK' /\ frames' # << >>
  <2>1. size \in Nat
    BY <1>1, Emitting DEF TypeOK
  <2>2. frames' # << >>
    BY <1>5, <1>6, EmptySeq
  <2> QED
    BY <1>1, <1>6, <2>1, <2>2, Emitting DEF TypeOK
<1> QED
  BY <1>1, <1>7, <1>9, <1>10, <1>11, Emitting, Emits DEF run

\* The values of then parts stay, when a frame is left that has none.
LEMMA PopThenValue ==
  ASSUME IInv, phase = "emit", Top.stage # "else"
  PROVE  \A j : ThenValue(frames, j) => ThenValue(Front(frames), j)
<1>1. frames \in Seq(Frames) /\ frames # << >> /\ Top = frames[Len(frames)]
  BY Emitting, TopFacts
<1>2. Retops(frames, Front(frames))
  BY <1>1, PopRetops
<1>3. ASSUME NEW j, ThenValue(frames, j) PROVE ThenValue(Front(frames), j)
  <2>1. PICK k \in DOMAIN frames : frames[k].stage = "else" /\ frames[k].base = j
    BY <1>3 DEF ThenValue
  <2>2. k # Len(frames)
    BY <1>1, <2>1
  <2>3. k \in DOMAIN Front(frames) /\ Front(frames)[k] = frames[k]
    BY <1>2, <2>2, RetopsIndices
  <2> QED
    BY <2>1, <2>3 DEF ThenValue
<1> QED
  BY <1>3

\* The bindings of a let are over, and its body begins.
LEMMA EndBindingsStep == ASSUME IInv, EndBindings PROVE IInv'
<1> DEFINE f == [Top EXCEPT !.stage = "body"]
           m == Len(frames)
<1>1. /\ phase = "emit" /\ phase' = "emit" /\ Top.form = "let" /\ Top.stage = "bind"
      /\ blocks' = blocks /\ placed' = placed /\ insert' = insert /\ known' = known
      /\ results' = results /\ size' = size /\ anchored' = anchored /\ tokens' = tokens
      /\ at' = at /\ ran' = ran /\ place' = place
      /\ frames' = [frames EXCEPT ![Len(frames)].stage = "body"]
  BY DEF EndBindings, graph, shape, run
<1>2. /\ frames \in Seq(Frames) /\ frames # << >> /\ results \in Seq(Int) /\ blocks \in Blocks
      /\ FramesNest(frames, results, blocks) /\ insert \in DOMAIN blocks
      /\ Built(frames, results, blocks, insert, anchored)
  BY <1>1, Emitting
<1>3. /\ Top = frames[m] /\ Top \in Frames /\ m \in DOMAIN frames /\ FrameOK(Top, results, blocks)
      /\ Below(Top) \in Nat /\ Below(Top) <= Len(results) /\ (Top.form = "function" <=> m = 1)
  BY <1>1, TopFacts
<1>4. /\ f \in Frames /\ f.form = "let" /\ f.stage = "body" /\ f.base = Top.base
      /\ f.anchor = Top.anchor /\ f.locals = Top.locals
  BY <1>1, <1>3 DEF Frames
<1>5. frames' = [frames EXCEPT ![m] = f]
  BY <1>1, <1>3
<1> HIDE DEF f
<1>6. Retops(frames, frames') /\ Len(frames') = Len(frames) /\ frames'[m] = f
  BY <1>2, <1>4, <1>5, TopRetops
<1>7. ~ HasBlocks(f) /\ ~ HasBlocks(Top)
  BY <1>1, <1>4 DEF HasBlocks, Looping
<1>8. /\ Keeps(frames, frames', m, results, results, Below(Top))
      /\ \A j \in 1 .. Below(Top) : ThenValue(frames, j) => ThenValue(frames', j)
      /\ \A k \in DOMAIN frames' : k # m => frames'[k].base <= Below(Top)
  BY <1>2, <1>3, <1>6, RetopsKeeps
<1>9. Pending(frames') = Pending(frames) /\ Unplaced(frames') = Unplaced(frames)
  <2>1. Waiting(f) = {} /\ Waiting(frames[m]) = {} /\ Waiting(frames'[m]) = {}
    BY <1>3, <1>6, <1>7, NoBlocks
  <2>2. /\ Pending(frames') = (Pending(frames) \ Waiting(frames[m]))
                           \union (IF Len(frames') = m THEN Waiting(frames'[m]) ELSE {})
        /\ Unplaced(frames') = (Unplaced(frames) \ (IF frames[m].form = "if" THEN Waiting(frames[m]) ELSE {}))
                           \union (IF Len(frames') = m /\ frames'[m].form = "if"
                                   THEN Waiting(frames'[m]) ELSE {})
    BY <1>2, <1>6, RetopsPending
  <2> QED
    BY <2>1, <2>2
<1>10. Plain(frames, frames', m, results, results', Below(Top), blocks)
  <2>1. FrameOK(f, results, blocks)
    BY <1>1, <1>3, <1>4, <1>7 DEF FrameOK, FormOK
  <2>2. Below(f) = Below(Top)
    BY <1>1, <1>4 DEF Below
  <2> QED
    BY <1>1, <1>3, <1>4, <1>6, <1>7, <1>8, <1>9, <2>1, <2>2 DEF Plain
<1>11. Built(frames', results', blocks, insert, anchored)
  BY <1>2, <1>10, BuiltPlain
<1>12. ASSUME NEW j, ThenValue(frames, j) PROVE ThenValue(frames', j)
  <2>1. PICK k \in DOMAIN frames : frames[k].stage = "else" /\ frames[k].base = j
    BY <1>12 DEF ThenValue
  <2>2. k # m
    BY <1>1, <1>3, <2>1
  <2>3. k \in DOMAIN frames' /\ frames'[k] = frames[k]
    BY <1>6, <2>2, RetopsIndices
  <2> QED
    BY <2>1, <2>3 DEF ThenValue
<1>13. ASSUME anchored PROVE Meant(frames', results', blocks, known, tokens, insert)
  <2>1. \A j \in DOMAIN results' :
          ThenValue(frames', j) \/ Available(results'[j], MadeIn(blocks, known, insert))
    BY <1>1, <1>12, <1>13, KnownResults
  <2>2. \A b \in DOMAIN blocks : frames'[m].locals \subseteq MadeIn(blocks, known, b)
    <3>1. FramesKnow(frames, results, blocks, known, insert)
      BY <1>1, <1>13, Emitting DEF Meant
    <3> QED
      BY <1>3, <1>4, <1>6, <3>1 DEF FramesKnow
  <2> QED
    BY <1>1, <1>2, <1>10, <1>13, <2>1, <2>2, Emitting, MeantPlain
<1>14. TypeOK' /\ frames' # << >>
  <2>1. frames' \in Seq(Frames) /\ frames' # << >>
    <3>1. m # 0
      BY <1>1, TopFacts
    <3> QED
      BY <1>6, <3>1, EmptySeq DEF Retops
  <2> QED
    BY <1>1, <2>1, Emitting DEF TypeOK
<1> QED
  BY <1>1, <1>9, <1>11, <1>13, <1>14, Emitting, Emits DEF run

\* A frame is left: what its node delivers is known, if its children's values are.
LEMMA LeaveStep ==
  ASSUME IInv, phase = "emit", Top.form # "function", Waiting(Top) = {},
         UNCHANGED <<phase, graph, size, anchored, tokens, run>>,
         frames' = Front(frames),
         results' \in Seq(Int), Below(Top) <= Len(results'),
         \A j \in 1 .. Below(Top) : results'[j] = results[j],
         \A j \in DOMAIN results' :
           \/ j \in DOMAIN results /\ results'[j] = results[j]
           \/ anchored => Available(results'[j], MadeIn(blocks, known, insert)),
         Top.stage # "else"
  PROVE  IInv'
<1> DEFINE m == Len(frames)
<1>1. /\ phase' = "emit"
      /\ blocks' = blocks /\ placed' = placed /\ insert' = insert /\ known' = known
      /\ size' = size /\ anchored' = anchored /\ tokens' = tokens
      /\ at' = at /\ ran' = ran /\ place' = place
  BY DEF graph, shape, run
<1>2. /\ Plain(frames, frames', m, results, results', Below(Top), blocks)
      /\ m \notin DOMAIN frames' /\ frames' # << >>
      /\ Unplaced(frames') = Unplaced(frames) /\ frames' \in Seq(Frames)
  BY PlainPop
<1>3. Built(frames', results', blocks, insert, anchored)
  BY <1>2, Emitting, BuiltPlain
<1>4. \A j : ThenValue(frames, j) => ThenValue(frames', j)
  BY PopThenValue
<1>5. ASSUME anchored PROVE Meant(frames', results', blocks, known, tokens, insert)
  <2>1. \A j \in DOMAIN results' :
          ThenValue(frames', j) \/ Available(results'[j], MadeIn(blocks, known, insert))
    BY <1>4, <1>5, KnownResults
  <2> QED
    BY <1>2, <1>5, <2>1, Emitting, MeantPlain
<1>6. TypeOK'
  BY <1>1, <1>2, Emitting DEF TypeOK
<1> QED
  BY <1>1, <1>2, <1>3, <1>5, <1>6, Emitting, Emits DEF run

\* A let delivers the value of its last child.
LEMMA CloseLetStep == ASSUME IInv, CloseLet PROVE IInv'
<1>1. /\ phase = "emit" /\ Top.form = "let" /\ Top.stage = "body" /\ Delivered >= 1
      /\ results' = Append(DropLast(results, Delivered), Last(results))
      /\ frames' = Front(frames)
      /\ UNCHANGED <<phase, graph, size, anchored, tokens, run>>
  BY DEF CloseLet
<1>2. Last(results) \in Int /\ (anchored => Available(Last(results), MadeIn(blocks, known, insert)))
  BY <1>1, LastResult
<1>3. PICK d \in Nat : d = Delivered /\ d <= Len(results) /\ Below(Top) = Len(results) - d
  <2>1. PICK l \in Nat : l = Len(results) /\ Top.base \in Nat /\ Top.base <= l /\ Delivered = l - Top.base
    BY <1>1, TopFacts
  <2>2. Below(Top) = Top.base
    BY <1>1 DEF Below
  <2> QED
    BY <2>1, <2>2
<1>4. /\ results' \in Seq(Int) /\ Len(results') = Len(results) - d + 1
      /\ \A j \in 1 .. Len(results) - d : results'[j] = results[j]
      /\ \A j \in DOMAIN results' :
           (j \in DOMAIN results /\ j <= Len(results) - d /\ results'[j] = results[j]) \/ results'[j] = Last(results)
  BY <1>1, <1>2, <1>3, ReplaceResults
<1>5. Below(Top) <= Len(results')
  <2>1. PICK l \in Nat : l = Len(results)
    BY <1>1, TopFacts
  <2> QED
    BY <1>3, <1>4, <2>1
<1>6. Waiting(Top) = {}
  BY <1>1 DEF Waiting
<1> QED
  BY <1>1, <1>2, <1>3, <1>4, <1>5, <1>6, LeaveStep

\* An instruction of a node, and its token.
LEMMA AppendStep ==
  ASSUME IInv, phase = "emit", NEW op \in {"load", "store", "call"}, NEW uses \in Uses,
         Append1(op, uses), UNCHANGED <<phase, shape, anchored, run>>, size' \in Nat,
         frames' \in Seq(Frames), frames' # << >>, results' \in Seq(Int),
         NEW t, NEW r, Plain(frames, frames', t, results, results', r, blocks),
         t \notin DOMAIN frames', Unplaced(frames') = Unplaced(frames),
         anchored => Range(uses) \subseteq MadeIn(blocks, known, insert) \union {Constant},
         anchored => \A j \in DOMAIN results' :
           \/ ThenValue(frames', j) \/ Available(results'[j], MadeIn(blocks, known, insert))
           \/ results'[j] = Fresh(1)
  PROVE  IInv'
<1> DEFINE ins == Instruction(op, Fresh(1), uses, << >>, << >>)
<1>1. /\ phase' = "emit" /\ placed' = placed /\ insert' = insert /\ known' = known
      /\ anchored' = anchored /\ at' = at /\ ran' = ran /\ place' = place
      /\ blocks' = [blocks EXCEPT ![insert] = Append(@, ins)]
      /\ tokens' = Append(tokens, Token("do", Fresh(1), 0))
  BY DEF Append1, shape, run, Do
<1>2. /\ TypeOK /\ blocks \in Blocks /\ insert \in DOMAIN blocks
      /\ Built(frames, results, blocks, insert, anchored)
  BY Emitting
<1>3. PICK id \in Nat \ {0} : id = Fresh(1)
  BY <1>2, FreshType
<1>0. ins = Instruction(op, Fresh(1), uses, << >>, << >>)
  OBVIOUS
<1> HIDE DEF ins
<1>4. /\ ins \in Instructions /\ ins.op = op /\ ins.id = Fresh(1) /\ ins.uses = uses
      /\ ins.to = << >> /\ ins.place = Len(tokens) + 1 /\ ins.place \notin DOMAIN tokens
  <2>1. op \in Ops /\ BlockList(<< >>)
    BY DEF Ops, BlockList
  <2>2. ins = Instruction(op, id, uses, << >>, << >>)
    BY <1>0, <1>3
  <2>3. /\ ins \in Instructions /\ ins.op = op /\ ins.id = id /\ ins.uses = uses
        /\ ins.to = << >> /\ ins.place = Len(tokens) + 1 /\ ins.place \notin DOMAIN tokens
    BY <1>2, <2>1, <2>2, InstructionFacts
  <2> QED
    BY <1>3, <2>3
<1>5. Grows(blocks, blocks', insert, ins, 0)
  BY <1>1, <1>2, <1>4, AppendGrows
<1>6. Range(ins.to) = {} /\ Len(ins.to) = 0
  BY <1>4 DEF Range
<1>7. Built(frames', results', blocks', insert, anchored)
  BY <1>2, <1>4, <1>5, <1>6, BuiltAppend
<1>8. /\ tokens' \in Seq(Tokens) /\ Len(tokens') = Len(tokens) + 1 /\ SaysMore(tokens, tokens')
      /\ tokens'[Len(tokens')] = Token("do", Fresh(1), 0) /\ Len(tokens) + 1 \in DOMAIN tokens'
      /\ \A x \in DOMAIN tokens : tokens'[x] = tokens[x]
  <2> DEFINE token == Token("do", Fresh(1), 0)
  <2>1. token \in Tokens
    BY <1>3 DEF Token, Tokens
  <2>2. tokens' = Append(tokens, token)
    BY <1>1
  <2> HIDE DEF token
  <2>3. /\ tokens' \in Seq(Tokens) /\ Len(tokens') = Len(tokens) + 1 /\ SaysMore(tokens, tokens')
        /\ tokens'[Len(tokens')] = token /\ Len(tokens) + 1 \in DOMAIN tokens'
    BY <1>2, <2>1, <2>2, TokenFacts
  <2>4. \A x \in DOMAIN tokens : tokens'[x] = tokens[x]
    BY <1>2, <2>1, <2>2, TokenFacts
  <2> QED
    BY <2>3, <2>4 DEF token
<1>9. Said(ins, tokens')
  <2>1. tokens'[ins.place].id = ins.id /\ tokens'[ins.place].kind = "do"
    BY <1>4, <1>8 DEF Token
  <2> QED
    BY <1>4, <1>8, <2>1 DEF Said
<1>10. ASSUME anchored PROVE Meant(frames', results', blocks', known, tokens', insert)
  <2>1. Extends(blocks, known, known)
    BY DEF Extends
  <2>2. ins.op \notin Terminators
    BY <1>4 DEF Terminators
  <2>3. /\ MadeIn(blocks, known, insert) \subseteq MadeIn(blocks', known, insert)
        /\ ins.id \in MadeIn(blocks', known, insert)
    BY <1>2, <1>5, <2>1, <2>2, MadeGrows
  <2>4. \A j \in DOMAIN results' :
          ThenValue(frames', j) \/ Available(results'[j], MadeIn(blocks', known, insert))
    BY <1>4, <1>10, <2>3 DEF Available
  <2>5. Range(ins.uses) \subseteq MadeIn(blocks, known, insert) \union {Constant}
    BY <1>4, <1>10
  <2>6. Meant(frames, results, blocks, known, tokens, insert)
    BY <1>10, Emitting
  <2>7. ins.op \in {"load", "store", "call"} /\ ins.place = Len(tokens) + 1 /\ ins.place \notin DOMAIN tokens
    BY <1>4
  <2>8. /\ Len(tokens') = Len(tokens) + 1 /\ SaysMore(tokens, tokens')
        /\ \A x \in DOMAIN tokens : tokens'[x] = tokens[x]
    BY <1>8
  <2>9. t \in DOMAIN frames' => \A b \in DOMAIN blocks' : frames'[t].locals \subseteq MadeIn(blocks', known, b)
    OBVIOUS
  <2>10. Built(frames, results, blocks, insert, anchored)
    BY <1>2
  <2> QED
    BY <1>5, <1>6, <1>9, <2>4, <2>5, <2>6, <2>7, <2>8, <2>9, <2>10, MeantAppend
<1>11. TypeOK'
  <2>1. blocks' \in Blocks /\ insert \in DOMAIN blocks' /\ Len(blocks') = Len(blocks)
    <3>1. blocks' \in Blocks
      BY <1>5 DEF Grows
    <3>2. insert \in DOMAIN blocks'
      BY <1>2, <1>5, GrowsFacts
    <3>3. Len(blocks') = Len(blocks)
      BY <1>1
    <3> QED
      BY <3>1, <3>2, <3>3
  <2> QED
    BY <1>1, <1>2, <1>8, <2>1 DEF TypeOK
<1>12. DOMAIN blocks' = DOMAIN blocks
  BY <1>1
<1> QED
  BY <1>1, <1>7, <1>10, <1>11, <1>12, Emitting, Emits DEF run

\* A local is loaded: its place is known wherever the builder is.
LEMMA EmitLoadStep ==
  ASSUME IInv, NEW local, EmitLoad(local)
  PROVE  IInv'
<1>1. /\ phase = "emit" /\ Append1("load", <<local>>) /\ results' = Append(results, Fresh(1))
      /\ UNCHANGED <<phase, shape, frames, anchored, run>> /\ size' = size + 1
  BY DEF EmitLoad, WantsChild, Count
<1>2. PICK k \in DOMAIN frames : local \in frames[k].locals
  BY DEF EmitLoad
<1>3. frames \in Seq(Frames) /\ frames # << >> /\ TypeOK
  BY <1>1, Emitting
<1>4. local \in Nat /\ local \in Int
  <2>1. frames[k] \in Frames
    BY <1>3, FrameFacts
  <2>2. local \in Nat
    BY <1>2, <2>1 DEF Frames
  <2> QED
    BY <2>2
<1>5. <<local>> \in Uses /\ Range(<<local>>) = {local}
  BY <1>4, UsesType
<1>6. anchored => Range(<<local>>) \subseteq MadeIn(blocks, known, insert) \union {Constant}
  <2>1. SUFFICES ASSUME anchored PROVE local \in MadeIn(blocks, known, insert)
    BY <1>5
  <2>2. FramesKnow(frames, results, blocks, known, insert) /\ insert \in DOMAIN blocks
    BY <1>1, <2>1, Emitting DEF Meant
  <2> QED
    BY <1>2, <2>2 DEF FramesKnow
<1>7. Fresh(1) \in Int
  BY <1>3, FreshType
<1>8. /\ results' \in Seq(Int) /\ Len(results') = Len(results) + 1
      /\ \A j \in 1 .. Len(results) : results'[j] = results[j]
      /\ \A j \in DOMAIN results' : (j \in DOMAIN results /\ results'[j] = results[j]) \/ results'[j] = Fresh(1)
  BY <1>1, <1>7, AppendResult
<1>9. /\ Plain(frames, frames', Len(frames) + 1, results, results', Len(results), blocks)
      /\ Len(frames) + 1 \notin DOMAIN frames'
  <2>1. PICK l \in Nat : l = Len(results) /\ Top.base <= l
    BY <1>1, TopFacts
  <2>2. l <= Len(results) /\ l <= Len(results')
    BY <1>8, <2>1
  <2> QED
    BY <1>1, <1>8, <2>1, <2>2, PlainDeliver
<1>10. anchored => \A j \in DOMAIN results' :
         \/ ThenValue(frames', j) \/ Available(results'[j], MadeIn(blocks, known, insert))
         \/ results'[j] = Fresh(1)
  BY <1>1, <1>8, KnownResults
<1>11. size' \in Nat /\ frames' = frames
  BY <1>1, <1>3 DEF TypeOK
<1> QED
  BY <1>1, <1>3, <1>5, <1>6, <1>8, <1>9, <1>10, <1>11, AppendStep

\* A call uses the values its arguments have delivered.
LEMMA CloseCallStep ==
  ASSUME IInv, NEW valued \in BOOLEAN, CloseCall(valued)
  PROVE  IInv'
<1> DEFINE given == {j \in Top.base + 1 .. Len(results) : results[j] # NoValue}
           uses == [k \in given |-> results[k]]
           v == IF valued THEN Fresh(1) ELSE NoValue
<1>1. /\ phase = "emit" /\ Top.form = "call" /\ Append1("call", uses)
      /\ results' = Append(DropLast(results, Delivered), v)
      /\ frames' = Front(frames)
      /\ UNCHANGED <<phase, shape, size, anchored, run>>
  BY DEF CloseCall
<1>2. TypeOK /\ results \in Seq(Int) /\ FormOK(Top) /\ Top.base \in Nat
  BY <1>1, Emitting, TopFacts
<1>3. PICK l \in Nat : l = Len(results) /\ DOMAIN results = 1 .. l /\ Top.base <= l /\ Delivered = l - Top.base
  BY <1>1, TopFacts
<1>4. Top.stage = "body" \/ Top.stage = "bind" \/ Top.stage = "cond"
  BY <1>1, <1>2 DEF FormOK
<1>5. Below(Top) = Top.base /\ Waiting(Top) = {}
  BY <1>1, <1>4 DEF Below, Waiting
<1>6. \A j \in given : j \in DOMAIN results /\ j > Top.base /\ results[j] \in Int /\ j \in Nat
  <2>1. \A j \in Top.base + 1 .. l : j \in 1 .. l /\ j > Top.base /\ j \in Nat
    BY <1>2, <1>3
  <2> QED
    BY <1>2, <1>3, <2>1
<1>7. uses \in Uses
  <2>1. given \in SUBSET Nat
    BY <1>6
  <2>2. uses \in [given -> Int]
    BY <1>6
  <2> QED
    BY <2>1, <2>2 DEF Uses
<1>8. anchored => Range(uses) \subseteq MadeIn(blocks, known, insert) \union {Constant}
  <2>1. SUFFICES ASSUME anchored, NEW j \in given
                 PROVE  results[j] \in MadeIn(blocks, known, insert) \union {Constant}
    BY DEF Range
  <2>2. Available(results[j], MadeIn(blocks, known, insert))
    BY <1>1, <1>6, <2>1, KnownResults
  <2> QED
    BY <2>2 DEF Available
<1> HIDE DEF given, uses
<1>9. v \in Int
  <2>1. Fresh(1) \in Int
    BY <1>2, FreshType
  <2> QED
    BY <2>1 DEF NoValue
<1>10. v = Fresh(1) \/ v = NoValue
  OBVIOUS
<1> HIDE DEF v
<1>11. PICK d \in Nat : d = Delivered /\ d <= Len(results) /\ Below(Top) = Len(results) - d
  BY <1>2, <1>3, <1>5
<1>12. /\ results' \in Seq(Int) /\ Len(results') = Len(results) - d + 1
       /\ \A j \in 1 .. Len(results) - d : results'[j] = results[j]
       /\ \A j \in DOMAIN results' :
            (j \in DOMAIN results /\ j <= Len(results) - d /\ results'[j] = results[j]) \/ results'[j] = v
  BY <1>1, <1>9, <1>11, ReplaceResults
<1>13. Below(Top) <= Len(results')
  BY <1>3, <1>11, <1>12
<1>14. /\ Plain(frames, frames', Len(frames), results, results', Below(Top), blocks)
       /\ Len(frames) \notin DOMAIN frames' /\ frames' # << >>
       /\ Unplaced(frames') = Unplaced(frames) /\ frames' \in Seq(Frames)
  BY <1>1, <1>5, <1>11, <1>12, <1>13, PlainPop
<1>15. \A j : ThenValue(frames, j) => ThenValue(frames', j)
  BY <1>1, <1>4, PopThenValue
<1>16. anchored => \A j \in DOMAIN results' :
         \/ ThenValue(frames', j) \/ Available(results'[j], MadeIn(blocks, known, insert))
         \/ results'[j] = Fresh(1)
  BY <1>1, <1>10, <1>12, <1>15, KnownResults DEF Available
<1>17. size' \in Nat
  BY <1>1, <1>2 DEF TypeOK
<1> QED
  BY <1>1, <1>7, <1>8, <1>12, <1>14, <1>16, <1>17, AppendStep

\* A set stores the value of its child, or nothing when there is no place for it.
LEMMA CloseSetStep ==
  ASSUME IInv,
         NEW target, target = ModuleVariable \/ \E k \in DOMAIN frames : target \in frames[k].locals,
         CloseSet(target)
  PROVE  IInv'
<1>1. /\ phase = "emit" /\ Top.form = "set" /\ Delivered = 1 /\ results' = results
      /\ frames' = Front(frames)
      /\ UNCHANGED <<phase, shape, size, anchored, run>>
  BY DEF CloseSet
<1>2. TypeOK /\ results \in Seq(Int) /\ frames \in Seq(Frames) /\ FormOK(Top) /\ Top.base \in Nat
  BY <1>1, Emitting, TopFacts
<1>3. Top.stage = "body" \/ Top.stage = "bind" \/ Top.stage = "cond"
  BY <1>1, <1>2 DEF FormOK
<1>4. Waiting(Top) = {} /\ Below(Top) <= Len(results)
  BY <1>1, <1>3, TopFacts DEF Waiting
<1>5. /\ Last(results) \in Int
      /\ anchored => Available(Last(results), MadeIn(blocks, known, insert))
  BY <1>1, LastResult
<1>6. CASE Last(results) = NoValue \/ target = ModuleVariable
  <2>1. UNCHANGED <<phase, graph, size, anchored, tokens, run>>
    BY <1>1, <1>6 DEF CloseSet, graph
  <2> QED
    BY <1>1, <1>2, <1>3, <1>4, <2>1, LeaveStep
<1>7. CASE Last(results) # NoValue /\ target # ModuleVariable
  <2>1. Append1("store", <<Last(results), target>>)
    BY <1>7 DEF CloseSet
  <2>2. PICK k \in DOMAIN frames : target \in frames[k].locals
    BY <1>7
  <2>3. target \in Nat /\ target \in Int
    <3>1. frames[k] \in Frames
      BY <1>2, FrameFacts
    <3>2. target \in Nat
      BY <2>2, <3>1 DEF Frames
    <3> QED
      BY <3>2
  <2>4. /\ <<Last(results), target>> \in Uses
        /\ Range(<<Last(results), target>>) = {Last(results), target}
    BY <1>5, <2>3, UsesType
  <2>5. anchored => Range(<<Last(results), target>>) \subseteq MadeIn(blocks, known, insert) \union {Constant}
    <3>1. SUFFICES ASSUME anchored
                   PROVE  {Last(results), target} \subseteq MadeIn(blocks, known, insert) \union {Constant}
      BY <2>4
    <3>2. FramesKnow(frames, results, blocks, known, insert) /\ insert \in DOMAIN blocks
      BY <1>1, <3>1, Emitting DEF Meant
    <3>3. target \in MadeIn(blocks, known, insert)
      BY <2>2, <3>2 DEF FramesKnow
    <3> QED
      BY <1>5, <1>7, <3>1, <3>3 DEF Available
  <2>6. /\ Plain(frames, frames', Len(frames), results, results', Below(Top), blocks)
        /\ Len(frames) \notin DOMAIN frames' /\ frames' # << >>
        /\ Unplaced(frames') = Unplaced(frames) /\ frames' \in Seq(Frames)
    BY <1>1, <1>2, <1>4, PlainPop
  <2>7. \A j : ThenValue(frames, j) => ThenValue(frames', j)
    BY <1>1, <1>3, PopThenValue
  <2>8. anchored => \A j \in DOMAIN results' :
         \/ ThenValue(frames', j) \/ Available(results'[j], MadeIn(blocks, known, insert))
         \/ results'[j] = Fresh(1)
    BY <1>1, <2>7, KnownResults
  <2>9. size' \in Nat /\ results' \in Seq(Int)
    BY <1>1, <1>2 DEF TypeOK
  <2> QED
    BY <1>1, <2>1, <2>4, <2>5, <2>6, <2>8, <2>9, AppendStep
<1> QED
  BY <1>6, <1>7

\* t is s, of length n, with e before its k-th element.
InsertedAt(s, t, k, e, n) ==
  /\ t \in Seq(Instructions) /\ Len(t) = n + 1 /\ t[k] = e
  /\ \A i \in 1 .. k - 1 : t[i] = s[i]
  /\ \A i \in k .. n : t[i + 1] = s[i]

\* InsertAt moves what follows by one, and nothing else.
LEMMA InsertAtFacts ==
  ASSUME NEW s \in Seq(Instructions), NEW n \in Nat, n = Len(s), NEW k \in 1 .. n,
         NEW e \in Instructions
  PROVE  InsertedAt(s, InsertAt(s, k, e), k, e, n)
<1> DEFINE a == SubSeq(s, 1, k - 1)
           b == SubSeq(s, k, n)
<1>1. a \in Seq(Instructions) /\ Len(a) = k - 1 /\ \A i \in 1 .. k - 1 : a[i] = s[i]
  BY PrefixFacts
<1>2. b \in Seq(Instructions) /\ Len(b) = n - k + 1 /\ \A i \in 1 .. n - k + 1 : b[i] = s[k + i - 1]
  BY SubSeqProperties
<1>3. <<e>> \in Seq(Instructions) /\ Len(<<e>>) = 1 /\ <<e>>[1] = e
  OBVIOUS
<1>4. InsertAt(s, k, e) = a \o <<e>> \o b
  BY DEF InsertAt
<1> DEFINE c == a \o <<e>>
           d == c \o b
<1> HIDE DEF a, b
<1>5. /\ c \in Seq(Instructions) /\ Len(c) = k
      /\ \A i \in 1 .. k : c[i] = IF i <= k - 1 THEN a[i] ELSE <<e>>[i - (k - 1)]
  BY <1>1, <1>3, ConcatProperties
<1>6. c[k] = e /\ \A i \in 1 .. k - 1 : c[i] = s[i]
  <2>1. k - (k - 1) = 1 /\ k \in 1 .. k /\ ~ (k <= k - 1)
    OBVIOUS
  <2>2. c[k] = e
    BY <1>3, <1>5, <2>1
  <2>3. \A i \in 1 .. k - 1 : i \in 1 .. k /\ i <= k - 1
    OBVIOUS
  <2> QED
    BY <1>1, <1>5, <2>2, <2>3
<1> HIDE DEF c
<1>7. /\ d \in Seq(Instructions) /\ Len(d) = n + 1
      /\ \A i \in 1 .. n + 1 : d[i] = IF i <= k THEN c[i] ELSE b[i - k]
  <2>1. /\ d \in Seq(Instructions) /\ Len(d) = Len(c) + Len(b)
        /\ \A i \in 1 .. Len(c) + Len(b) : d[i] = IF i <= Len(c) THEN c[i] ELSE b[i - Len(c)]
    BY <1>2, <1>5, ConcatProperties
  <2>2. Len(c) = k /\ Len(c) + Len(b) = n + 1
    BY <1>2, <1>5
  <2> QED
    BY <2>1, <2>2
<1> HIDE DEF d
<1>8. \A i \in 1 .. k : i \in 1 .. n + 1 /\ i <= k
  OBVIOUS
<1>9. k \in 1 .. k /\ \A i \in 1 .. k - 1 : i \in 1 .. k
  OBVIOUS
<1>10. d[k] = e /\ \A i \in 1 .. k - 1 : d[i] = s[i]
  BY <1>6, <1>7, <1>8, <1>9
<1>11. ASSUME NEW i \in k .. n
       PROVE  d[i + 1] = s[i]
  <2>1. i + 1 \in 1 .. n + 1 /\ ~ (i + 1 <= k) /\ (i + 1) - k \in 1 .. n - k + 1 /\ k + ((i + 1) - k) - 1 = i
    OBVIOUS
  <2>2. d[i + 1] = b[(i + 1) - k]
    BY <1>7, <2>1
  <2>3. b[(i + 1) - k] = s[k + ((i + 1) - k) - 1]
    BY <1>2, <2>1
  <2> QED
    BY <2>1, <2>2, <2>3
<1>12. InsertAt(s, k, e) = d
  BY <1>4 DEF d, c
<1>13. InsertedAt(s, d, k, e, n)
  BY <1>7, <1>10, <1>11 DEF InsertedAt
<1> QED
  BY <1>12, <1>13

\* The graph with an alloca made at an anchor.
Allocates(C, anchor, id) ==
  C = [blocks EXCEPT ![Entry] = InsertAlloca(blocks[Entry], anchor, id)]
AnchorOK(anchor) ==
  anchor = AtEnd \/ \E i \in DOMAIN blocks[Entry] : blocks[Entry][i].id = anchor

\* An alloca is put in the entry block, before the instruction the builder was made at, or
\* at its end.
LEMMA InsertsAlloca ==
  ASSUME TypeOK, NEW anchor \in Nat, AnchorOK(anchor), NEW id \in Nat \ {0},
         NEW graph1, Allocates(graph1, anchor, id)
  PROVE  \E k, ins :
           /\ Inserts(blocks, graph1, k, ins)
           /\ ins.id = id
           /\ IF anchor = AtEnd
              THEN k \notin DOMAIN blocks[Entry] /\ ins.place = Len(tokens) + 1
              ELSE k \in DOMAIN blocks[Entry] /\ ins.place = blocks[Entry][k].place
<1> DEFINE entry == blocks[Entry]
           alloca == Instruction("alloca", id, << >>, << >>, << >>)
           block == InsertAlloca(entry, anchor, id)
           C == [blocks EXCEPT ![Entry] = block]
<1>1. /\ blocks \in Blocks /\ Entry \in DOMAIN blocks /\ entry \in Seq(Instructions)
      /\ \A i \in DOMAIN entry : entry[i] \in Instructions
  <2>1. blocks \in Blocks /\ insert \in DOMAIN blocks
    BY DEF TypeOK
  <2> QED
    BY <2>1, BlockFacts DEF Entry
<1>2. PICK n \in Nat : n = Len(entry) /\ DOMAIN entry = 1 .. n
  BY <1>1, BlockFacts
<1>3. /\ alloca \in Instructions /\ alloca.op = "alloca" /\ alloca.id = id /\ alloca.uses = << >>
      /\ alloca.to = << >> /\ alloca.place = Len(tokens) + 1
  <2>0. << >> \in Uses /\ BlockList(<< >>) /\ "alloca" \in Ops
    BY NoUses DEF BlockList, Ops
  <2> DEFINE ins == alloca
  <2>1. ins = Instruction("alloca", id, << >>, << >>, << >>)
    OBVIOUS
  <2> HIDE DEF ins
  <2>2. /\ ins \in Instructions /\ ins.op = "alloca" /\ ins.id = id /\ ins.uses = << >>
        /\ ins.to = << >> /\ ins.place = Len(tokens) + 1
    <3> DEFINE op == "alloca"
    <3>1. op \in Ops /\ ins = Instruction(op, id, << >>, << >>, << >>)
      BY <2>0, <2>1
    <3> HIDE DEF op
    <3>2. /\ ins \in Instructions /\ ins.op = op /\ ins.id = id /\ ins.uses = << >>
          /\ ins.to = << >> /\ ins.place = Len(tokens) + 1
      BY <2>0, <3>1, InstructionFacts
    <3> QED
      BY <3>2 DEF op
  <2> QED
    BY <2>2 DEF ins
<1>4. Range(<< >>) = {} /\ Len(<< >>) = 0
  BY DEF Range
<1>5. PICK k, ins :
        /\ ins \in Instructions /\ ins.op = "alloca" /\ ins.id = id /\ ins.uses = << >> /\ ins.to = << >>
        /\ k \in 1 .. n + 1
        /\ block \in Seq(Instructions) /\ Len(block) = n + 1 /\ block[k] = ins
        /\ \A i \in 1 .. k - 1 : block[i] = entry[i]
        /\ \A i \in k .. n : block[i + 1] = entry[i]
        /\ IF anchor = AtEnd THEN k = n + 1 /\ ins.place = Len(tokens) + 1
                             ELSE k \in 1 .. n /\ ins.place = entry[k].place
  <2> HIDE DEF alloca, entry
  <2>1. CASE anchor = AtEnd
    <3>1. block = Append(entry, alloca)
      BY <2>1 DEF InsertAlloca, alloca
    <3>2. /\ block \in Seq(Instructions) /\ Len(block) = n + 1 /\ block[n + 1] = alloca
          /\ \A i \in 1 .. n : block[i] = entry[i]
      BY <1>1, <1>2, <1>3, <3>1, AppendProperties
    <3>3. n + 1 \in 1 .. n + 1 /\ (\A i \in 1 .. n + 1 - 1 : i \in 1 .. n) /\ (\A i \in n + 1 .. n : FALSE)
      OBVIOUS
    <3> HIDE DEF block
    <3> QED
      BY <1>3, <2>1, <3>2, <3>3
  <2>2. CASE anchor # AtEnd
    <3> DEFINE first == CHOOSE i \in DOMAIN entry : entry[i].id = anchor
    <3>0. first \in DOMAIN entry
      BY <2>2 DEF entry, AnchorOK
    <3>1. PICK k \in 1 .. n : k = first /\ k \in DOMAIN entry
      BY <1>2, <3>0
    <3> DEFINE ins == [alloca EXCEPT !.place = entry[k].place]
    <3>2. block = InsertAt(entry, k, ins)
      BY <2>2, <3>1 DEF InsertAlloca, alloca
    <3>3. /\ ins \in Instructions /\ ins.op = "alloca" /\ ins.id = id /\ ins.uses = << >>
          /\ ins.to = << >> /\ ins.place = entry[k].place
      BY <1>1, <1>3, <3>1 DEF Instructions
    <3>4. k \in 1 .. n
      BY <1>2, <3>1
    <3> HIDE DEF first, ins
    <3>5. /\ block \in Seq(Instructions) /\ Len(block) = n + 1 /\ block[k] = ins
          /\ \A i \in 1 .. k - 1 : block[i] = entry[i]
          /\ \A i \in k .. n : block[i + 1] = entry[i]
      <4>1. entry \in Seq(Instructions) /\ n = Len(entry) /\ ins \in Instructions
        BY <1>1, <1>2, <3>3 DEF entry
      <4>2. InsertedAt(entry, InsertAt(entry, k, ins), k, ins, n)
        BY <3>4, <4>1, InsertAtFacts
      <4>3. InsertedAt(entry, block, k, ins, n)
        BY <3>2, <4>2
      <4> QED
        BY <4>3 DEF InsertedAt
    <3>6. k \in 1 .. n + 1
      BY <3>4
    <3> HIDE DEF block
    <3> QED
      BY <2>2, <3>3, <3>4, <3>5, <3>6
  <2> QED
    BY <2>1, <2>2
<1> HIDE DEF block
<1>6. C[Entry] = block /\ Len(C) = Len(blocks) /\ \A b \in DOMAIN blocks : b # Entry => C[b] = blocks[b]
  BY <1>1
<1>7. C \in Blocks
  BY <1>1, <1>5 DEF Blocks
<1> HIDE DEF C
<1>8. Inserts(blocks, C, k, ins)
  BY <1>1, <1>2, <1>4, <1>5, <1>6, <1>7 DEF Inserts
<1>9. n + 1 \notin 1 .. n
  OBVIOUS
<1>10. /\ ins.id = id
       /\ IF anchor = AtEnd
          THEN k \notin DOMAIN blocks[Entry] /\ ins.place = Len(tokens) + 1
          ELSE k \in DOMAIN blocks[Entry] /\ ins.place = blocks[Entry][k].place
  BY <1>2, <1>5, <1>9
<1>11. graph1 = C
  BY DEF Allocates, C, block
<1> QED
  BY <1>8, <1>10, <1>11

\* The frames with other locals in the top one.
Relocals(G, locals) == G = [frames EXCEPT ![Len(frames)] = [Top EXCEPT !.locals = locals]]

\* The top frame has another local, and its child's value is gone.
LEMMA PlainBind ==
  ASSUME IInv, phase = "emit", Top.stage = "bind", Delivered = 1,
         NEW locals \in SUBSET Nat, NEW G, Relocals(G, locals), NEW C, Wider(blocks, C)
  PROVE  /\ Plain(frames, G, Len(frames), results, Front(results), Below(Top), C)
         /\ Unplaced(G) = Unplaced(frames) /\ G \in Seq(Frames) /\ G # << >>
         /\ Len(frames) \in DOMAIN G /\ G[Len(frames)].locals = locals
         /\ \A j : ThenValue(frames, j) => ThenValue(G, j)
<1> DEFINE g == [Top EXCEPT !.locals = locals]
           m == Len(frames)
           S == Front(results)
<1>1. /\ frames \in Seq(Frames) /\ frames # << >> /\ results \in Seq(Int) /\ blocks \in Blocks
      /\ FramesNest(frames, results, blocks)
  BY Emitting
<1>2. /\ Top = frames[m] /\ Top \in Frames /\ m \in DOMAIN frames /\ FrameOK(Top, results, blocks)
      /\ Below(Top) \in Nat /\ Below(Top) <= Len(results) /\ (Top.form = "function" <=> m = 1)
      /\ FormOK(Top) /\ Top.base \in Nat /\ Delivered = Len(results) - Top.base
  BY TopFacts
<1>3. /\ g \in Frames /\ g.form = Top.form /\ g.stage = "bind" /\ g.base = Top.base
      /\ g.anchor = Top.anchor /\ g.locals = locals /\ g.blocks = Top.blocks
  BY <1>2 DEF Frames
<1>4. G = [frames EXCEPT ![m] = g]
  BY DEF Relocals
<1>5. /\ S \in Seq(Int) /\ Len(S) = Len(results) - 1 /\ Len(results) \in Nat
      /\ \A j \in 1 .. Len(results) - 1 : S[j] = results[j]
  BY LastResult, TopFacts
<1>6. Below(Top) = Top.base /\ Below(g) = Top.base /\ Top.base = Len(results) - 1
  <2>1. Below(Top) = Top.base /\ Below(g) = Top.base
    BY <1>3 DEF Below
  <2>2. PICK l \in Nat : l = Len(results) /\ Delivered = l - Top.base
    BY <1>2, <1>5
  <2>3. Top.base = l - 1
    BY <1>2, <2>2
  <2> QED
    BY <2>1, <2>2, <2>3
<1> HIDE DEF g, S
<1>7. Retops(frames, G) /\ Len(G) = Len(frames) /\ G[m] = g
  BY <1>1, <1>3, <1>4, TopRetops
<1>8. ~ HasBlocks(g) /\ ~ HasBlocks(Top) /\ Top.form # "if"
  BY <1>2, <1>3 DEF HasBlocks, Looping, FormOK
<1>9. /\ Keeps(frames, G, m, results, S, Below(Top))
      /\ \A j \in 1 .. Below(Top) : ThenValue(frames, j) => ThenValue(G, j)
      /\ \A k \in DOMAIN G : k # m => G[k].base <= Below(Top)
  <2>1. PICK r \in Nat : r = Below(Top) /\ r <= Len(results) /\ r <= Len(S) /\ r = Len(results) - 1
    BY <1>2, <1>5, <1>6
  <2>2. \A j \in 1 .. r : S[j] = results[j]
    BY <1>5, <2>1
  <2> QED
    BY <1>1, <1>2, <1>5, <1>7, <2>1, <2>2, RetopsKeeps
<1>10. Pending(G) = Pending(frames) /\ Unplaced(G) = Unplaced(frames)
  <2>1. Waiting(g) = {} /\ Waiting(frames[m]) = {} /\ Waiting(G[m]) = {}
    BY <1>2, <1>7, <1>8, NoBlocks
  <2>2. /\ Pending(G) = (Pending(frames) \ Waiting(frames[m]))
                           \union (IF Len(G) = m THEN Waiting(G[m]) ELSE {})
        /\ Unplaced(G) = (Unplaced(frames) \ (IF frames[m].form = "if" THEN Waiting(frames[m]) ELSE {}))
                           \union (IF Len(G) = m /\ G[m].form = "if" THEN Waiting(G[m]) ELSE {})
    BY <1>1, <1>7, RetopsPending
  <2> QED
    BY <2>1, <2>2
<1>11. FrameOK(g, S, C)
  <2>1. Top.base <= Len(S)
    BY <1>5, <1>6
  <2>2. FrameOK(Top, S, C)
    BY <1>2, <2>1, FrameKept
  <2> QED
    BY <1>2, <1>3, <1>8, <2>2 DEF FrameOK, FormOK
<1>12. Plain(frames, G, m, results, S, Below(Top), C)
  <2>1. G[m].form = "function" <=> m = 1
    BY <1>2, <1>3, <1>7
  <2>2. \A k \in DOMAIN G : k # m => G[k].base <= Below(G[m])
    BY <1>6, <1>7, <1>9
  <2> QED
    BY <1>7, <1>8, <1>9, <1>10, <1>11, <2>1, <2>2 DEF Plain
<1>13. ASSUME NEW j, ThenValue(frames, j) PROVE ThenValue(G, j)
  <2>1. PICK k \in DOMAIN frames : frames[k].stage = "else" /\ frames[k].base = j
    BY <1>13 DEF ThenValue
  <2>2. k # m
    BY <1>2, <2>1
  <2>3. k \in DOMAIN G /\ G[k] = frames[k]
    BY <1>7, <2>2, RetopsIndices
  <2> QED
    BY <2>1, <2>3 DEF ThenValue
<1>14. /\ m \in DOMAIN G /\ G \in Seq(Frames) /\ G # << >> /\ G[m].locals = locals
  <2>1. m \in DOMAIN G
    BY <1>7, RetopsIndices
  <2> QED
    BY <1>3, <1>7, <2>1 DEF Retops
<1> QED
  BY <1>10, <1>12, <1>13, <1>14 DEF S

\* A void child leaves nothing.
LEMMA BindVoid ==
  ASSUME IInv, phase = "emit", Delivered = 1,
         results' = Front(results), size' \in Nat,
         UNCHANGED <<phase, graph, tokens, frames, anchored, run>>
  PROVE  IInv'
<1>1. /\ phase' = "emit" /\ blocks' = blocks /\ placed' = placed /\ insert' = insert /\ known' = known
      /\ frames' = frames /\ anchored' = anchored /\ tokens' = tokens
      /\ at' = at /\ ran' = ran /\ place' = place
  BY DEF graph, shape, run
<1>2. /\ frames \in Seq(Frames) /\ frames # << >> /\ results \in Seq(Int) /\ blocks \in Blocks
      /\ insert \in DOMAIN blocks /\ TypeOK
      /\ Built(frames, results, blocks, insert, anchored)
  BY Emitting
<1>3. /\ results' \in Seq(Int) /\ Len(results') = Len(results) - 1
      /\ \A j \in 1 .. Len(results) - 1 : results'[j] = results[j]
  BY LastResult
<1>4. PICK l \in Nat : l = Len(results) /\ Top.base = l - 1 /\ DOMAIN results = 1 .. l /\ Top.base \in Nat
  <2>1. PICK l \in Nat : l = Len(results)
    BY TopFacts
  <2>2. DOMAIN results = 1 .. l /\ Top.base \in Nat /\ Delivered = l - Top.base
    BY <2>1, TopFacts
  <2>3. Top.base = l - 1
    BY <2>2
  <2> QED
    BY <2>1, <2>2, <2>3
<1>5. /\ Plain(frames, frames, Len(frames) + 1, results, results', l - 1, blocks)
      /\ Len(frames) + 1 \notin DOMAIN frames
  <2>1. l - 1 \in Nat /\ Top.base <= l - 1 /\ l - 1 <= Len(results) /\ l - 1 <= Len(results')
    BY <1>3, <1>4
  <2>2. \A j \in 1 .. l - 1 : results'[j] = results[j]
    BY <1>3, <1>4
  <2> QED
    BY <1>3, <2>1, <2>2, PlainDeliver
<1>6. Built(frames', results', blocks', insert', anchored')
  BY <1>1, <1>2, <1>5, BuiltPlain
<1>7. ASSUME anchored PROVE Meant(frames, results', blocks, known, tokens, insert)
  <2>1. DOMAIN results' = 1 .. l - 1
    BY <1>3, <1>4
  <2>2. \A j \in DOMAIN results' : j \in DOMAIN results /\ results'[j] = results[j]
    BY <1>3, <1>4, <2>1
  <2>3. \A j \in DOMAIN results' :
          ThenValue(frames, j) \/ Available(results'[j], MadeIn(blocks, known, insert))
    BY <1>7, <2>2, KnownResults
  <2>4. Len(frames) + 1 \in DOMAIN frames =>
          \A b \in DOMAIN blocks : frames[Len(frames) + 1].locals \subseteq MadeIn(blocks, known, b)
    BY <1>5
  <2>5. Meant(frames, results, blocks, known, tokens, insert)
    BY <1>7, Emitting
  <2> QED
    BY <1>2, <1>5, <2>3, <2>4, <2>5, MeantPlain
<1>8. TypeOK'
  BY <1>1, <1>2, <1>3 DEF TypeOK
<1> QED
  BY <1>1, <1>2, <1>6, <1>7, <1>8, Emitting, Emits DEF run

\* What Bind does with a value, C being the graph with the alloca.
Binds(C, store) ==
  /\ results' = Front(results)
  /\ store = Instruction("store", Fresh(2), <<Last(results), Fresh(1)>>, << >>, << >>)
  /\ Allocates(C, Top.anchor, Fresh(1))
  /\ blocks' = [C EXCEPT ![insert] = Append(@, store)]
  /\ known' = [b \in DOMAIN known |->
                 IF b = Entry THEN known[b] ELSE known[b] \union {Fresh(1)}]
  /\ tokens' = Append(tokens, Do(Fresh(2)))
  /\ Relocals(frames', Top.locals \union {Fresh(1)})
  /\ anchored' = (anchored /\ (Top.anchor = AtEnd => insert = Entry))

\* A value goes to a place of its own, in the entry block.
LEMMA BindValue ==
  ASSUME IInv, phase = "emit", Top.stage = "bind", Delivered = 1, Last(results) # NoValue,
         size' \in Nat, NEW store, NEW C, Binds(C, store),
         UNCHANGED <<phase, placed, insert, run>>
  PROVE  IInv'
<1> DEFINE m == Len(frames)
           locals == Top.locals \union {Fresh(1)}
<1>1. /\ phase' = "emit" /\ placed' = placed /\ insert' = insert
      /\ at' = at /\ ran' = ran /\ place' = place
  BY DEF run
<1>0. /\ results' = Front(results) /\ Relocals(frames', locals)
      /\ anchored' = (anchored /\ (Top.anchor = AtEnd => insert = Entry))
  BY DEF Binds
<1>2. /\ TypeOK /\ blocks \in Blocks /\ insert \in DOMAIN blocks
      /\ frames \in Seq(Frames) /\ known \in Seq(SUBSET Nat) /\ Len(known) = Len(blocks)
      /\ Built(frames, results, blocks, insert, anchored) /\ anchored \in BOOLEAN
      /\ tokens \in Seq(Tokens)
  BY Emitting
<1>3. PICK a \in Nat \ {0} : a = Fresh(1)
  BY <1>2, FreshType
<1>4. PICK s \in Nat \ {0} : s = Fresh(2)
  <2> DEFINE n == 2
  <2>1. n \in Nat \ {0}
    OBVIOUS
  <2> HIDE DEF n
  <2>2. Fresh(n) \in Nat \ {0}
    BY <1>2, <2>1, FreshType
  <2> QED
    BY <2>2 DEF n
<1>5. PICK v \in Int : v = Last(results) /\ v # NoValue
  BY LastResult
<1>6. /\ Top = frames[m] /\ Top \in Frames /\ m \in DOMAIN frames /\ FrameOK(Top, results, blocks)
      /\ Top.anchor \in Nat /\ Top.locals \subseteq Nat
  BY TopFacts DEF Frames
<1>7. AnchorOK(Top.anchor)
  BY <1>6 DEF FrameOK, AnchorOK
<1>8. PICK k, ins :
        /\ Inserts(blocks, C, k, ins)
        /\ ins.id = Fresh(1)
        /\ IF Top.anchor = AtEnd
           THEN k \notin DOMAIN blocks[Entry] /\ ins.place = Len(tokens) + 1
           ELSE k \in DOMAIN blocks[Entry] /\ ins.place = blocks[Entry][k].place
  <2>1. Allocates(C, Top.anchor, a)
    BY <1>3 DEF Binds
  <2>2. \E k, ins :
        /\ Inserts(blocks, C, k, ins)
        /\ ins.id = a
        /\ IF Top.anchor = AtEnd
           THEN k \notin DOMAIN blocks[Entry] /\ ins.place = Len(tokens) + 1
           ELSE k \in DOMAIN blocks[Entry] /\ ins.place = blocks[Entry][k].place
    BY <1>2, <1>6, <1>7, <2>1, InsertsAlloca
  <2> QED
    BY <1>3, <2>2
<1>9. Wider(blocks, C) /\ C \in Blocks /\ DOMAIN C = DOMAIN blocks /\ Entry \in DOMAIN blocks
  BY <1>8, InsertsWider, InsertsFacts DEF Wider
<1>10. /\ Plain(frames, frames', m, results, results', Below(Top), C)
       /\ Unplaced(frames') = Unplaced(frames) /\ frames' \in Seq(Frames) /\ frames' # << >>
       /\ m \in DOMAIN frames' /\ frames'[m].locals = locals
       /\ \A j : ThenValue(frames, j) => ThenValue(frames', j)
  <2>1. locals \in SUBSET Nat
    BY <1>3, <1>6
  <2> QED
    BY <1>0, <1>9, <2>1, PlainBind
<1>11. Built(frames, results, C, insert, anchored')
  <2>1. anchored' => anchored /\ (k \notin DOMAIN blocks[Entry] => Entry = insert)
    BY <1>0, <1>8
  <2> QED
    BY <1>2, <1>8, <2>1, BuiltInsert
<1>12. Widens(blocks, known, known', ins.id)
  <2>1. DOMAIN known = DOMAIN blocks /\ Entry \in DOMAIN known
    <3>1. DOMAIN known = 1 .. Len(known)
      BY <1>2
    <3> QED
      BY <1>2, <1>9, <3>1, BlockFacts
  <2>2. known' = [b \in DOMAIN known |-> IF b = Entry THEN known[b] ELSE known[b] \union {Fresh(1)}]
    BY DEF Binds
  <2> QED
    BY <1>8, <1>9, <2>1, <2>2 DEF Widens
<1>13. Extends(C, known', known')
  BY DEF Extends
<1>14. store \in Instructions /\ store.op = "store" /\ store.id = s /\ store.uses = <<v, a>>
       /\ store.to = << >> /\ store.place = Len(tokens) + 1 /\ store.place \notin DOMAIN tokens
  <2> DEFINE op == "store"
             uses == <<v, a>>
  <2>0. v \in Int /\ a \in Int
    BY <1>3, <1>5
  <2>1. op \in Ops /\ BlockList(<< >>) /\ uses \in Uses
    <3>1. <<v, a>> \in Uses
      BY <2>0, UsesType
    <3> QED
      BY <3>1 DEF Ops, BlockList
  <2>2. store = Instruction(op, s, uses, << >>, << >>)
    BY <1>3, <1>4, <1>5 DEF Binds
  <2> HIDE DEF op, uses
  <2>3. /\ store \in Instructions /\ store.op = op /\ store.id = s /\ store.uses = uses
        /\ store.to = << >> /\ store.place = Len(tokens) + 1 /\ store.place \notin DOMAIN tokens
    BY <1>2, <2>1, <2>2, InstructionFacts
  <2> QED
    BY <2>3 DEF op, uses
<1>15. Range(store.to) = {} /\ Len(store.to) = 0 /\ Range(store.uses) = {v, a}
  <2>1. v \in Int /\ a \in Int
    BY <1>3, <1>5
  <2>2. Range(<<v, a>>) = {v, a}
    BY <2>1, UsesType
  <2>3. Range(<< >>) = {} /\ Len(<< >>) = 0
    BY DEF Range
  <2> QED
    BY <1>14, <2>2, <2>3
<1>16. Grows(C, blocks', insert, store, 0)
  <2>1. blocks' = [C EXCEPT ![insert] = Append(@, store)]
    BY DEF Binds
  <2> QED
    BY <1>2, <1>9, <1>14, <2>1, AppendGrows
<1>17. Built(frames', results', blocks', insert, anchored')
  BY <1>10, <1>11, <1>14, <1>15, <1>16, BuiltAppend
<1>18. /\ tokens' \in Seq(Tokens) /\ Len(tokens') = Len(tokens) + 1 /\ SaysMore(tokens, tokens')
       /\ tokens'[Len(tokens')] = Token("do", s, 0) /\ Len(tokens) + 1 \in DOMAIN tokens'
       /\ \A x \in DOMAIN tokens : tokens'[x] = tokens[x]
  <2> DEFINE token == Token("do", s, 0)
  <2>1. token \in Tokens
    BY <1>4 DEF Token, Tokens
  <2>2. tokens' = Append(tokens, token)
    BY <1>4 DEF Do, Binds
  <2> HIDE DEF token
  <2>3. /\ tokens' \in Seq(Tokens) /\ Len(tokens') = Len(tokens) + 1 /\ SaysMore(tokens, tokens')
        /\ tokens'[Len(tokens')] = token /\ Len(tokens) + 1 \in DOMAIN tokens'
    BY <1>2, <2>1, <2>2, TokenFacts
  <2>4. \A x \in DOMAIN tokens : tokens'[x] = tokens[x]
    BY <1>2, <2>1, <2>2, TokenFacts
  <2> QED
    BY <2>3, <2>4 DEF token
<1>19. Said(store, tokens')
  <2>1. tokens'[store.place].id = store.id /\ tokens'[store.place].kind = "do"
    BY <1>14, <1>18 DEF Token
  <2> QED
    BY <1>14, <1>18, <2>1 DEF Said
<1>20. ASSUME anchored' PROVE Meant(frames', results', blocks', known', tokens', insert)
  <2>1. anchored /\ (k \notin DOMAIN blocks[Entry] => insert = Entry /\ ins.place = Len(tokens) + 1)
        /\ (k \in DOMAIN blocks[Entry] => ins.place = blocks[Entry][k].place)
    BY <1>0, <1>8, <1>20
  <2>2. Meant(frames, results, blocks, known, tokens, insert) /\ Built(frames, results, blocks, insert, TRUE)
    <3>1. Built(frames, results, blocks, insert, TRUE)
      BY <1>2, <2>1 DEF Built
    <3> QED
      BY <2>1, <3>1, Emitting
  <2>3. Meant(frames, results, C, known', tokens, insert)
    BY <1>2, <1>8, <1>12, <2>1, <2>2, MeantInsert
  <2>4. \A b \in DOMAIN blocks : MadeIn(blocks, known, b) \union {a} \subseteq MadeIn(C, known', b)
    BY <1>3, <1>8, <1>12, MadeInserts
  <2>5. \A b \in DOMAIN C : MadeIn(C, known', b) \subseteq MadeIn(blocks', known', b)
    BY <1>13, <1>16, MadeGrows
  <2>6. Range(store.uses) \subseteq MadeIn(C, known', insert) \union {Constant}
    <3>1. Available(v, MadeIn(blocks, known, insert))
      BY <1>5, <2>1, LastResult
    <3>2. v \in MadeIn(C, known', insert) \union {Constant}
      BY <1>2, <1>5, <2>4, <3>1 DEF Available
    <3>3. a \in MadeIn(C, known', insert)
      BY <1>2, <2>4
    <3> QED
      BY <1>15, <3>2, <3>3
  <2>7. DOMAIN blocks' = DOMAIN C
    BY <1>16, GrowsDomain
  <2>8. \A b \in DOMAIN blocks' : frames'[m].locals \subseteq MadeIn(blocks', known', b)
    <3>1. FramesKnow(frames, results, blocks, known, insert)
      BY <2>2 DEF Meant
    <3>2. \A b \in DOMAIN blocks : Top.locals \subseteq MadeIn(blocks, known, b)
      BY <1>6, <3>1 DEF FramesKnow
    <3> QED
      BY <1>3, <1>9, <1>10, <2>4, <2>5, <2>7, <3>2
  <2>9. \A j \in DOMAIN results' :
          ThenValue(frames', j) \/ Available(results'[j], MadeIn(blocks', known', insert))
    <3>1. \A j \in DOMAIN results' : j \in DOMAIN results /\ results'[j] = results[j]
      <4>1. PICK l \in Nat : l = Len(results) /\ DOMAIN results = 1 .. l /\ l >= 1
        BY LastResult, TopFacts
      <4>2. /\ Len(results') = l - 1 /\ results' \in Seq(Int)
            /\ \A j \in 1 .. l - 1 : results'[j] = results[j]
        BY <1>0, <4>1, LastResult
      <4>3. DOMAIN results' = 1 .. l - 1
        BY <4>1, <4>2
      <4> QED
        BY <4>1, <4>2, <4>3
    <3>2. \A j \in DOMAIN results :
            ThenValue(frames, j) \/ Available(results[j], MadeIn(blocks, known, insert))
      BY <2>1, KnownResults
    <3>3. MadeIn(blocks, known, insert) \subseteq MadeIn(blocks', known', insert)
      BY <1>2, <1>9, <2>4, <2>5
    <3> QED
      BY <1>10, <3>1, <3>2, <3>3 DEF Available
  <2>10. store.op \in {"load", "store", "call"} /\ store.place = Len(tokens) + 1 /\ store.place \notin DOMAIN tokens
    BY <1>14
  <2>11. /\ Len(tokens') = Len(tokens) + 1 /\ SaysMore(tokens, tokens')
         /\ \A x \in DOMAIN tokens : tokens'[x] = tokens[x]
    BY <1>18
  <2> QED
    BY <1>10, <1>11, <1>15, <1>16, <1>19, <2>3, <2>6, <2>8, <2>9, <2>10, <2>11, MeantAppend
<1>21. DOMAIN blocks' = DOMAIN blocks /\ Len(blocks') = Len(blocks) /\ blocks' \in Blocks
  <2>1. DOMAIN blocks' = DOMAIN C
    BY <1>16, GrowsDomain
  <2>2. Len(blocks') = Len(C) /\ blocks' \in Blocks
    BY <1>16 DEF Grows
  <2>3. Len(C) = Len(blocks)
    BY <1>8 DEF Inserts
  <2> QED
    BY <1>9, <2>1, <2>2, <2>3
<1>22. known' \in Seq(SUBSET Nat) /\ Len(known') = Len(known)
  <2>1. known' = [b \in DOMAIN known |-> IF b = Entry THEN known[b] ELSE known[b] \union {a}]
    BY <1>3 DEF Binds
  <2>2. PICK l \in Nat : l = Len(known) /\ DOMAIN known = 1 .. l
    BY <1>2
  <2>3. DOMAIN known' = 1 .. l /\ \A b \in 1 .. l : known'[b] \in SUBSET Nat
    BY <1>2, <2>1, <2>2
  <2>4. known' \in Seq(SUBSET Nat)
    BY <2>1, <2>2, <2>3
  <2> QED
    BY <2>2, <2>3, <2>4
<1>23. results' \in Seq(Int)
  BY <1>0, LastResult
<1>24. TypeOK'
  BY <1>0, <1>1, <1>2, <1>10, <1>18, <1>21, <1>22, <1>23 DEF TypeOK
<1> QED
  BY <1>1, <1>2, <1>10, <1>17, <1>20, <1>21, <1>24, Emitting, Emits DEF run

\* A variable is bound: an alloca in the entry block and a store where the builder is.
LEMMA BindStep == ASSUME IInv, Bind PROVE IInv'
<1>1. /\ phase = "emit" /\ Top.stage = "bind" /\ Delivered = 1 /\ results' = Front(results)
      /\ size' = size + 1 /\ UNCHANGED <<phase, placed, insert, run>>
  BY DEF Bind, Count
<1>2. size' \in Nat
  BY <1>1, Emitting DEF TypeOK
<1>3. CASE Last(results) = NoValue
  <2>1. UNCHANGED <<phase, graph, tokens, frames, anchored, run>>
    BY <1>3 DEF Bind, graph, shape
  <2> QED
    BY <1>1, <1>2, <2>1, BindVoid
<1>4. CASE Last(results) # NoValue
  <2> DEFINE store == Instruction("store", Fresh(2), <<Last(results), Fresh(1)>>, << >>, << >>)
             C == [blocks EXCEPT ![Entry] = InsertAlloca(blocks[Entry], Top.anchor, Fresh(1))]
  <2>1. /\ blocks' = [C EXCEPT ![insert] = Append(@, store)]
        /\ known' = [b \in DOMAIN known |->
                       IF b = Entry THEN known[b] ELSE known[b] \union {Fresh(1)}]
        /\ tokens' = Append(tokens, Do(Fresh(2)))
        /\ frames' = [frames EXCEPT ![Len(frames)].locals = @ \union {Fresh(1)}]
        /\ anchored' = (anchored /\ (Top.anchor = AtEnd => insert = Entry))
    BY <1>4 DEF Bind
  <2>2. Relocals(frames', Top.locals \union {Fresh(1)})
    <3>1. Top = frames[Len(frames)] /\ Len(frames) \in DOMAIN frames
      BY <1>1, TopFacts
    <3> QED
      BY <2>1, <3>1 DEF Relocals
  <2>3. PICK D : D = C
    OBVIOUS
  <2>4. PICK st : st = store
    OBVIOUS
  <2>5. Binds(D, st)
    BY <1>1, <2>1, <2>2, <2>3, <2>4 DEF Binds, Allocates
  <2> QED
    BY <1>1, <1>2, <1>4, <2>5, BindValue
<1> QED
  BY <1>3, <1>4

-----------------------------------------------------------------------------
(* The actions that branch.                                                 *)

\* C is the graph with a branch ins at the end of the insert block, and n new blocks, in
\* which L says known what was there.
Branches(C, L, ins, op, uses, to, n) ==
  /\ Grows(blocks, C, insert, ins, n)
  /\ ins.op = op /\ ins.id = Fresh(1) /\ ins.uses = uses /\ ins.to = to
  /\ ins.place = Len(tokens) + 1 /\ ins.place \notin DOMAIN tokens
  /\ Extends(blocks, known, L)
  /\ \A b \in DOMAIN C \ DOMAIN blocks : L[b] = MadeIn(blocks, known, insert)

\* The blocks and what is known in them are of their types.
GraphTyped(C, L, n) ==
  /\ C \in Blocks /\ Len(C) = Len(blocks) + n
  /\ L \in Seq(SUBSET Nat) /\ Len(L) = Len(C)

\* The branch instruction.
LEMMA BranchIns ==
  ASSUME TypeOK, NEW op \in {"br", "condbr"}, NEW uses \in Uses, NEW to, BlockList(to),
         NEW ins, ins = Instruction(op, Fresh(1), uses, to, << >>)
  PROVE  /\ ins \in Instructions
         /\ ins.op = op /\ ins.id = Fresh(1) /\ ins.uses = uses /\ ins.to = to
         /\ ins.place = Len(tokens) + 1 /\ ins.place \notin DOMAIN tokens
<1>1. PICK id \in Nat \ {0} : id = Fresh(1)
  BY FreshType
<1>2. op \in Ops /\ BlockList(<< >>)
  BY DEF Ops, BlockList
<1>3. ins = Instruction(op, id, uses, to, << >>)
  BY <1>1
<1>4. /\ ins \in Instructions
      /\ ins.op = op /\ ins.id = id /\ ins.uses = uses /\ ins.to = to
      /\ ins.place = Len(tokens) + 1 /\ ins.place \notin DOMAIN tokens
  BY <1>2, <1>3, InstructionFacts
<1> QED
  BY <1>1, <1>4

\* What is known in the blocks there were, and in the new ones.
Learnt(L, n) == L = known \o [k \in 1 .. n |-> Made(insert)]

\* Learnt adds what is known in the new blocks.
LEMMA KnownGrows ==
  ASSUME TypeOK, NEW n \in Nat, NEW L, Learnt(L, n)
  PROVE  /\ L \in Seq(SUBSET Nat) /\ Len(L) = Len(blocks) + n
         /\ Extends(blocks, known, L)
         /\ \A b \in Len(blocks) + 1 .. Len(blocks) + n : L[b] = MadeIn(blocks, known, insert)
<1>1. /\ blocks \in Blocks /\ insert \in DOMAIN blocks /\ known \in Seq(SUBSET Nat)
      /\ Len(known) = Len(blocks)
  BY DEF TypeOK
<1>2. PICK l \in Nat : l = Len(blocks) /\ l = Len(known) /\ DOMAIN blocks = 1 .. l
  BY <1>1, BlockFacts
<1> DEFINE made == Made(insert)
<1>3. made \in SUBSET Nat /\ made = MadeIn(blocks, known, insert)
  <2>1. known[insert] \in SUBSET Nat
    BY <1>1, <1>2
  <2>2. \A i \in DOMAIN blocks[insert] : blocks[insert][i].id \in Nat
    BY <1>1, BlockFacts DEF Instructions
  <2> QED
    BY <2>1, <2>2 DEF Made, MadeIn, Computed
<1> HIDE DEF made
<1> DEFINE more == [k \in 1 .. n |-> made]
<1>4. more \in Seq(SUBSET Nat) /\ Len(more) = n /\ \A k \in 1 .. n : more[k] = made
  BY <1>3
<1>5. L = known \o more
  BY DEF made, Learnt
<1> HIDE DEF more
<1>6. /\ L \in Seq(SUBSET Nat) /\ Len(L) = l + n
      /\ \A b \in 1 .. l + n : L[b] = IF b <= l THEN known[b] ELSE more[b - l]
  <2>1. /\ known \o more \in Seq(SUBSET Nat) /\ Len(known \o more) = Len(known) + Len(more)
        /\ \A b \in 1 .. Len(known) + Len(more) :
             (known \o more)[b] = IF b <= Len(known) THEN known[b] ELSE more[b - Len(known)]
    BY <1>1, <1>4, ConcatProperties
  <2> QED
    BY <1>2, <1>4, <1>5, <2>1
<1>7. \A b \in 1 .. l : b \in 1 .. l + n /\ b <= l
  OBVIOUS
<1>8. \A b \in l + 1 .. l + n : b \in 1 .. l + n /\ ~ (b <= l) /\ b - l \in 1 .. n
  OBVIOUS
<1>9. Extends(blocks, known, L)
  BY <1>2, <1>6, <1>7 DEF Extends
<1>10. \A b \in l + 1 .. l + n : L[b] = made
  BY <1>4, <1>6, <1>8
<1> QED
  BY <1>2, <1>3, <1>6, <1>9, <1>10

\* What Branch does.
LEMMA Branching ==
  ASSUME TypeOK, NEW op \in {"br", "condbr"}, NEW uses \in Uses, NEW to, BlockList(to),
         NEW q, NEW n \in Nat, Branch(op, uses, to, q, n)
  PROVE  \E ins : Branches(blocks', known', ins, op, uses, to, n) /\ GraphTyped(blocks', known', n)
<1> DEFINE ins == Instruction(op, Fresh(1), uses, to, << >>)
<1>1. blocks \in Blocks /\ insert \in DOMAIN blocks
  BY DEF TypeOK
<1>2. /\ blocks' = [blocks EXCEPT ![insert] = Append(@, ins)] \o [k \in 1 .. n |-> << >>]
      /\ known' = known \o [k \in 1 .. n |-> Made(insert)]
  BY DEF Branch
<1>3. ins = Instruction(op, Fresh(1), uses, to, << >>)
  OBVIOUS
<1> HIDE DEF ins
<1>4. /\ ins \in Instructions
      /\ ins.op = op /\ ins.id = Fresh(1) /\ ins.uses = uses /\ ins.to = to
      /\ ins.place = Len(tokens) + 1 /\ ins.place \notin DOMAIN tokens
  BY <1>3, BranchIns
<1>5. Grows(blocks, blocks', insert, ins, n)
  BY <1>1, <1>2, <1>4, BranchGrows
<1>6. /\ known' \in Seq(SUBSET Nat) /\ Len(known') = Len(blocks) + n
      /\ Extends(blocks, known, known')
      /\ \A b \in Len(blocks) + 1 .. Len(blocks) + n : known'[b] = MadeIn(blocks, known, insert)
  BY <1>2, KnownGrows DEF Learnt
<1>7. blocks' \in Blocks /\ Len(blocks') = Len(blocks) + n
  BY <1>5 DEF Grows
<1>8. \A b \in DOMAIN blocks' \ DOMAIN blocks : known'[b] = MadeIn(blocks, known, insert)
  <2>1. PICK l \in Nat : l = Len(blocks) /\ DOMAIN blocks = 1 .. l /\ DOMAIN blocks' = 1 .. l + n
    BY <1>5, GrowsDomain
  <2>2. \A b \in (1 .. l + n) \ (1 .. l) : b \in l + 1 .. l + n
    OBVIOUS
  <2> QED
    BY <1>6, <2>1, <2>2
<1>9. Branches(blocks', known', ins, op, uses, to, n)
  BY <1>4, <1>5, <1>6, <1>8 DEF Branches
<1>10. GraphTyped(blocks', known', n)
  BY <1>6, <1>7 DEF GraphTyped
<1> QED
  BY <1>9, <1>10

\* The body with one token more, and another that goes elsewhere.
Patches(U, token, x, z) == U = [Append(tokens, token) EXCEPT ![x].to = z]

\* A token is added, and the target of an earlier one set.
LEMMA PatchFacts ==
  ASSUME TypeOK, NEW token \in Tokens, NEW x \in DOMAIN tokens, NEW z \in Nat,
         NEW U, Patches(U, token, x, z)
  PROVE  /\ U \in Seq(Tokens) /\ Len(U) = Len(tokens) + 1 /\ SaysMore(tokens, U)
         /\ U[Len(U)] = token /\ Len(tokens) + 1 \in DOMAIN U
         /\ \A y \in DOMAIN tokens : y # x => U[y] = tokens[y]
         /\ U[x].to = z
<1> DEFINE V == Append(tokens, token)
<1>1. U = [V EXCEPT ![x] = [V[x] EXCEPT !.to = z]]
  BY DEF Patches
<1>2. /\ V \in Seq(Tokens) /\ Len(V) = Len(tokens) + 1 /\ SaysMore(tokens, V)
      /\ V[Len(V)] = token /\ Len(tokens) + 1 \in DOMAIN V
  BY TokenFacts
<1>3. \A y \in DOMAIN tokens : V[y] = tokens[y]
  BY TokenFacts
<1> HIDE DEF V
<1>4. PICK l \in Nat : l = Len(tokens) /\ DOMAIN tokens = 1 .. l
  <2>1. tokens \in Seq(Tokens)
    BY DEF TypeOK
  <2> QED
    BY <2>1
<1>5. Len(V) = l + 1 /\ DOMAIN V = 1 .. l + 1
  BY <1>2, <1>4
<1>6. x \in DOMAIN V /\ x # l + 1 /\ V[x] \in Tokens
  BY <1>2, <1>4, <1>5
<1> DEFINE other == [V[x] EXCEPT !.to = z]
<1>7. other \in Tokens /\ other.to = z /\ other.id = V[x].id /\ other.kind = V[x].kind
  BY <1>6 DEF Tokens
<1> HIDE DEF other
<1>8. U = [V EXCEPT ![x] = other]
  BY <1>1 DEF other
<1>9. /\ U \in Seq(Tokens) /\ Len(U) = l + 1 /\ DOMAIN U = 1 .. l + 1 /\ U[x] = other
      /\ \A y \in 1 .. l + 1 : y # x => U[y] = V[y]
  BY <1>2, <1>5, <1>6, <1>7, <1>8
<1>10. SaysMore(tokens, U)
  <2>1. \A y \in DOMAIN tokens : U[y].id = tokens[y].id /\ U[y].kind = tokens[y].kind
    BY <1>3, <1>4, <1>7, <1>9
  <2>2. DOMAIN tokens \subseteq DOMAIN U /\ tokens \in Seq(Tokens)
    BY <1>4, <1>9 DEF TypeOK
  <2> QED
    BY <1>9, <2>1, <2>2 DEF SaysMore
<1>11. U[l + 1] = token
  BY <1>2, <1>5, <1>6, <1>9
<1>12. \A y \in DOMAIN tokens : y # x => U[y] = tokens[y]
  BY <1>3, <1>4, <1>9
<1>13. U[x].to = z
  BY <1>7, <1>9
<1> QED
  BY <1>4, <1>9, <1>10, <1>11, <1>12, <1>13

\* The stacks after an action that branches.
LEMMA MoveStacks ==
  ASSUME IInv, phase = "emit", NEW G, Retops(frames, G),
         NEW S \in Seq(Int), Below(Top) <= Len(S), \A j \in 1 .. Below(Top) : S[j] = results[j]
  PROVE  /\ Keeps(frames, G, Len(frames), results, S, Below(Top))
         /\ \A j \in 1 .. Below(Top) : ThenValue(frames, j) => ThenValue(G, j)
         /\ Pending(G) = (Pending(frames) \ Waiting(Top))
                           \union (IF Len(G) = Len(frames) THEN Waiting(G[Len(frames)]) ELSE {})
         /\ Unplaced(G) = (Unplaced(frames) \ (IF Top.form = "if" THEN Waiting(Top) ELSE {}))
                            \union (IF Len(G) = Len(frames) /\ G[Len(frames)].form = "if"
                                    THEN Waiting(G[Len(frames)]) ELSE {})
         /\ Waiting(Top) \subseteq Pending(frames)
         /\ \A k \in DOMAIN G : k # Len(frames) =>
              /\ Waiting(G[k]) \intersect Waiting(Top) = {} /\ Waiting(G[k]) \subseteq Pending(frames)
              /\ G[k].base <= Below(Top)
<1>1. /\ frames \in Seq(Frames) /\ frames # << >> /\ results \in Seq(Int)
      /\ FramesNest(frames, results, blocks)
  BY Emitting
<1>2. /\ Top = frames[Len(frames)] /\ Below(Top) \in Nat /\ Below(Top) <= Len(results)
  BY TopFacts
<1>3. /\ Keeps(frames, G, Len(frames), results, S, Below(Top))
      /\ \A j \in 1 .. Below(Top) : ThenValue(frames, j) => ThenValue(G, j)
      /\ \A k \in DOMAIN G : k # Len(frames) => G[k].base <= Below(Top)
  <2>1. PICK r \in Nat : r = Below(Top) /\ r <= Len(results) /\ r <= Len(S)
    BY <1>2
  <2> QED
    BY <1>1, <1>2, <2>1, RetopsKeeps
<1>4. /\ Pending(G) = (Pending(frames) \ Waiting(Top))
                        \union (IF Len(G) = Len(frames) THEN Waiting(G[Len(frames)]) ELSE {})
      /\ Unplaced(G) = (Unplaced(frames) \ (IF Top.form = "if" THEN Waiting(Top) ELSE {}))
                         \union (IF Len(G) = Len(frames) /\ G[Len(frames)].form = "if"
                                 THEN Waiting(G[Len(frames)]) ELSE {})
      /\ Waiting(Top) \subseteq Pending(frames)
      /\ \A k \in DOMAIN G : k # Len(frames) =>
           Waiting(G[k]) \intersect Waiting(Top) = {} /\ Waiting(G[k]) \subseteq Pending(frames)
  BY <1>1, <1>2, RetopsPending
<1> QED
  BY <1>3, <1>4

\* Where the pending blocks are, and the insert block.
LEMMA PendingFacts ==
  ASSUME IInv, phase = "emit"
  PROVE  /\ Pending(frames) \subseteq DOMAIN blocks /\ Entry \notin Pending(frames)
         /\ insert \notin Pending(frames) /\ insert \in DOMAIN blocks
         /\ \A b \in Pending(frames) : blocks[b] = << >> /\ DOMAIN blocks[b] = {}
         /\ Open(blocks[insert]) /\ Stands(blocks, Pending(frames), {insert})
         /\ BranchesOK(blocks, {insert})
         /\ BlocksOK(Top, blocks, Pending(frames), insert)
         /\ Entry \in DOMAIN blocks
<1>1. Built(frames, results, blocks, insert, anchored) /\ insert \in DOMAIN blocks /\ blocks \in Blocks
  BY Emitting
<1>2. /\ Stands(blocks, Pending(frames), {insert}) /\ BranchesOK(blocks, {insert})
      /\ BlocksOK(Top, blocks, Pending(frames), insert)
  BY <1>1, TopFacts DEF Built
<1>3. /\ Pending(frames) \subseteq DOMAIN blocks /\ Entry \notin Pending(frames)
      /\ insert \notin Pending(frames) /\ Open(blocks[insert])
      /\ \A b \in Pending(frames) : blocks[b] = << >>
  BY <1>2 DEF Stands
<1>4. DOMAIN << >> = {}
  OBVIOUS
<1>5. Entry \in DOMAIN blocks
  BY <1>1, BlockFacts DEF Entry
<1> QED
  BY <1>1, <1>2, <1>3, <1>4, <1>5

\* What is known where the frames end.
LEMMA LevelFacts ==
  ASSUME IInv, phase = "emit", anchored
  PROVE  /\ \A k \in DOMAIN frames : HasBlocks(frames[k]) =>
              /\ Level(frames[k], known) \subseteq MadeIn(blocks, known, insert)
              /\ frames[k].blocks[3] \in DOMAIN blocks
         /\ HasBlocks(Top) => \A k \in DOMAIN frames : k # Len(frames) /\ HasBlocks(frames[k]) =>
              Level(frames[k], known) \subseteq Level(Top, known)
         /\ LevelOK(Top, frames, results, blocks, known, insert)
<1>1. /\ FramesKnow(frames, results, blocks, known, insert)
      /\ FramesNest(frames, results, blocks) /\ frames \in Seq(Frames) /\ blocks \in Blocks
  BY Emitting DEF Meant
<1>2. Top = frames[Len(frames)] /\ Len(frames) \in DOMAIN frames
  BY TopFacts
<1>3. ASSUME NEW k \in DOMAIN frames, HasBlocks(frames[k])
      PROVE  /\ Level(frames[k], known) \subseteq MadeIn(blocks, known, insert)
             /\ frames[k].blocks[3] \in DOMAIN blocks
  <2>1. LevelOK(frames[k], frames, results, blocks, known, insert)
    BY <1>1 DEF FramesKnow
  <2>2. FrameOK(frames[k], results, blocks) /\ frames[k].blocks \in Seq(Nat)
    BY <1>1, FrameFacts DEF FramesNest
  <2> QED
    BY <1>1, <1>3, <2>1, <2>2, FrameBlocks DEF LevelOK
<1>4. ASSUME HasBlocks(Top), NEW k \in DOMAIN frames, k # Len(frames), HasBlocks(frames[k])
      PROVE  Level(frames[k], known) \subseteq Level(Top, known)
  <2>1. PICK m \in Nat : m = Len(frames) /\ DOMAIN frames = 1 .. m
    BY <1>1
  <2>2. k < m
    BY <1>4, <2>1
  <2> QED
    BY <1>1, <1>2, <1>4, <2>1, <2>2 DEF FramesKnow
<1> QED
  BY <1>1, <1>2, <1>3, <1>4 DEF FramesKnow

\* A frame that branches to new blocks knows there what it knew.
LEMMA LearnsNew ==
  ASSUME IInv, phase = "emit", anchored,
         NEW C, NEW L, NEW ins, NEW op, NEW uses, NEW to, NEW n,
         Branches(C, L, ins, op, uses, to, n),
         Range(uses) \subseteq MadeIn(blocks, known, insert) \union {Constant},
         Range(to) \subseteq DOMAIN C \ DOMAIN blocks,
         NEW q \in DOMAIN C \ DOMAIN blocks,
         NEW G, Retops(frames, G), NEW S \in Seq(Int), DOMAIN S = 1 .. Below(Top),
         \A j \in 1 .. Below(Top) : S[j] = results[j],
         \A j \in 1 .. Below(Top) : ThenValue(frames, j) => ThenValue(G, j),
         NEW g, G[Len(frames)] = g, g.locals = Top.locals, Below(g) = Below(Top), g.stage # "else",
         \A i \in 1 .. 3 : g.blocks[i] \in DOMAIN C \ DOMAIN blocks
  PROVE  Learns(frames, G, Len(frames), results, S, Below(Top), blocks, C, known, L, insert, ins, q)
<1> DEFINE m == Len(frames)
           made == MadeIn(blocks, known, insert)
<1>1. /\ Grows(blocks, C, insert, ins, n) /\ ins.uses = uses /\ ins.to = to
      /\ Extends(blocks, known, L) /\ \A b \in DOMAIN C \ DOMAIN blocks : L[b] = made
  BY DEF Branches
<1>2. L[q] = made /\ \A c \in Range(ins.to) : L[c] \subseteq made
  BY <1>1
<1>3. Top = frames[m] /\ m \in DOMAIN frames /\ Below(Top) \in Nat /\ Below(Top) <= Len(results)
      /\ DOMAIN results = 1 .. Len(results) /\ Len(results) \in Nat
  BY TopFacts
<1>4. ASSUME NEW k \in DOMAIN G, k # m, HasBlocks(G[k])
      PROVE  Level(G[k], L) \subseteq made
  <2>1. k \in DOMAIN frames /\ G[k] = frames[k]
    BY <1>4, RetopsIndices
  <2>2. Level(frames[k], known) \subseteq made /\ frames[k].blocks[3] \in DOMAIN blocks
    BY <1>4, <2>1, LevelFacts
  <2> QED
    BY <1>1, <2>1, <2>2 DEF Level, Extends
<1>5. L[g.blocks[1]] = made /\ L[g.blocks[2]] = made /\ Level(g, L) = made
  <2>1. 1 \in 1 .. 3 /\ 2 \in 1 .. 3 /\ 3 \in 1 .. 3
    OBVIOUS
  <2> QED
    BY <1>1, <2>1 DEF Level
<1>6. ASSUME NEW j \in 1 .. Below(Top)
      PROVE  ThenValue(G, j) \/ Available(S[j], made)
  <2>1. j \in DOMAIN results
    BY <1>3
  <2> QED
    BY <2>1, KnownResults
<1>7. LevelOK(g, G, S, C, L, q)
  <2>1. Level(g, L) \subseteq MadeIn(C, L, q)
    BY <1>2, <1>5 DEF MadeIn
  <2> QED
    BY <1>5, <1>6, <2>1 DEF LevelOK
<1> HIDE DEF made
<1>8. \A j \in DOMAIN S : ThenValue(G, j) \/ Available(S[j], L[q])
  BY <1>2, <1>6
<1>9. Range(ins.uses) \subseteq made \union {Constant}
  BY <1>1 DEF made
<1> QED
  BY <1>1, <1>2, <1>3, <1>4, <1>5, <1>7, <1>8, <1>9 DEF Learns, made

\* The top frame, if it is still there, waits for the same blocks and binds the same locals.
TopStays(G, S, C, L) ==
  Len(frames) \in DOMAIN G =>
    LET g == G[Len(frames)] IN
    /\ g.locals = Top.locals /\ Below(g) = Below(Top) /\ HasBlocks(g)
    /\ g.blocks[2] = Top.blocks[2] /\ g.blocks[3] = Top.blocks[3]
    /\ Looping(g) => Looping(Top) /\ g.blocks[1] = Top.blocks[1]
    /\ g.stage # "then"
    /\ g.stage = "else" => Available(S[g.base], MadeIn(C, L, g.blocks[1]))

\* A frame that branches to blocks it waits for, or back to its condition.
LEMMA LearnsOld ==
  ASSUME IInv, phase = "emit", anchored, HasBlocks(Top),
         NEW C, NEW L, NEW ins, NEW op, NEW uses, NEW to,
         Branches(C, L, ins, op, uses, to, 0),
         Range(uses) \subseteq MadeIn(blocks, known, insert) \union {Constant},
         NEW q, \A c \in Range(to) \union {q} : c \in DOMAIN blocks /\ known[c] = Level(Top, known),
         NEW G, Retops(frames, G), NEW S \in Seq(Int), Below(Top) <= Len(S),
         \A j \in 1 .. Below(Top) : S[j] = results[j],
         \A j \in 1 .. Below(Top) : ThenValue(frames, j) => ThenValue(G, j),
         \A j \in DOMAIN S : j \in 1 .. Below(Top) \/ ThenValue(G, j) \/ S[j] = NoValue,
         TopStays(G, S, C, L)
  PROVE  Learns(frames, G, Len(frames), results, S, Below(Top), blocks, C, known, L, insert, ins, q)
<1> DEFINE m == Len(frames)
           made == MadeIn(blocks, known, insert)
           level == Level(Top, known)
<1>1. /\ Grows(blocks, C, insert, ins, 0) /\ ins.uses = uses /\ ins.to = to
      /\ Extends(blocks, known, L) /\ \A b \in DOMAIN C \ DOMAIN blocks : L[b] = made
  BY DEF Branches
<1>2. /\ Top = frames[m] /\ m \in DOMAIN frames /\ FrameOK(Top, results, blocks) /\ Top \in Frames
      /\ Below(Top) \in Nat
  BY TopFacts
<1>11. m \in DOMAIN G =>
         /\ G[m].locals = Top.locals /\ Below(G[m]) = Below(Top) /\ HasBlocks(G[m])
         /\ G[m].blocks[2] = Top.blocks[2] /\ G[m].blocks[3] = Top.blocks[3]
         /\ Looping(G[m]) => Looping(Top) /\ G[m].blocks[1] = Top.blocks[1]
         /\ G[m].stage # "then"
         /\ G[m].stage = "else" => Available(S[G[m].base], MadeIn(C, L, G[m].blocks[1]))
  BY DEF TopStays
<1>3. /\ Top.blocks[1] \in DOMAIN blocks /\ Top.blocks[2] \in DOMAIN blocks
      /\ Top.blocks[3] \in DOMAIN blocks
  <2>1. Top.blocks \in Seq(Nat) /\ blocks \in Blocks
    BY <1>2, Emitting DEF Frames
  <2> QED
    BY <1>2, <2>1, FrameBlocks
<1>4. LevelOK(Top, frames, results, blocks, known, insert)
  BY LevelFacts
<1>5. level \subseteq made /\ L[q] = level /\ \A c \in Range(ins.to) : L[c] = level
  BY <1>1, <1>4 DEF LevelOK, Extends
<1>6. ASSUME NEW k \in DOMAIN G, k # m, HasBlocks(G[k])
      PROVE  Level(G[k], L) \subseteq level
  <2>1. k \in DOMAIN frames /\ G[k] = frames[k]
    BY <1>6, RetopsIndices
  <2>2. Level(frames[k], known) \subseteq level /\ frames[k].blocks[3] \in DOMAIN blocks
    BY <1>6, <2>1, LevelFacts
  <2> QED
    BY <1>1, <2>1, <2>2 DEF Level, Extends
<1>7. ASSUME NEW j \in 1 .. Below(Top)
      PROVE  ThenValue(G, j) \/ Available(S[j], level)
  BY <1>4 DEF LevelOK
<1>8. \A j \in DOMAIN S : ThenValue(G, j) \/ Available(S[j], L[q])
  BY <1>5, <1>7 DEF Available
<1>9. ASSUME m \in DOMAIN G
      PROVE  /\ G[m].locals = Top.locals /\ HasBlocks(G[m]) /\ Level(G[m], L) = level
             /\ LevelOK(G[m], G, S, C, L, q)
  <2>1. Level(G[m], L) = level /\ L[G[m].blocks[2]] = L[Top.blocks[2]]
    BY <1>1, <1>3, <1>9, <1>11 DEF Level, Extends
  <2>2. Looping(G[m]) => L[G[m].blocks[1]] = level /\ L[G[m].blocks[2]] = level
    BY <1>1, <1>3, <1>4, <1>9, <1>11, <2>1 DEF LevelOK, Extends
  <2>3. Level(G[m], L) \subseteq MadeIn(C, L, q)
    BY <1>5, <2>1 DEF MadeIn
  <2>4. \A j \in 1 .. Below(G[m]) : ThenValue(G, j) \/ Available(S[j], Level(G[m], L))
    BY <1>7, <1>9, <1>11, <2>1
  <2>5. LevelOK(G[m], G, S, C, L, q)
    BY <1>9, <1>11, <2>1, <2>2, <2>3, <2>4 DEF LevelOK
  <2> QED
    BY <1>9, <1>11, <2>1, <2>5
<1> HIDE DEF made, level
<1>10. Range(ins.uses) \subseteq made \union {Constant}
  BY <1>1 DEF made
<1> QED
  BY <1>1, <1>2, <1>5, <1>6, <1>8, <1>9, <1>10 DEF Learns, made

\* U is the body with a token more, the one of ins.
Told(U, ins) ==
  /\ U \in Seq(Tokens) /\ Len(U) = Len(tokens) + 1 /\ SaysMore(tokens, U)
  /\ Said(ins, U) /\ Len(tokens) + 1 \in DOMAIN U

\* What is known of the code there is.
LEMMA CodePlaces ==
  ASSUME IInv, phase = "emit", anchored, NEW y \in Code(blocks)
  PROVE  /\ Said(y, tokens) /\ LeadsOn(y, blocks, tokens, Pending(frames))
         /\ BranchOK(y, Len(blocks)) /\ \A c \in Range(y.to) : c \in DOMAIN blocks
         /\ y.op \in {"br", "condbr"} => y.place \in DOMAIN tokens
         /\ y \in Instructions
<1>1. PathOK(blocks, tokens, Pending(frames), {insert}) /\ blocks \in Blocks
  BY Emitting DEF Meant
<1>2. BranchOK(y, Len(blocks))
  BY PendingFacts DEF BranchesOK
<1>3. Said(y, tokens) /\ LeadsOn(y, blocks, tokens, Pending(frames))
  BY <1>1 DEF PathOK
<1>4. \A c \in Range(y.to) : c \in DOMAIN blocks
  <2>1. Range(y.to) \subseteq (1 .. Len(blocks)) \ {Entry}
    BY <1>2 DEF BranchOK
  <2>2. DOMAIN blocks = 1 .. Len(blocks)
    BY <1>1, BlockFacts
  <2> QED
    BY <2>1, <2>2
<1>5. y.op \in {"br", "condbr"} => y.place \in DOMAIN tokens
  BY <1>3 DEF Said, Written
<1>6. y \in Instructions
  BY <1>1, CodeFacts
<1> QED
  BY <1>2, <1>3, <1>4, <1>5, <1>6

\* A branch whose token is the only new thing in the body.
LEMMA ContinuesPlain ==
  ASSUME IInv, phase = "emit", anchored,
         NEW C, NEW L, NEW ins, NEW op, NEW uses, NEW to, NEW n,
         Branches(C, L, ins, op, uses, to, n),
         NEW U, Told(U, ins), \A x \in DOMAIN tokens : U[x] = tokens[x],
         NEW R, LeadsOn(ins, C, U, R),
         \A y \in Code(blocks) : Range(y.to) \intersect Pending(frames) \subseteq R,
         NEW G, NEW t, t \in DOMAIN G => FramePlace(G[t], C, U)
  PROVE  Continues(G, t, blocks, C, tokens, U, ins, Pending(frames), R)
<1>1. ASSUME NEW y \in Code(blocks)
      PROVE  GoesOn(y, C, tokens, U, Pending(frames), R)
  <2>1. CASE y.op \in {"br", "condbr"}
    BY <2>1, CodePlaces DEF GoesOn
  <2>2. CASE y.op \notin {"br", "condbr"}
    BY <2>2 DEF GoesOn, LeadsOn
  <2> QED
    BY <2>1, <2>2
<1>2. ins.place = Len(tokens) + 1 /\ ins.place \notin DOMAIN tokens
  BY DEF Branches
<1>3. SaysMore(tokens, U) /\ Len(U) = Len(tokens) + 1 /\ Said(ins, U)
  BY DEF Told
<1> QED
  BY <1>1, <1>2, <1>3 DEF Continues

\* A block without instructions begins where the body ends.
LEMMA FirstEmpty ==
  ASSUME NEW C, NEW U, NEW b, C[b] = << >>
  PROVE  First(C, U, b) = Len(U) + 1
BY DEF First

\* What is empty after the branch.
LEMMA EmptyAfter ==
  ASSUME IInv, phase = "emit",
         NEW C, NEW L, NEW ins, NEW op, NEW uses, NEW to, NEW n,
         Branches(C, L, ins, op, uses, to, n)
  PROVE  /\ \A b \in Pending(frames) : C[b] = << >>
         /\ \A b \in DOMAIN C \ DOMAIN blocks : C[b] = << >>
         /\ Code(C) = Code(blocks) \union {ins}
<1>1. Grows(blocks, C, insert, ins, n)
  BY DEF Branches
<1>2. \A b \in Pending(frames) : b \in DOMAIN blocks /\ b # insert /\ blocks[b] = << >>
  BY PendingFacts
<1>3. \A b \in Pending(frames) : C[b] = << >>
  BY <1>1, <1>2, GrowsFacts
<1>4. \A b \in DOMAIN C \ DOMAIN blocks : C[b] = << >>
  BY <1>1, GrowsFacts
<1>5. Code(C) = Code(blocks) \union {ins}
  BY <1>1, GrowsCode
<1> QED
  BY <1>3, <1>4, <1>5

\* A branch that comes to a block another branch awaits.
LEMMA ContinuesPatched ==
  ASSUME IInv, phase = "emit", anchored,
         NEW C, NEW L, NEW ins, NEW op, NEW uses, NEW to,
         Branches(C, L, ins, op, uses, to, 0),
         NEW U, Told(U, ins), NEW x, \A y \in DOMAIN tokens : y # x => U[y] = tokens[y],
         U[x].to = Len(tokens) + 2,
         NEW w, NEW c \in Pending(frames), Awaited(blocks, tokens, x, w, c),
         NEW R, R = Pending(frames) \ {c}, LeadsOn(ins, C, U, R),
         NEW G, NEW t, t \in DOMAIN G => FramePlace(G[t], C, U)
  PROVE  Continues(G, t, blocks, C, tokens, U, ins, Pending(frames), R)
<1>1. Grows(blocks, C, insert, ins, 0) /\ ins.place = Len(tokens) + 1 /\ ins.place \notin DOMAIN tokens
  BY DEF Branches
<1>2. First(C, U, c) = Len(tokens) + 2
  <2>1. C[c] = << >>
    BY EmptyAfter
  <2>2. PICK l \in Nat : l = Len(tokens) /\ Len(U) = l + 1
    <3>1. tokens \in Seq(Tokens)
      BY Emitting
    <3> QED
      BY <3>1 DEF Told
  <2> QED
    BY <2>1, <2>2, FirstEmpty
<1>3. ASSUME NEW y \in Code(blocks)
      PROVE  GoesOn(y, C, tokens, U, Pending(frames), R)
  <2>0. /\ LeadsOn(y, blocks, tokens, Pending(frames)) /\ BranchOK(y, Len(blocks))
        /\ y.op \in {"br", "condbr"} => y.place \in DOMAIN tokens
    BY CodePlaces
  <2>1. CASE y.op \notin {"br", "condbr"}
    BY <2>1 DEF GoesOn, LeadsOn
  <2>2. CASE y.op \in {"br", "condbr"} /\ y.place # x
    <3>1. U[y.place].to = tokens[y.place].to
      BY <2>0, <2>2
    <3>2. c \notin Range(y.to)
      BY <2>2 DEF Awaited
    <3> QED
      BY <3>1, <3>2 DEF GoesOn
  <2>3. CASE y.op \in {"br", "condbr"} /\ y.place = x
    <3>1. Len(y.to) = w /\ y.to[w] = c
      BY <2>3 DEF Awaited, Written
    <3>2. U[y.place].to = First(C, U, c)
      BY <1>2, <2>3
    <3>3. CASE y.op = "br"
      <4>1. y.to[1] = c
        BY <2>0, <3>1, <3>3 DEF BranchOK
      <4> QED
        BY <3>2, <3>3, <4>1 DEF GoesOn, LeadsOn
    <3>4. CASE y.op = "condbr"
      <4>1. y.to[2] = c /\ y.to[1] # c
        BY <2>0, <3>1, <3>4 DEF BranchOK
      <4>2. ASSUME y.to[1] \notin R PROVE y.place + 1 = First(C, U, y.to[1])
        <5>1. y.to[1] \notin Pending(frames)
          BY <4>1, <4>2
        <5>2. y.place + 1 = First(blocks, tokens, y.to[1])
          BY <2>0, <3>4, <5>1 DEF LeadsOn
        <5>3. y.to[1] \in DOMAIN blocks
          <6>1. y \in Instructions /\ Len(y.to) = 2
            BY <2>0, <3>4, CodePlaces DEF BranchOK
          <6>2. 1 \in DOMAIN y.to
            BY <6>1 DEF Instructions
          <6>3. y.to[1] \in Range(y.to)
            BY <6>2 DEF Range
          <6> QED
            BY <6>3, CodePlaces
        <5>4. First(C, U, y.to[1]) = First(blocks, tokens, y.to[1])
          BY <1>1, <5>1, <5>3, PendingFacts, FirstKept
        <5> QED
          BY <5>2, <5>4
      <4> QED
        BY <3>2, <3>4, <4>1, <4>2 DEF GoesOn, LeadsOn
    <3> QED
      BY <2>3, <3>3, <3>4
  <2> QED
    BY <2>1, <2>2, <2>3
<1>4. SaysMore(tokens, U) /\ Len(U) = Len(tokens) + 1 /\ Said(ins, U)
  BY DEF Told
<1> QED
  BY <1>1, <1>3, <1>4 DEF Continues

\* Nothing branches to new blocks.
LEMMA NewUntargeted ==
  ASSUME IInv, phase = "emit", NEW c, c \notin DOMAIN blocks
  PROVE  Untargeted(blocks, c) /\ Sources(blocks, c) = {}
<1>1. blocks \in Blocks /\ BranchesOK(blocks, {insert})
  BY Emitting, PendingFacts
<1>2. DOMAIN blocks = 1 .. Len(blocks)
  BY <1>1, BlockFacts
<1>3. Untargeted(blocks, c)
  BY <1>1, <1>2 DEF Untargeted, BranchesOK, BranchOK
<1> QED
  BY <1>1, <1>3, CodeFacts

\* A block is awaited, or not, after the branch.
LEMMA AwaitedNew ==
  ASSUME IInv, phase = "emit", anchored,
         NEW C, NEW L, NEW ins, NEW op, NEW uses, NEW to, NEW n,
         Branches(C, L, ins, op, uses, to, n), op \in {"br", "condbr"},
         NEW U, Told(U, ins), NEW c, Untargeted(blocks, c),
         NEW w, c \in Range(to), Len(to) = w, to[w] = c,
         NEW x, x = Len(tokens) + 1
  PROVE  Awaited(C, U, x, w, c)
<1>1. /\ Code(C) = Code(blocks) \union {ins} /\ ins.place = x /\ x \notin DOMAIN tokens
      /\ ins.op = op /\ ins.to = to
  BY EmptyAfter DEF Branches
<1>2. x \in DOMAIN U
  BY DEF Told
<1>3. ASSUME NEW y \in Code(blocks)
      PROVE  c \notin Range(y.to) /\ ~ (y.op \in Written /\ y.place = x)
  <2>1. c \notin Range(y.to)
    BY DEF Untargeted
  <2>2. y.op \in Written => y.place \in DOMAIN tokens
    BY CodePlaces DEF Said
  <2> QED
    BY <1>1, <2>1, <2>2
<1>4. ins.op \in Written
  BY <1>1 DEF Written
<1> QED
  BY <1>1, <1>2, <1>3, <1>4 DEF Awaited

\* A block nothing branches to stays so unless the new branch names it.
LEMMA StillUntargeted ==
  ASSUME IInv, phase = "emit",
         NEW C, NEW L, NEW ins, NEW op, NEW uses, NEW to, NEW n,
         Branches(C, L, ins, op, uses, to, n),
         NEW c, Untargeted(blocks, c), c \notin Range(to)
  PROVE  Untargeted(C, c)
<1>1. Code(C) = Code(blocks) \union {ins} /\ ins.to = to
  BY EmptyAfter DEF Branches
<1> QED
  BY <1>1 DEF Untargeted

\* The builder ends its block with a branch to blocks of the top frame and to new ones,
\* and goes on in q.
Branched(C, L, ins, op, uses, to, n, q) ==
  /\ op \in {"br", "condbr"} /\ Branches(C, L, ins, op, uses, to, n) /\ BranchOK(ins, Len(C))
  /\ q \in Pending(frames) \union (DOMAIN C \ DOMAIN blocks)
  /\ \A c \in Range(to) \intersect DOMAIN blocks : \A i \in DOMAIN blocks[c] : blocks[c][i].op # "phi"
  /\ Range(to) \intersect Pending(frames) \subseteq Waiting(Top)

\* The top frame is another, or gone, and its results with it; q is not pending any more.
Restacked(G, S, C, q) ==
  /\ Retops(frames, G) /\ TopBuilt(G, Len(frames), S, C, q)
  /\ Pending(G) = (Pending(frames) \union (DOMAIN C \ DOMAIN blocks)) \ {q}
  /\ S \in Seq(Int) /\ Below(Top) <= Len(S) /\ \A j \in 1 .. Below(Top) : S[j] = results[j]

\* What is known and what the body says agree with it.
Explained(G, S, C, L, ins, q, U) ==
  /\ Learns(frames, G, Len(frames), results, S, Below(Top), blocks, C, known, L, insert, ins, q)
  /\ Continues(G, Len(frames), blocks, C, tokens, U, ins, Pending(frames), Pending(G))

\* The graph, its stacks and the body after a branch.
LEMMA MoveBuilt ==
  ASSUME IInv, phase = "emit",
         NEW C, NEW L, NEW ins, NEW op, NEW uses, NEW to, NEW n, NEW q,
         Branched(C, L, ins, op, uses, to, n, q),
         NEW G, NEW S, Restacked(G, S, C, q),
         NEW U, anchored => Explained(G, S, C, L, ins, q, U)
  PROVE  /\ Built(G, S, C, q, anchored)
         /\ anchored => Meant(G, S, C, L, U, q)
<1>0. /\ Branches(C, L, ins, op, uses, to, n) /\ BranchOK(ins, Len(C)) /\ op \in {"br", "condbr"}
      /\ q \in Pending(frames) \union (DOMAIN C \ DOMAIN blocks)
      /\ \A c \in Range(to) \intersect DOMAIN blocks : \A i \in DOMAIN blocks[c] : blocks[c][i].op # "phi"
      /\ Range(to) \intersect Pending(frames) \subseteq Waiting(Top)
  BY DEF Branched
<1>10. /\ Retops(frames, G) /\ TopBuilt(G, Len(frames), S, C, q)
       /\ Pending(G) = (Pending(frames) \union (DOMAIN C \ DOMAIN blocks)) \ {q}
       /\ S \in Seq(Int) /\ Below(Top) <= Len(S)
  BY DEF Restacked
<1>11. \A j \in 1 .. Below(Top) : S[j] = results[j]
  BY DEF Restacked
<1>1. Grows(blocks, C, insert, ins, n) /\ ins.op = op /\ ins.to = to
  BY <1>0 DEF Branches
<1>2. /\ Keeps(frames, G, Len(frames), results, S, Below(Top))
      /\ \A k \in DOMAIN G : k # Len(frames) =>
           Waiting(G[k]) \intersect Waiting(Top) = {} /\ Waiting(G[k]) \subseteq Pending(frames)
  BY <1>10, <1>11, MoveStacks
<1>3. \A k \in DOMAIN G : k # Len(frames) => Range(ins.to) \intersect Waiting(G[k]) = {}
  BY <1>0, <1>1, <1>2
<1>4. Moves(frames, G, Len(frames), results, S, Below(Top), blocks, C, insert, ins, n, q)
  BY <1>0, <1>1, <1>2, <1>3, <1>10 DEF Moves
<1>5. Built(frames, results, blocks, insert, anchored)
  BY Emitting
<1>6. Built(G, S, C, q, anchored)
  BY <1>4, <1>5, <1>10, BuiltMove
<1>7. ASSUME anchored PROVE Meant(G, S, C, L, U, q)
  <2>1. Meant(frames, results, blocks, known, tokens, insert)
    BY <1>7, Emitting
  <2>2. /\ Learns(frames, G, Len(frames), results, S, Below(Top), blocks, C, known, L, insert, ins, q)
        /\ Continues(G, Len(frames), blocks, C, tokens, U, ins, Pending(frames), Pending(G))
    BY <1>7 DEF Explained
  <2> QED
    BY <1>4, <1>5, <2>1, <2>2, MeantMove
<1> QED
  BY <1>6, <1>7

\* The new top frame.
LEMMA TopBuiltFacts ==
  ASSUME IInv, phase = "emit", NEW G, Retops(frames, G),
         NEW S \in Seq(Int), Below(Top) <= Len(S), \A j \in 1 .. Below(Top) : S[j] = results[j],
         NEW C, NEW q,
         Len(G) = Len(frames) =>
           LET g == G[Len(frames)] IN
           /\ Below(g) = Below(Top) /\ g.form = Top.form /\ FrameOK(g, S, C)
           /\ Waiting(g) \intersect Pending(frames) \subseteq Waiting(Top)
           /\ BlocksOK(g, C, Pending(G), q)
  PROVE  TopBuilt(G, Len(frames), S, C, q)
<1> SUFFICES ASSUME Len(frames) \in DOMAIN G
             PROVE  /\ FrameOK(G[Len(frames)], S, C) /\ (G[Len(frames)].form = "function" <=> Len(frames) = 1)
                    /\ \A k \in DOMAIN G : k # Len(frames) =>
                         /\ G[k].base <= Below(G[Len(frames)])
                         /\ Waiting(G[k]) \intersect Waiting(G[Len(frames)]) = {}
                    /\ BlocksOK(G[Len(frames)], C, Pending(G), q)
  BY DEF TopBuilt
<1>1. Len(G) = Len(frames)
  BY RetopsIndices
<1>2. \A k \in DOMAIN G : k # Len(frames) =>
        /\ Waiting(G[k]) \intersect Waiting(Top) = {} /\ Waiting(G[k]) \subseteq Pending(frames)
        /\ G[k].base <= Below(Top)
  BY MoveStacks
<1>3. Top.form = "function" <=> Len(frames) = 1
  BY TopFacts
<1> QED
  BY <1>1, <1>2, <1>3

\* After a branch the invariant holds.
LEMMA MoveEmits ==
  ASSUME IInv, phase = "emit", UNCHANGED <<phase, anchored, run>>, size' \in Nat,
         NEW n \in Nat, GraphTyped(blocks', known', n),
         insert' \in Pending(frames) \union (DOMAIN blocks' \ DOMAIN blocks),
         n = 0 => DOMAIN blocks' = DOMAIN blocks, DOMAIN blocks \subseteq DOMAIN blocks',
         placed' = DOMAIN blocks' \ Unplaced(frames'),
         Retops(frames, frames'), frames' # << >>, results' \in Seq(Int),
         tokens' \in Seq(Tokens),
         Built(frames', results', blocks', insert', anchored),
         anchored => Meant(frames', results', blocks', known', tokens', insert')
  PROVE  IInv'
<1>1. phase' = "emit" /\ anchored' = anchored /\ at' = at /\ ran' = ran /\ place' = place
  BY DEF run
<1>2. insert' \in DOMAIN blocks'
  BY PendingFacts
<1>3. blocks' \in Blocks /\ known' \in Seq(SUBSET Nat) /\ Len(known') = Len(blocks')
  BY DEF GraphTyped
<1>4. frames' \in Seq(Frames)
  BY DEF Retops
<1>5. TypeOK'
  BY <1>1, <1>2, <1>3, <1>4, Emitting DEF TypeOK
<1> QED
  BY <1>1, <1>5, Emits DEF run

\* And that token goes to z.
Tells(U, ins, z) == Told(U, ins) /\ U[Len(tokens) + 1].to = z

\* The token of a branch.
BranchToken(op, to) == Token(IF op = "br" THEN "jump" ELSE "test", Fresh(1), to)

\* The token of a branch says what the branch does.
LEMMA TellsPlain ==
  ASSUME TypeOK,
         NEW C, NEW L, NEW ins, NEW op \in {"br", "condbr"}, NEW uses, NEW to, NEW n,
         Branches(C, L, ins, op, uses, to, n),
         NEW token, NEW z \in Nat, token = BranchToken(op, z),
         NEW U, U = Append(tokens, token)
  PROVE  /\ Tells(U, ins, z)
         /\ \A x \in DOMAIN tokens : U[x] = tokens[x]
<1>1. PICK id \in Nat \ {0} : id = Fresh(1)
  BY FreshType
<1>2. /\ token \in Tokens /\ token.id = id /\ token.to = z
      /\ token.kind = IF op = "br" THEN "jump" ELSE "test"
  BY <1>1 DEF BranchToken, Token, Tokens
<1>3. ins.op = op /\ ins.id = id /\ ins.place = Len(tokens) + 1
  BY <1>1 DEF Branches
<1>4. /\ U \in Seq(Tokens) /\ Len(U) = Len(tokens) + 1 /\ SaysMore(tokens, U)
      /\ U[Len(U)] = token /\ Len(tokens) + 1 \in DOMAIN U
  BY <1>2, TokenFacts
<1>5. \A x \in DOMAIN tokens : U[x] = tokens[x]
  BY <1>2, TokenFacts
<1>6. Said(ins, U)
  BY <1>2, <1>3, <1>4 DEF Said
<1> QED
  BY <1>2, <1>4, <1>5, <1>6 DEF Told, Tells

\* The token of a branch is written and the target of an earlier one is set.
PatchesTo(U, op, z, x, y) == Patches(U, BranchToken(op, z), x, y)

\* The graph has a branch whose token goes to z, and token x goes to y from then on.
Retells(ins, U, z, x, y) ==
  \E C, L, op, uses, to, n :
    /\ op \in {"br", "condbr"} /\ Branches(C, L, ins, op, uses, to, n)
    /\ PatchesTo(U, op, z, x, y)

\* Token x goes to y, and the other tokens go where they went.
Retold(U, x, y) ==
  /\ \A a \in DOMAIN tokens : a # x => U[a] = tokens[a]
  /\ U[x].to = y

\* It does so too when the target of an earlier token is set with it.
LEMMA TellsPatched ==
  ASSUME TypeOK, NEW ins, NEW z \in Nat, NEW x \in DOMAIN tokens, NEW y \in Nat,
         NEW U, Retells(ins, U, z, x, y)
  PROVE  Tells(U, ins, z) /\ Retold(U, x, y)
<1>8. PICK C, L, op, uses, to, n :
        /\ op \in {"br", "condbr"} /\ Branches(C, L, ins, op, uses, to, n)
        /\ PatchesTo(U, op, z, x, y)
  BY DEF Retells
<1> DEFINE token == BranchToken(op, z)
<1>1. PICK id \in Nat \ {0} : id = Fresh(1)
  BY FreshType
<1>2. /\ token \in Tokens /\ token.id = id /\ token.to = z
      /\ token.kind = IF op = "br" THEN "jump" ELSE "test"
  BY <1>1 DEF BranchToken, Token, Tokens
<1>3. ins.op = op /\ ins.id = id /\ ins.place = Len(tokens) + 1
  BY <1>1, <1>8 DEF Branches
<1>7. Patches(U, token, x, y)
  BY <1>8 DEF PatchesTo
<1> HIDE DEF token
<1>4. /\ U \in Seq(Tokens) /\ Len(U) = Len(tokens) + 1 /\ SaysMore(tokens, U)
      /\ U[Len(U)] = token /\ Len(tokens) + 1 \in DOMAIN U /\ U[x].to = y
  BY <1>2, <1>7, PatchFacts
<1>5. \A a \in DOMAIN tokens : a # x => U[a] = tokens[a]
  BY <1>2, <1>7, PatchFacts
<1>6. Said(ins, U)
  BY <1>2, <1>3, <1>4, <1>8 DEF Said
<1> QED
  BY <1>2, <1>4, <1>5, <1>6 DEF Told, Tells, Retold

\* Three new blocks.
LEMMA NewBlocks ==
  ASSUME IInv, phase = "emit",
         NEW C, NEW L, NEW ins, NEW op, NEW uses, NEW to,
         Branches(C, L, ins, op, uses, to, 3), NEW l, l = Len(blocks)
  PROVE  /\ l \in Nat /\ l >= 1 /\ Len(C) = l + 3 /\ DOMAIN C = 1 .. l + 3 /\ DOMAIN blocks = 1 .. l
         /\ DOMAIN C \ DOMAIN blocks = {l + 1, l + 2, l + 3}
         /\ Entry \notin {l + 1, l + 2, l + 3}
<1>1. Grows(blocks, C, insert, ins, 3)
  BY DEF Branches
<1>2. l \in Nat /\ Len(C) = l + 3 /\ DOMAIN C = 1 .. l + 3 /\ DOMAIN blocks = 1 .. l
  BY <1>1, GrowsDomain
<1>3. l >= 1
  BY <1>2, PendingFacts DEF Entry
<1>4. (1 .. l + 3) \ (1 .. l) = {l + 1, l + 2, l + 3}
  BY <1>2
<1>5. 1 \notin {l + 1, l + 2, l + 3}
  BY <1>2, <1>3
<1> QED
  BY <1>2, <1>3, <1>4, <1>5 DEF Entry

\* Lists of one block, and of two.
LEMMA OnePlace ==
  ASSUME NEW a \in Nat
  PROVE  BlockList(<<a>>) /\ Range(<<a>>) = {a} /\ Len(<<a>>) = 1 /\ <<a>>[1] = a
<1>1. DOMAIN <<a>> = {1} /\ <<a>>[1] = a
  OBVIOUS
<1> QED
  BY <1>1 DEF BlockList, Range

\* A list of two blocks, element by element.
LEMMA TwoPlaces ==
  ASSUME NEW a \in Nat, NEW b \in Nat
  PROVE  /\ BlockList(<<a, b>>) /\ Range(<<a, b>>) = {a, b} /\ Len(<<a, b>>) = 2
         /\ <<a, b>>[1] = a /\ <<a, b>>[2] = b
<1>1. DOMAIN <<a, b>> = {1, 2} /\ <<a, b>>[1] = a /\ <<a, b>>[2] = b
  OBVIOUS
<1> QED
  BY <1>1 DEF BlockList, Range

\* g is the top frame with three new blocks.
Makes(g, stage, l, test, mark) ==
  g = [Top EXCEPT !.stage = stage, !.blocks = <<l + 1, l + 2, l + 3>>,
                  !.test = test, !.mark = mark]

\* What it is then.
IsNew(g, stage, l, test, mark) ==
  /\ g \in Frames /\ g.form = Top.form /\ g.stage = stage /\ g.base = Top.base
  /\ g.locals = Top.locals /\ g.test = test /\ g.mark = mark /\ Below(g) = Top.base
  /\ g.blocks[1] = l + 1 /\ g.blocks[2] = l + 2 /\ g.blocks[3] = l + 3
  /\ stage = "cond" => Waiting(g) = {l + 1, l + 3}
  /\ stage = "then" => Waiting(g) = {l + 2, l + 3}
  /\ HasBlocks(g)

\* A frame that has just made three blocks.
LEMMA NewTop ==
  ASSUME IInv, phase = "emit",
         NEW C, NEW L, NEW ins, NEW op, NEW uses, NEW to,
         Branches(C, L, ins, op, uses, to, 3), NEW l, l = Len(blocks),
         NEW stage \in {"cond", "then"}, NEW test \in Nat, NEW mark \in Nat,
         Top.form \in {"for", "if"}, Top.form = "for" <=> stage = "cond",
         NEW S \in Seq(Int), Top.base <= Len(S),
         NEW g, Makes(g, stage, l, test, mark)
  PROVE  IsNew(g, stage, l, test, mark) /\ FrameOK(g, S, C)
<1> DEFINE new == <<l + 1, l + 2, l + 3>>
<1>1. /\ l \in Nat /\ l >= 1 /\ Len(C) = l + 3 /\ Entry \notin {l + 1, l + 2, l + 3}
      /\ Grows(blocks, C, insert, ins, 3)
  BY NewBlocks DEF Branches
<1>2. Top \in Frames /\ FrameOK(Top, results, blocks)
  BY TopFacts
<1>3. /\ new \in Seq(Nat) /\ Len(new) = 3 /\ Range(new) = {l + 1, l + 2, l + 3}
      /\ new[1] = l + 1 /\ new[2] = l + 2 /\ new[3] = l + 3
  BY <1>1 DEF Range
<1> HIDE DEF new
<1>4. /\ g \in Frames /\ g.form = Top.form /\ g.stage = stage /\ g.base = Top.base
      /\ g.locals = Top.locals /\ g.test = test /\ g.mark = mark /\ g.blocks = new
      /\ g.anchor = Top.anchor
  BY <1>2, <1>3 DEF Frames, Makes, new
<1>5. Below(g) = Top.base
  BY <1>4 DEF Below
<1>6. /\ stage = "cond" => Waiting(g) = {l + 1, l + 3}
      /\ stage = "then" => Waiting(g) = {l + 2, l + 3}
  BY <1>3, <1>4 DEF Waiting
<1>7. HasBlocks(g)
  BY <1>4 DEF HasBlocks, Looping
<1>8. FrameOK(g, S, C)
  <2>1. FormOK(g)
    BY <1>4 DEF FormOK
  <2>2. g.anchor # AtEnd => \E i \in DOMAIN C[Entry] : C[Entry][i].id = g.anchor
    <3>1. FrameOK(Top, S, C)
      BY <1>1, <1>2, GrowsWider, FrameKept
    <3> QED
      BY <1>4, <3>1 DEF FrameOK
  <2>3. l + 1 # l + 3 /\ l + 2 # l + 3 /\ {l + 1, l + 2, l + 3} \subseteq 1 .. Len(C)
    BY <1>1
  <2> QED
    BY <1>1, <1>3, <1>4, <2>1, <2>2, <2>3 DEF FrameOK
<1> QED
  BY <1>3, <1>4, <1>5, <1>6, <1>7, <1>8 DEF IsNew

\* The bindings of a for are over: three blocks, and a branch to the condition.
LEMMA BeginLoopStep == ASSUME IInv, BeginLoop PROVE IInv'
<1> DEFINE m == Len(frames)
           g == [Top EXCEPT !.stage = "cond", !.blocks = <<Len(blocks) + 1, Len(blocks) + 2, Len(blocks) + 3>>,
                            !.mark = Len(tokens) + 2]
<1>1. /\ phase = "emit" /\ Top.form = "for" /\ Top.stage = "bind" /\ Delivered = 0
      /\ Branch("br", << >>, <<Len(blocks) + 2>>, Len(blocks) + 2, 3)
      /\ placed' = placed \union {Len(blocks) + 1, Len(blocks) + 2, Len(blocks) + 3}
      /\ tokens' = Append(tokens, Jump(Fresh(1), Len(tokens) + 2))
      /\ results' = results /\ size' = size
      /\ UNCHANGED <<phase, anchored, run>>
  BY DEF BeginLoop
<1>2. frames' = [frames EXCEPT ![m] = g]
  <2>1. Top = frames[m] /\ m \in DOMAIN frames
    BY <1>1, TopFacts
  <2> QED
    BY <2>1 DEF BeginLoop
<1>3. /\ TypeOK /\ blocks \in Blocks /\ frames \in Seq(Frames) /\ frames # << >> /\ results \in Seq(Int)
      /\ tokens \in Seq(Tokens) /\ placed = DOMAIN blocks \ Unplaced(frames)
  BY <1>1, Emitting
<1>4. PICK l \in Nat : l = Len(blocks)
  BY <1>3, BlockFacts
<1>5. PICK z \in Nat : z = Len(tokens)
  BY <1>3
<1> DEFINE op == "br"
           uses == << >>
           to == <<l + 2>>
<1>6. /\ op \in {"br", "condbr"} /\ uses \in Uses /\ BlockList(to) /\ Range(uses) = {} /\ Range(to) = {l + 2}
      /\ Len(to) = 1 /\ to[1] = l + 2 /\ op = "br"
  <2>1. l + 2 \in Nat
    BY <1>4
  <2>2. BlockList(to) /\ Range(to) = {l + 2} /\ Len(to) = 1 /\ to[1] = l + 2
    BY <2>1, OnePlace
  <2>3. uses \in Uses /\ Range(uses) = {}
    BY NoUses
  <2> QED
    BY <2>2, <2>3
<1>7. Branch(op, uses, to, l + 2, 3)
  BY <1>1, <1>4
<1>8. insert' = l + 2
  BY <1>1, <1>4 DEF Branch
<1> HIDE DEF op, uses, to
<1>9. PICK ins : Branches(blocks', known', ins, op, uses, to, 3) /\ GraphTyped(blocks', known', 3)
  BY <1>3, <1>6, <1>7, Branching
<1>10. ins.op = "br" /\ ins.to = to /\ ins.place = z + 1
  BY <1>5, <1>6, <1>9 DEF Branches
<1>11. /\ l >= 1 /\ Len(blocks') = l + 3 /\ DOMAIN blocks' = 1 .. l + 3 /\ DOMAIN blocks = 1 .. l
       /\ DOMAIN blocks' \ DOMAIN blocks = {l + 1, l + 2, l + 3}
       /\ Entry \notin {l + 1, l + 2, l + 3}
  BY <1>1, <1>4, <1>9, NewBlocks
<1>12. /\ Top.base = Len(results) /\ Top \in Frames /\ Below(Top) = Top.base /\ ~ HasBlocks(Top)
       /\ Waiting(Top) = {} /\ DOMAIN results = 1 .. Below(Top) /\ Top.base \in Nat
  <2>1. ~ HasBlocks(Top)
    BY <1>1 DEF HasBlocks, Looping
  <2>2. PICK r \in Nat : r = Len(results) /\ DOMAIN results = 1 .. r /\ Top.base \in Nat /\ Delivered = r - Top.base
    BY <1>1, TopFacts
  <2>3. Top.base = r
    BY <1>1, <2>2
  <2> QED
    BY <1>1, <2>1, <2>2, <2>3, NoBlocks, TopFacts DEF Below
<1> DEFINE stage == "cond"
<1>13. Makes(g, stage, l, Top.test, z + 2)
  BY <1>4, <1>5, <1>12 DEF Frames, Makes
<1>14. /\ g \in Frames /\ g.form = "for" /\ g.stage = "cond" /\ g.base = Top.base
       /\ g.locals = Top.locals /\ g.mark = z + 2 /\ Below(g) = Top.base
       /\ g.blocks[1] = l + 1 /\ g.blocks[2] = l + 2 /\ g.blocks[3] = l + 3
       /\ Waiting(g) = {l + 1, l + 3} /\ HasBlocks(g) /\ FrameOK(g, results, blocks')
  <2>0. stage \in {"cond", "then"} /\ stage = "cond" /\ Top.test \in Nat /\ z + 2 \in Nat /\ Top.base <= Len(results)
    BY <1>12, <1>5 DEF Frames
  <2>5. PICK test \in Nat : test = Top.test
    BY <2>0
  <2>6. PICK mark \in Nat : mark = z + 2
    BY <2>0
  <2>3. Makes(g, stage, l, test, mark)
    BY <1>13, <2>5, <2>6
  <2> HIDE DEF stage, g
  <2>4. Top.form \in {"for", "if"} /\ (Top.form = "for" <=> stage = "cond")
    BY <1>1, <2>0
  <2>7. phase = "emit" /\ results \in Seq(Int) /\ Branches(blocks', known', ins, op, uses, to, 3)
    BY <1>1, <1>3, <1>9
  <2>2. IsNew(g, stage, l, test, mark) /\ FrameOK(g, results, blocks')
    BY <1>4, <2>0, <2>3, <2>4, <2>7, NewTop
  <2> QED
    BY <1>1, <2>0, <2>2, <2>6 DEF IsNew
<1> HIDE DEF g
<1>15. Retops(frames, frames') /\ Len(frames') = m /\ frames'[m] = g
  BY <1>2, <1>3, <1>14, TopRetops
<1>16. Below(Top) <= Len(results) /\ Below(Top) \in Nat /\ m \in DOMAIN frames' /\ frames' # << >>
  <2>1. m \in DOMAIN frames'
    BY <1>15, RetopsIndices
  <2> QED
    BY <1>12, <2>1
<1>17. /\ \A j \in 1 .. Below(Top) : ThenValue(frames, j) => ThenValue(frames', j)
       /\ Pending(frames') = Pending(frames) \union {l + 1, l + 3}
       /\ Unplaced(frames') = Unplaced(frames)
  BY <1>1, <1>3, <1>12, <1>14, <1>15, <1>16, MoveStacks
<1>18. Pending(frames) \subseteq 1 .. l /\ Unplaced(frames) \subseteq Pending(frames)
  BY <1>1, <1>11, PendingFacts DEF Pending, Unplaced
<1>19. l + 1 \notin 1 .. l /\ l + 2 \notin 1 .. l /\ l + 3 \notin 1 .. l /\ l + 2 # l + 1 /\ l + 2 # l + 3
       /\ l + 2 \in 1 .. l + 3
  BY <1>11
<1>20. insert' \in DOMAIN blocks' \ DOMAIN blocks /\ insert' \notin Pending(frames')
       /\ Pending(frames') = (Pending(frames) \union (DOMAIN blocks' \ DOMAIN blocks)) \ {insert'}
  BY <1>8, <1>11, <1>17, <1>18, <1>19
<1>21. blocks'[l + 2] = << >> /\ DOMAIN blocks'[l + 2] = {}
  BY <1>1, <1>9, <1>11, EmptyAfter
<1>22. TopBuilt(frames', m, results', blocks', insert')
  <2>1. BlocksOK(g, blocks', Pending(frames'), insert')
    BY <1>8, <1>14, <1>20, <1>21 DEF BlocksOK, Looping
  <2>2. Waiting(g) \intersect Pending(frames) \subseteq Waiting(Top)
    BY <1>14, <1>18, <1>19
  <2> QED
    BY <1>1, <1>3, <1>12, <1>14, <1>15, <1>16, <2>1, <2>2, TopBuiltFacts
<1>23. BranchOK(ins, Len(blocks'))
  BY <1>6, <1>10, <1>11, <1>19 DEF BranchOK, Entry
<1>24. ASSUME anchored
       PROVE  Learns(frames, frames', m, results, results', Below(Top), blocks, blocks', known, known',
                     insert, ins, insert')
  <2>1. \A i \in 1 .. 3 : g.blocks[i] \in DOMAIN blocks' \ DOMAIN blocks
    BY <1>11, <1>14
  <2>2. Range(uses) \subseteq MadeIn(blocks, known, insert) \union {Constant}
    BY <1>6
  <2>3. Range(to) \subseteq DOMAIN blocks' \ DOMAIN blocks
    BY <1>6, <1>11
  <2>4. insert' \in DOMAIN blocks' \ DOMAIN blocks
    BY <1>20
  <2>5. g.stage # "else" /\ Below(g) = Below(Top) /\ g.locals = Top.locals
    BY <1>12, <1>14
  <2> QED
    BY <1>1, <1>3, <1>9, <1>12, <1>15, <1>17, <1>24, <2>1, <2>2, <2>3, <2>4, <2>5, LearnsNew
<1>25. Told(tokens', ins) /\ tokens'[z + 1].to = z + 2 /\ \A x \in DOMAIN tokens : tokens'[x] = tokens[x]
  <2> DEFINE token == BranchToken(op, z + 2)
  <2>1. tokens' = Append(tokens, token)
    BY <1>1, <1>5, <1>6 DEF BranchToken, Jump
  <2>2. z + 2 \in Nat
    BY <1>5
  <2>3. PICK u : u = token
    OBVIOUS
  <2> HIDE DEF token
  <2>4. tokens' = Append(tokens, u) /\ u = BranchToken(op, z + 2)
    BY <2>1, <2>3 DEF token
  <2>5. Tells(tokens', ins, z + 2)
    BY <1>3, <1>6, <1>9, <2>2, <2>4, TellsPlain
  <2>6. \A x \in DOMAIN tokens : tokens'[x] = tokens[x]
    BY <1>3, <1>6, <1>9, <2>2, <2>4, TellsPlain
  <2> QED
    BY <1>5, <2>5, <2>6 DEF Tells
<1>26. First(blocks', tokens', l + 2) = z + 2
  <2>1. Len(tokens') = z + 1
    BY <1>5, <1>25 DEF Told
  <2> QED
    BY <1>21, <2>1, FirstEmpty
<1>27. ASSUME anchored
       PROVE  Continues(frames', m, blocks, blocks', tokens, tokens', ins, Pending(frames), Pending(frames'))
  <2>1. LeadsOn(ins, blocks', tokens', Pending(frames'))
    BY <1>6, <1>10, <1>25, <1>26 DEF LeadsOn
  <2>2. \A y \in Code(blocks) : Range(y.to) \intersect Pending(frames) \subseteq Pending(frames')
    BY <1>17
  <2>3. Untargeted(blocks', l + 1) /\ Untargeted(blocks', l + 3)
    <3>1. Untargeted(blocks, l + 1) /\ Untargeted(blocks, l + 3)
      BY <1>1, <1>11, <1>19, NewUntargeted
    <3>2. l + 1 \notin Range(to) /\ l + 3 \notin Range(to)
      BY <1>6, <1>19
    <3> QED
      BY <1>1, <1>9, <3>1, <3>2, StillUntargeted
  <2>4. FramePlace(g, blocks', tokens')
    BY <1>14, <1>26, <2>3 DEF FramePlace, Looping
  <2> QED
    BY <1>1, <1>9, <1>15, <1>25, <1>27, <2>1, <2>2, <2>4, ContinuesPlain
<1>28. /\ Built(frames', results', blocks', insert', anchored)
       /\ anchored => Meant(frames', results', blocks', known', tokens', insert')
  <2>1. \A c \in Range(to) \intersect DOMAIN blocks : \A i \in DOMAIN blocks[c] : blocks[c][i].op # "phi"
    BY <1>6, <1>11, <1>19
  <2>2. Range(to) \intersect Pending(frames) \subseteq Waiting(Top)
    BY <1>6, <1>18, <1>19
  <2>3. insert' \in Pending(frames) \union (DOMAIN blocks' \ DOMAIN blocks)
    BY <1>20
  <2>4. PICK n : Branches(blocks', known', ins, op, uses, to, n)
    BY <1>9
  <2>5. Branched(blocks', known', ins, op, uses, to, n, insert')
    BY <2>4, <1>6, <1>23, <2>1, <2>2, <2>3 DEF Branched
  <2>6. Restacked(frames', results', blocks', insert')
    BY <1>1, <1>3, <1>15, <1>16, <1>20, <1>22, <1>23 DEF Restacked
  <2>7. anchored => Explained(frames', results', blocks', known', ins, insert', tokens')
    BY <1>24, <1>27 DEF Explained
  <2> QED
    BY <1>1, <2>5, <2>6, <2>7, MoveBuilt
<1>29. placed' = DOMAIN blocks' \ Unplaced(frames')
  BY <1>1, <1>3, <1>4, <1>11, <1>17, <1>18, <1>19
<1>30. size' \in Nat /\ tokens' \in Seq(Tokens)
  BY <1>1, <1>3, <1>25 DEF TypeOK, Told
<1>31. DOMAIN blocks \subseteq DOMAIN blocks' /\ 3 \in Nat
  BY <1>11
<1> QED
  BY <1>1, <1>3, <1>9, <1>15, <1>16, <1>20, <1>28, <1>29, <1>30, <1>31, MoveEmits

\* A condition is the one value of its frame.
LEMMA ConditionFacts ==
  ASSUME IInv, phase = "emit", Top.stage \in {"cond", "body", "then", "bind"}, Delivered = 1,
         NEW S, S = Front(results)
  PROVE  /\ Below(Top) = Top.base /\ Below(Top) \in Nat /\ S \in Seq(Int) /\ Below(Top) <= Len(S)
         /\ DOMAIN S = 1 .. Below(Top) /\ Top.base <= Len(S)
         /\ \A j \in 1 .. Below(Top) : S[j] = results[j]
<1>1. Below(Top) = Top.base /\ Top.base \in Nat
  BY TopFacts DEF Below
<1>2. PICK l \in Nat : l = Len(results) /\ Delivered = l - Top.base
  BY TopFacts
<1>3. Top.base = l - 1
  BY <1>1, <1>2
<1>4. /\ S \in Seq(Int) /\ Len(S) = l - 1 /\ \A j \in 1 .. l - 1 : S[j] = results[j]
  BY <1>2, LastResult
<1>5. DOMAIN S = 1 .. l - 1
  BY <1>1, <1>3, <1>4
<1> QED
  BY <1>1, <1>2, <1>3, <1>4, <1>5

\* The condition is a value there is.
LEMMA ConditionUses ==
  ASSUME IInv, phase = "emit", Delivered = 1, Last(results) # NoValue
  PROVE  /\ <<Last(results)>> \in Uses
         /\ anchored => Range(<<Last(results)>>) \subseteq MadeIn(blocks, known, insert) \union {Constant}
<1>1. PICK v \in Int : v = Last(results) /\ v # NoValue
  BY LastResult
<1>2. anchored => Available(v, MadeIn(blocks, known, insert))
  BY <1>1, LastResult
<1>3. <<v>> \in Uses /\ Range(<<v>>) = {v}
  BY <1>1, UsesType
<1> QED
  BY <1>1, <1>2, <1>3 DEF Available

\* The condition of an if is compiled: three blocks, and a branch to two of them.
LEMMA BranchIfStep == ASSUME IInv, BranchIf PROVE IInv'
<1> DEFINE m == Len(frames)
           g == [Top EXCEPT !.stage = "then", !.blocks = <<Len(blocks) + 1, Len(blocks) + 2, Len(blocks) + 3>>,
                            !.test = Len(tokens) + 1]
<1>1. /\ phase = "emit" /\ Top.form = "if" /\ Top.stage = "cond" /\ Delivered = 1
      /\ Last(results) # NoValue
      /\ Branch("condbr", <<Last(results)>>, <<Len(blocks) + 1, Len(blocks) + 2>>, Len(blocks) + 1, 3)
      /\ placed' = placed \union {Len(blocks) + 1}
      /\ tokens' = Append(tokens, Test(Fresh(1)))
      /\ results' = Front(results) /\ size' = size
      /\ UNCHANGED <<phase, anchored, run>>
  BY DEF BranchIf
<1>2. frames' = [frames EXCEPT ![m] = g]
  <2>1. Top = frames[m] /\ m \in DOMAIN frames
    BY <1>1, TopFacts
  <2> QED
    BY <2>1 DEF BranchIf
<1>3. /\ TypeOK /\ blocks \in Blocks /\ frames \in Seq(Frames) /\ frames # << >> /\ results \in Seq(Int)
      /\ tokens \in Seq(Tokens) /\ placed = DOMAIN blocks \ Unplaced(frames)
  BY <1>1, Emitting
<1>4. PICK l \in Nat : l = Len(blocks)
  BY <1>3, BlockFacts
<1>5. PICK z \in Nat : z = Len(tokens)
  BY <1>3
<1> DEFINE op == "condbr"
           uses == <<Last(results)>>
           to == <<l + 1, l + 2>>
<1>6. /\ op \in {"br", "condbr"} /\ uses \in Uses /\ BlockList(to) /\ Range(to) = {l + 1, l + 2}
      /\ Len(to) = 2 /\ to[1] = l + 1 /\ to[2] = l + 2 /\ op = "condbr"
      /\ anchored => Range(uses) \subseteq MadeIn(blocks, known, insert) \union {Constant}
  <2>1. l + 1 \in Nat /\ l + 2 \in Nat
    BY <1>4
  <2>2. BlockList(to) /\ Range(to) = {l + 1, l + 2} /\ Len(to) = 2 /\ to[1] = l + 1 /\ to[2] = l + 2
    BY <2>1, TwoPlaces
  <2>3. uses \in Uses /\ (anchored => Range(uses) \subseteq MadeIn(blocks, known, insert) \union {Constant})
    BY <1>1, ConditionUses
  <2> QED
    BY <2>2, <2>3
<1>7. Branch(op, uses, to, l + 1, 3)
  BY <1>1, <1>4
<1>8. insert' = l + 1
  BY <1>1, <1>4 DEF Branch
<1> HIDE DEF op, uses, to
<1>9. PICK ins : Branches(blocks', known', ins, op, uses, to, 3) /\ GraphTyped(blocks', known', 3)
  BY <1>3, <1>6, <1>7, Branching
<1>10. ins.op = "condbr" /\ ins.to = to /\ ins.place = z + 1
  BY <1>5, <1>6, <1>9 DEF Branches
<1>11. /\ l >= 1 /\ Len(blocks') = l + 3 /\ DOMAIN blocks' = 1 .. l + 3 /\ DOMAIN blocks = 1 .. l
       /\ DOMAIN blocks' \ DOMAIN blocks = {l + 1, l + 2, l + 3}
       /\ Entry \notin {l + 1, l + 2, l + 3}
  BY <1>1, <1>4, <1>9, NewBlocks
<1>12. /\ Top \in Frames /\ Below(Top) = Top.base /\ ~ HasBlocks(Top) /\ Waiting(Top) = {}
       /\ results' \in Seq(Int) /\ DOMAIN results' = 1 .. Below(Top) /\ Below(Top) \in Nat
       /\ Below(Top) <= Len(results') /\ Top.base <= Len(results')
       /\ \A j \in 1 .. Below(Top) : results'[j] = results[j]
  <2>1. ~ HasBlocks(Top)
    BY <1>1 DEF HasBlocks, Looping
  <2>2. /\ Below(Top) = Top.base /\ results' \in Seq(Int) /\ DOMAIN results' = 1 .. Below(Top)
        /\ Below(Top) <= Len(results') /\ Top.base <= Len(results') /\ Below(Top) \in Nat
    BY <1>1, ConditionFacts
  <2>3. \A j \in 1 .. Below(Top) : results'[j] = results[j]
    BY <1>1, ConditionFacts
  <2> QED
    BY <1>1, <2>1, <2>2, <2>3, NoBlocks, TopFacts
<1> DEFINE stage == "then"
<1>13. Makes(g, stage, l, z + 1, Top.mark)
  BY <1>4, <1>5, <1>12 DEF Frames, Makes
<1>14. /\ g \in Frames /\ g.form = "if" /\ g.stage = "then" /\ g.base = Top.base
       /\ g.locals = Top.locals /\ g.test = z + 1 /\ Below(g) = Top.base
       /\ g.blocks[1] = l + 1 /\ g.blocks[2] = l + 2 /\ g.blocks[3] = l + 3
       /\ Waiting(g) = {l + 2, l + 3} /\ HasBlocks(g) /\ FrameOK(g, results', blocks')
  <2>0. stage \in {"cond", "then"} /\ stage = "then" /\ Top.mark \in Nat /\ z + 1 \in Nat
    BY <1>12, <1>5 DEF Frames
  <2>1. PICK mark \in Nat : mark = Top.mark
    BY <2>0
  <2>2. PICK test \in Nat : test = z + 1
    BY <2>0
  <2>3. Makes(g, stage, l, test, mark)
    BY <1>13, <2>1, <2>2
  <2> HIDE DEF stage, g
  <2>4. Top.form \in {"for", "if"} /\ (Top.form = "for" <=> stage = "cond")
    BY <1>1, <2>0
  <2>5. /\ phase = "emit" /\ results' \in Seq(Int) /\ Top.base <= Len(results')
        /\ Branches(blocks', known', ins, op, uses, to, 3)
    BY <1>1, <1>9, <1>12
  <2>6. IsNew(g, stage, l, test, mark) /\ FrameOK(g, results', blocks')
    BY <1>4, <2>0, <2>3, <2>4, <2>5, NewTop
  <2> QED
    BY <1>1, <2>0, <2>2, <2>6 DEF IsNew
<1> HIDE DEF g
<1>15. Retops(frames, frames') /\ Len(frames') = m /\ frames'[m] = g
  BY <1>2, <1>3, <1>14, TopRetops
<1>16. m \in DOMAIN frames' /\ frames' # << >>
  <2>1. m \in DOMAIN frames'
    BY <1>15, RetopsIndices
  <2> QED
    BY <2>1
<1>17. /\ \A j \in 1 .. Below(Top) : ThenValue(frames, j) => ThenValue(frames', j)
       /\ Pending(frames') = Pending(frames) \union {l + 2, l + 3}
       /\ Unplaced(frames') = Unplaced(frames) \union {l + 2, l + 3}
  BY <1>1, <1>12, <1>14, <1>15, MoveStacks
<1>18. Pending(frames) \subseteq 1 .. l /\ Unplaced(frames) \subseteq Pending(frames)
  BY <1>1, <1>11, PendingFacts DEF Pending, Unplaced
<1>19. /\ l + 1 \notin 1 .. l /\ l + 2 \notin 1 .. l /\ l + 3 \notin 1 .. l /\ l + 1 # l + 2 /\ l + 1 # l + 3
       /\ l + 2 # l + 3 /\ l + 1 \in 1 .. l + 3 /\ l + 2 \in 1 .. l + 3
  BY <1>11
<1>20. insert' \in DOMAIN blocks' \ DOMAIN blocks /\ insert' \notin Pending(frames')
       /\ Pending(frames') = (Pending(frames) \union (DOMAIN blocks' \ DOMAIN blocks)) \ {insert'}
  BY <1>8, <1>11, <1>17, <1>18, <1>19
<1>21. blocks'[l + 1] = << >>
  BY <1>1, <1>9, <1>11, EmptyAfter
<1>22. TopBuilt(frames', m, results', blocks', insert')
  <2>1. BlocksOK(g, blocks', Pending(frames'), insert')
    <3>1. Sources(blocks, l + 3) = {}
      BY <1>1, <1>11, <1>19, NewUntargeted
    <3>2. l + 3 \notin Range(ins.to)
      BY <1>6, <1>10, <1>19
    <3>3. Sources(blocks', l + 3) = {}
      BY <1>9, <3>1, <3>2, GrowsCode DEF Branches
    <3> QED
      BY <1>14, <3>3 DEF BlocksOK, Looping
  <2>2. Waiting(g) \intersect Pending(frames) \subseteq Waiting(Top)
    BY <1>14, <1>18, <1>19
  <2> QED
    BY <1>1, <1>12, <1>14, <1>15, <1>16, <2>1, <2>2, TopBuiltFacts
<1>23. BranchOK(ins, Len(blocks'))
  BY <1>6, <1>10, <1>11, <1>19 DEF BranchOK, Entry
<1>24. ASSUME anchored
       PROVE  Learns(frames, frames', m, results, results', Below(Top), blocks, blocks', known, known',
                     insert, ins, insert')
  <2>1. \A i \in 1 .. 3 : g.blocks[i] \in DOMAIN blocks' \ DOMAIN blocks
    BY <1>11, <1>14
  <2>2. Range(uses) \subseteq MadeIn(blocks, known, insert) \union {Constant}
    BY <1>6, <1>24
  <2>3. Range(to) \subseteq DOMAIN blocks' \ DOMAIN blocks
    BY <1>6, <1>11
  <2>4. insert' \in DOMAIN blocks' \ DOMAIN blocks
    BY <1>20
  <2>5. g.stage # "else" /\ Below(g) = Below(Top) /\ g.locals = Top.locals
    BY <1>12, <1>14
  <2> QED
    BY <1>1, <1>9, <1>12, <1>15, <1>17, <1>24, <2>1, <2>2, <2>3, <2>4, <2>5, LearnsNew
<1>25. Told(tokens', ins) /\ \A x \in DOMAIN tokens : tokens'[x] = tokens[x]
  <2> DEFINE zero == 0
             token == BranchToken(op, zero)
  <2>1. tokens' = Append(tokens, token) /\ zero \in Nat
    BY <1>1, <1>5, <1>6 DEF BranchToken, Test
  <2>3. PICK u : u = token
    OBVIOUS
  <2> HIDE DEF token, zero
  <2>4. tokens' = Append(tokens, u) /\ u = BranchToken(op, zero)
    BY <2>1, <2>3 DEF token
  <2>5. Tells(tokens', ins, zero)
    BY <1>3, <1>6, <1>9, <2>1, <2>4, TellsPlain
  <2>6. \A x \in DOMAIN tokens : tokens'[x] = tokens[x]
    BY <1>3, <1>6, <1>9, <2>1, <2>4, TellsPlain
  <2> QED
    BY <2>5, <2>6 DEF Tells
<1>26. First(blocks', tokens', l + 1) = z + 2
  <2>1. Len(tokens') = z + 1
    BY <1>5, <1>25 DEF Told
  <2> QED
    BY <1>21, <2>1, FirstEmpty
<1>27. ASSUME anchored
       PROVE  Continues(frames', m, blocks, blocks', tokens, tokens', ins, Pending(frames), Pending(frames'))
  <2>1. LeadsOn(ins, blocks', tokens', Pending(frames'))
    BY <1>6, <1>10, <1>17, <1>26 DEF LeadsOn
  <2>2. \A y \in Code(blocks) : Range(y.to) \intersect Pending(frames) \subseteq Pending(frames')
    BY <1>17
  <2>3. Awaited(blocks', tokens', z + 1, 2, l + 2) /\ Untargeted(blocks', l + 3)
    <3>1. Untargeted(blocks, l + 2) /\ Untargeted(blocks, l + 3)
      BY <1>1, <1>11, <1>19, NewUntargeted
    <3>2. l + 2 \in Range(to) /\ l + 3 \notin Range(to)
      BY <1>6, <1>19
    <3>3. Untargeted(blocks', l + 3)
      BY <1>1, <1>9, <3>1, <3>2, StillUntargeted
    <3>4. PICK x \in Nat : x = Len(tokens) + 1 /\ x = z + 1
      BY <1>5
    <3>5. PICK w : w = 2
      OBVIOUS
    <3>6. Len(to) = w /\ to[w] = l + 2
      BY <1>6, <3>5
    <3>7. Awaited(blocks', tokens', x, w, l + 2)
      BY <1>1, <1>6, <1>9, <1>25, <1>27, <3>1, <3>2, <3>4, <3>6, AwaitedNew
    <3> QED
      BY <3>3, <3>4, <3>5, <3>7
  <2>4. FramePlace(g, blocks', tokens')
    BY <1>14, <2>3 DEF FramePlace, Looping
  <2> QED
    BY <1>1, <1>9, <1>15, <1>25, <1>27, <2>1, <2>2, <2>4, ContinuesPlain
<1>28. /\ Built(frames', results', blocks', insert', anchored)
       /\ anchored => Meant(frames', results', blocks', known', tokens', insert')
  <2>1. \A c \in Range(to) \intersect DOMAIN blocks : \A i \in DOMAIN blocks[c] : blocks[c][i].op # "phi"
    BY <1>6, <1>11, <1>19
  <2>2. Range(to) \intersect Pending(frames) \subseteq Waiting(Top)
    BY <1>6, <1>18, <1>19
  <2>3. insert' \in Pending(frames) \union (DOMAIN blocks' \ DOMAIN blocks)
    BY <1>20
  <2>4. PICK n : Branches(blocks', known', ins, op, uses, to, n)
    BY <1>9
  <2>5. Branched(blocks', known', ins, op, uses, to, n, insert')
    BY <2>4, <1>6, <1>23, <1>24, <2>1, <2>2, <2>3 DEF Branched
  <2>6. Restacked(frames', results', blocks', insert')
    BY <1>12, <1>15, <1>16, <1>20, <1>22 DEF Restacked
  <2>7. anchored => Explained(frames', results', blocks', known', ins, insert', tokens')
    BY <1>24, <1>27 DEF Explained
  <2> QED
    BY <1>1, <2>5, <2>6, <2>7, MoveBuilt
<1>29. placed' = DOMAIN blocks' \ Unplaced(frames')
  BY <1>1, <1>3, <1>4, <1>11, <1>17, <1>18, <1>19
<1>30. size' \in Nat /\ tokens' \in Seq(Tokens)
  BY <1>1, <1>3, <1>25 DEF TypeOK, Told
<1>31. DOMAIN blocks \subseteq DOMAIN blocks' /\ 3 \in Nat /\ results' \in Seq(Int)
  BY <1>11, <1>12
<1>32. phase = "emit" /\ UNCHANGED <<phase, anchored, run>>
  BY <1>1
<1>33. insert' \in Pending(frames) \union (DOMAIN blocks' \ DOMAIN blocks)
  BY <1>20
<1>34. PICK n \in Nat : GraphTyped(blocks', known', n) /\ n # 0
  BY <1>9
<1> QED
  BY <1>15, <1>16, <1>28, <1>29, <1>30, <1>31, <1>32, <1>33, <1>34, MoveEmits

\* No new blocks.
LEMMA SameBlocks ==
  ASSUME IInv, phase = "emit",
         NEW C, NEW L, NEW ins, NEW op, NEW uses, NEW to,
         Branches(C, L, ins, op, uses, to, 0)
  PROVE  /\ DOMAIN C = DOMAIN blocks /\ Len(C) = Len(blocks) /\ DOMAIN blocks = 1 .. Len(blocks)
         /\ Len(blocks) \in Nat /\ Grows(blocks, C, insert, ins, 0) /\ Wider(blocks, C)
         /\ ins.op = op /\ ins.to = to /\ ins.uses = uses /\ ins.place = Len(tokens) + 1
<1>1. Grows(blocks, C, insert, ins, 0)
  BY DEF Branches
<1>2. Len(C) = Len(blocks) + 0
  BY <1>1 DEF Grows
<1> QED
  BY <1>1, <1>2, GrowsDomain, GrowsWider DEF Branches

\* The blocks of the top frame.
LEMMA TopBlocks ==
  ASSUME IInv, phase = "emit", HasBlocks(Top)
  PROVE  /\ Top.blocks[1] \in DOMAIN blocks /\ Top.blocks[2] \in DOMAIN blocks
         /\ Top.blocks[3] \in DOMAIN blocks
         /\ Top.blocks[1] # Top.blocks[3] /\ Top.blocks[2] # Top.blocks[3]
         /\ Top.blocks[2] # Entry /\ Top.blocks[3] # Entry
         /\ Top.stage # "else" => Top.blocks[1] # Entry
         /\ Top.blocks \in Seq(Nat) /\ Len(Top.blocks) = 3 /\ DOMAIN Top.blocks = 1 .. 3
         /\ Top.blocks[1] \in Nat /\ Top.blocks[2] \in Nat /\ Top.blocks[3] \in Nat
         /\ Waiting(Top) \subseteq Pending(frames)
<1>1. Top \in Frames /\ FrameOK(Top, results, blocks) /\ Top = frames[Len(frames)]
      /\ Len(frames) \in DOMAIN frames
  BY TopFacts
<1>2. Top.blocks \in Seq(Nat) /\ blocks \in Blocks
  BY <1>1, Emitting DEF Frames
<1>3. /\ Top.blocks[1] \in DOMAIN blocks /\ Top.blocks[2] \in DOMAIN blocks
      /\ Top.blocks[3] \in DOMAIN blocks
      /\ Top.blocks[1] # Top.blocks[3] /\ Top.blocks[2] # Top.blocks[3]
      /\ Top.blocks[2] # Entry /\ Top.blocks[3] # Entry
      /\ Top.stage # "else" => Top.blocks[1] # Entry
  BY <1>1, <1>2, FrameBlocks
<1>4. Len(Top.blocks) = 3
  BY <1>1 DEF FrameOK
<1>5. DOMAIN Top.blocks = 1 .. 3
  BY <1>2, <1>4
<1>6. Top.blocks[1] \in Nat /\ Top.blocks[2] \in Nat /\ Top.blocks[3] \in Nat
  BY <1>2, <1>5
<1>7. Waiting(Top) \subseteq Pending(frames)
  BY <1>1 DEF Pending
<1> QED
  BY <1>2, <1>3, <1>4, <1>5, <1>6, <1>7

\* What the top frame knows of its places.
LEMMA TopPlace ==
  ASSUME IInv, phase = "emit", anchored
  PROVE  FramePlace(Top, blocks, tokens)
<1>1. \A k \in DOMAIN frames : FramePlace(frames[k], blocks, tokens)
  BY Emitting DEF Meant
<1> QED
  BY <1>1, TopFacts

\* A block that is not pending begins where it began.
LEMMA FirstSame ==
  ASSUME IInv, phase = "emit",
         NEW C, NEW L, NEW ins, NEW op, NEW uses, NEW to, NEW n,
         Branches(C, L, ins, op, uses, to, n),
         NEW c \in DOMAIN blocks, c \notin Pending(frames), NEW U
  PROVE  First(C, U, c) = First(blocks, tokens, c)
<1>1. Grows(blocks, C, insert, ins, n) /\ ins.place = Len(tokens) + 1
  BY DEF Branches
<1> QED
  BY <1>1, PendingFacts, FirstKept

\* The condition of a for is compiled: to the body, or behind the loop.
LEMMA BranchLoopStep == ASSUME IInv, BranchLoop PROVE IInv'
<1> DEFINE m == Len(frames)
           g == [Top EXCEPT !.stage = "body", !.test = Len(tokens) + 1]
           b1 == Top.blocks[1]
           b2 == Top.blocks[2]
           b3 == Top.blocks[3]
<1>1. /\ phase = "emit" /\ Top.form = "for" /\ Top.stage = "cond" /\ Delivered = 1
      /\ Last(results) # NoValue
      /\ Branch("condbr", <<Last(results)>>, <<b1, b3>>, b1, 0)
      /\ tokens' = Append(tokens, Test(Fresh(1)))
      /\ results' = Front(results) /\ size' = size /\ placed' = placed
      /\ UNCHANGED <<phase, anchored, run>>
  BY DEF BranchLoop
<1>2. frames' = [frames EXCEPT ![m] = g]
  <2>1. Top = frames[m] /\ m \in DOMAIN frames
    BY <1>1, TopFacts
  <2> QED
    BY <2>1 DEF BranchLoop
<1>3. /\ TypeOK /\ blocks \in Blocks /\ frames \in Seq(Frames) /\ frames # << >> /\ results \in Seq(Int)
      /\ tokens \in Seq(Tokens) /\ placed = DOMAIN blocks \ Unplaced(frames)
  BY <1>1, Emitting
<1>4. HasBlocks(Top) /\ Looping(Top) /\ Waiting(Top) = {b1, b3}
  BY <1>1 DEF HasBlocks, Looping, Waiting
<1>5. PICK z \in Nat : z = Len(tokens)
  BY <1>3
<1> HIDE DEF b1, b2, b3
<1>6. /\ b1 \in DOMAIN blocks /\ b2 \in DOMAIN blocks /\ b3 \in DOMAIN blocks
      /\ b1 # b3 /\ b2 # b3 /\ b1 # Entry /\ b2 # Entry /\ b3 # Entry
      /\ b1 \in Nat /\ b2 \in Nat /\ b3 \in Nat /\ b1 \in Pending(frames) /\ b3 \in Pending(frames)
  BY <1>1, <1>4, TopBlocks DEF b1, b2, b3
<1> DEFINE op == "condbr"
           uses == <<Last(results)>>
           to == <<b1, b3>>
<1>7. /\ op \in {"br", "condbr"} /\ uses \in Uses /\ BlockList(to) /\ Range(to) = {b1, b3}
      /\ Len(to) = 2 /\ to[1] = b1 /\ to[2] = b3 /\ op = "condbr"
      /\ anchored => Range(uses) \subseteq MadeIn(blocks, known, insert) \union {Constant}
  <2>1. BlockList(to) /\ Range(to) = {b1, b3} /\ Len(to) = 2 /\ to[1] = b1 /\ to[2] = b3
    BY <1>6, TwoPlaces
  <2>2. uses \in Uses /\ (anchored => Range(uses) \subseteq MadeIn(blocks, known, insert) \union {Constant})
    BY <1>1, ConditionUses
  <2> QED
    BY <2>1, <2>2
<1>8. Branch(op, uses, to, b1, 0) /\ insert' = b1
  BY <1>1 DEF Branch
<1> HIDE DEF op, uses, to
<1>9. PICK ins : Branches(blocks', known', ins, op, uses, to, 0) /\ GraphTyped(blocks', known', 0)
  BY <1>3, <1>7, <1>8, Branching
<1>10. /\ DOMAIN blocks' = DOMAIN blocks /\ Len(blocks') = Len(blocks) /\ DOMAIN blocks = 1 .. Len(blocks)
       /\ Grows(blocks, blocks', insert, ins, 0) /\ Wider(blocks, blocks')
       /\ ins.op = "condbr" /\ ins.to = to /\ ins.place = z + 1
  BY <1>1, <1>5, <1>7, <1>9, SameBlocks
<1>11. /\ Top \in Frames /\ Below(Top) = Top.base /\ FrameOK(Top, results, blocks)
       /\ results' \in Seq(Int) /\ DOMAIN results' = 1 .. Below(Top) /\ Below(Top) \in Nat
       /\ Below(Top) <= Len(results') /\ Top.base <= Len(results')
       /\ \A j \in 1 .. Below(Top) : results'[j] = results[j]
  <2>1. /\ Below(Top) = Top.base /\ results' \in Seq(Int) /\ DOMAIN results' = 1 .. Below(Top)
        /\ Below(Top) <= Len(results') /\ Top.base <= Len(results') /\ Below(Top) \in Nat
    BY <1>1, ConditionFacts
  <2>2. \A j \in 1 .. Below(Top) : results'[j] = results[j]
    BY <1>1, ConditionFacts
  <2> QED
    BY <1>1, <2>1, <2>2, TopFacts
<1>12. /\ g \in Frames /\ g.form = "for" /\ g.stage = "body" /\ g.base = Top.base
       /\ g.locals = Top.locals /\ g.test = z + 1 /\ g.mark = Top.mark /\ g.blocks = Top.blocks
       /\ g.anchor = Top.anchor
  <2>1. z + 1 \in Nat /\ Top \in Frames
    BY <1>5, <1>11
  <2>2. PICK x \in Nat : x = z + 1 /\ g = [Top EXCEPT !.stage = "body", !.test = x]
    BY <1>5, <2>1
  <2>3. /\ g \in Frames /\ g.form = Top.form /\ g.stage = "body" /\ g.base = Top.base
        /\ g.locals = Top.locals /\ g.test = x /\ g.mark = Top.mark /\ g.blocks = Top.blocks
        /\ g.anchor = Top.anchor
    BY <2>1, <2>2 DEF Frames
  <2> QED
    BY <1>1, <2>2, <2>3
<1>13. g.blocks[1] = b1 /\ g.blocks[2] = b2 /\ g.blocks[3] = b3
  BY <1>12 DEF b1, b2, b3
<1> HIDE DEF g
<1>14. Below(g) = Below(Top) /\ Waiting(g) = {b3} /\ HasBlocks(g) /\ Looping(g)
  BY <1>11, <1>12, <1>13 DEF Below, Waiting, HasBlocks, Looping
<1>15. FrameOK(g, results', blocks')
  <2>1. FrameOK(Top, results', blocks')
    BY <1>10, <1>11, FrameKept
  <2> QED
    BY <1>1, <1>4, <1>12, <2>1 DEF FrameOK, FormOK
<1>16. Retops(frames, frames') /\ Len(frames') = m /\ frames'[m] = g
  BY <1>2, <1>3, <1>12, TopRetops
<1>17. m \in DOMAIN frames' /\ frames' # << >>
  <2>1. m \in DOMAIN frames'
    BY <1>16, RetopsIndices
  <2> QED
    BY <2>1
<1>18. /\ \A j \in 1 .. Below(Top) : ThenValue(frames, j) => ThenValue(frames', j)
       /\ Pending(frames') = (Pending(frames) \ {b1, b3}) \union {b3}
       /\ Unplaced(frames') = Unplaced(frames)
  <2>1. /\ phase = "emit" /\ Retops(frames, frames') /\ results' \in Seq(Int)
        /\ Below(Top) <= Len(results')
    BY <1>1, <1>11, <1>16
  <2>2. \A j \in 1 .. Below(Top) : results'[j] = results[j]
    BY <1>11
  <2>3. Len(frames') = Len(frames) /\ frames'[Len(frames)] = g
    BY <1>2, <1>16
  <2>4. Waiting(Top) = {b1, b3} /\ Waiting(g) = {b3} /\ Top.form # "if" /\ g.form # "if"
    BY <1>1, <1>4, <1>12, <1>14
  <2>5. \A j \in 1 .. Below(Top) : ThenValue(frames, j) => ThenValue(frames', j)
    BY <2>1, <2>2, MoveStacks
  <2>6. Pending(frames') = (Pending(frames) \ Waiting(Top))
                             \union (IF Len(frames') = Len(frames) THEN Waiting(frames'[Len(frames)]) ELSE {})
    BY <2>1, <2>2, MoveStacks
  <2>7. Unplaced(frames') = (Unplaced(frames) \ (IF Top.form = "if" THEN Waiting(Top) ELSE {}))
                              \union (IF Len(frames') = Len(frames) /\ frames'[Len(frames)].form = "if"
                                      THEN Waiting(frames'[Len(frames)]) ELSE {})
    BY <2>1, <2>2, MoveStacks
  <2>8. Pending(frames') = (Pending(frames) \ {b1, b3}) \union {b3}
    BY <2>3, <2>4, <2>6
  <2>9. Unplaced(frames') = Unplaced(frames)
    BY <2>3, <2>4, <2>7
  <2> QED
    BY <2>5, <2>8, <2>9
<1>19. /\ insert' \in Pending(frames)
       /\ Pending(frames') = (Pending(frames) \union (DOMAIN blocks' \ DOMAIN blocks)) \ {insert'}
       /\ Pending(frames') = Pending(frames) \ {b1}
  BY <1>6, <1>8, <1>10, <1>18
<1>20. blocks'[b1] = << >>
  BY <1>1, <1>6, <1>9, EmptyAfter
<1>21. b2 \notin Pending(frames) /\ \A i \in DOMAIN blocks[b2] : blocks[b2][i].op # "phi"
  BY <1>1, <1>4, PendingFacts DEF BlocksOK, b2
<1>22. TopBuilt(frames', m, results', blocks', insert')
  <2>1. BlocksOK(g, blocks', Pending(frames'), insert')
    <3>1. \A i \in DOMAIN blocks'[b2] : blocks'[b2][i].op # "phi"
      BY <1>6, <1>10, <1>21, GrowsFacts
    <3>2. b2 # insert' /\ b2 \notin Pending(frames')
      BY <1>6, <1>8, <1>19, <1>21
    <3> QED
      BY <1>12, <1>13, <3>1, <3>2 DEF BlocksOK
  <2>2. Waiting(g) \intersect Pending(frames) \subseteq Waiting(Top)
    BY <1>4, <1>14
  <2> QED
    BY <1>1, <1>11, <1>12, <1>14, <1>15, <1>16, <2>1, <2>2, TopBuiltFacts
<1>23. BranchOK(ins, Len(blocks'))
  BY <1>6, <1>7, <1>10 DEF BranchOK
<1>24. ASSUME anchored
       PROVE  Learns(frames, frames', m, results, results', Below(Top), blocks, blocks', known, known',
                     insert, ins, insert')
  <2>1. LevelOK(Top, frames, results, blocks, known, insert)
    BY <1>1, <1>24, LevelFacts
  <2>2. \A c \in Range(to) \union {insert'} : c \in DOMAIN blocks /\ known[c] = Level(Top, known)
    BY <1>4, <1>6, <1>7, <1>8, <2>1 DEF LevelOK, Level, b1, b3
  <2>3. Range(uses) \subseteq MadeIn(blocks, known, insert) \union {Constant}
    BY <1>7, <1>24
  <2>4. TopStays(frames', results', blocks', known')
    BY <1>4, <1>12, <1>14, <1>16 DEF TopStays
  <2>5. \A j \in DOMAIN results' : j \in 1 .. Below(Top) \/ ThenValue(frames', j) \/ results'[j] = NoValue
    BY <1>11
  <2> QED
    BY <1>1, <1>4, <1>9, <1>11, <1>16, <1>18, <1>24, <2>2, <2>3, <2>4, <2>5, LearnsOld
<1>25. Told(tokens', ins) /\ \A x \in DOMAIN tokens : tokens'[x] = tokens[x]
  <2> DEFINE zero == 0
             token == BranchToken(op, zero)
  <2>1. tokens' = Append(tokens, token) /\ zero \in Nat
    BY <1>1, <1>5, <1>7 DEF BranchToken, Test
  <2>3. PICK u : u = token
    OBVIOUS
  <2> HIDE DEF token, zero
  <2>4. tokens' = Append(tokens, u) /\ u = BranchToken(op, zero)
    BY <2>1, <2>3 DEF token
  <2>5. Tells(tokens', ins, zero)
    BY <1>3, <1>7, <1>9, <2>1, <2>4, TellsPlain
  <2>6. \A x \in DOMAIN tokens : tokens'[x] = tokens[x]
    BY <1>3, <1>7, <1>9, <2>1, <2>4, TellsPlain
  <2> QED
    BY <2>5, <2>6 DEF Tells
<1>26. First(blocks', tokens', b1) = z + 2
  <2>1. Len(tokens') = z + 1
    BY <1>5, <1>25 DEF Told
  <2> QED
    BY <1>20, <2>1, FirstEmpty
<1>27. ASSUME anchored
       PROVE  Continues(frames', m, blocks, blocks', tokens, tokens', ins, Pending(frames), Pending(frames'))
  <2>0. /\ First(blocks, tokens, b2) = Top.mark /\ Untargeted(blocks, b1) /\ Untargeted(blocks, b3)
    BY <1>1, <1>4, <1>27, TopPlace DEF FramePlace, b1, b2, b3
  <2>1. LeadsOn(ins, blocks', tokens', Pending(frames'))
    BY <1>7, <1>10, <1>18, <1>26 DEF LeadsOn
  <2>2. \A y \in Code(blocks) : Range(y.to) \intersect Pending(frames) \subseteq Pending(frames')
    BY <1>19, <2>0 DEF Untargeted
  <2>3. Awaited(blocks', tokens', z + 1, 2, b3)
    <3>1. PICK x \in Nat : x = Len(tokens) + 1 /\ x = z + 1
      BY <1>5
    <3>2. PICK w : w = 2
      OBVIOUS
    <3>3. Len(to) = w /\ to[w] = b3 /\ b3 \in Range(to)
      BY <1>7, <3>2
    <3>4. Awaited(blocks', tokens', x, w, b3)
      BY <1>1, <1>7, <1>9, <1>25, <1>27, <2>0, <3>1, <3>3, AwaitedNew
    <3> QED
      BY <3>1, <3>2, <3>4
  <2>4. First(blocks', tokens', b2) = Top.mark
    BY <1>1, <1>6, <1>9, <1>21, <2>0, FirstSame
  <2>5. FramePlace(g, blocks', tokens')
    BY <1>12, <1>13, <2>3, <2>4 DEF FramePlace, Looping
  <2> QED
    BY <1>1, <1>9, <1>16, <1>25, <1>27, <2>1, <2>2, <2>5, ContinuesPlain
<1>28. /\ Built(frames', results', blocks', insert', anchored)
       /\ anchored => Meant(frames', results', blocks', known', tokens', insert')
  <2>1. \A c \in Range(to) \intersect DOMAIN blocks : \A i \in DOMAIN blocks[c] : blocks[c][i].op # "phi"
    BY <1>1, <1>6, <1>7, PendingFacts
  <2>2. Range(to) \intersect Pending(frames) \subseteq Waiting(Top)
    BY <1>4, <1>7
  <2>3. insert' \in Pending(frames) \union (DOMAIN blocks' \ DOMAIN blocks)
    BY <1>19
  <2>4. /\ phase = "emit" /\ op \in {"br", "condbr"} /\ results' \in Seq(Int) /\ Below(Top) <= Len(results')
    BY <1>1, <1>7, <1>11
  <2>6. PICK n : Branches(blocks', known', ins, op, uses, to, n)
    BY <1>9
  <2>5. \A j \in 1 .. Below(Top) : results'[j] = results[j]
    BY <1>11
  <2>7. Branched(blocks', known', ins, op, uses, to, n, insert')
    BY <1>23, <2>1, <2>2, <2>3, <2>4, <2>6 DEF Branched
  <2>8. Restacked(frames', results', blocks', insert')
    BY <1>16, <1>19, <1>22, <2>4, <2>5 DEF Restacked
  <2>9. anchored => Explained(frames', results', blocks', known', ins, insert', tokens')
    BY <1>24, <1>27 DEF Explained
  <2> QED
    BY <1>1, <2>7, <2>8, <2>9, MoveBuilt
<1>29. placed' = DOMAIN blocks' \ Unplaced(frames')
  BY <1>1, <1>3, <1>10, <1>18
<1>30. size' \in Nat /\ tokens' \in Seq(Tokens)
  BY <1>1, <1>3, <1>25 DEF TypeOK, Told
<1>31. DOMAIN blocks' = DOMAIN blocks /\ 0 \in Nat /\ results' \in Seq(Int)
  BY <1>10, <1>11
<1>32. phase = "emit" /\ UNCHANGED <<phase, anchored, run>>
  BY <1>1
<1>33. PICK n \in Nat : GraphTyped(blocks', known', n)
  BY <1>9
<1> QED
  BY <1>16, <1>17, <1>19, <1>28, <1>29, <1>30, <1>31, <1>32, <1>33, MoveEmits

\* A frame that ends is not the function's.
LEMMA PopFacts ==
  ASSUME IInv, phase = "emit", Top.form # "function", NEW G, G = Front(frames)
  PROVE  /\ Retops(frames, G) /\ Len(G) = Len(frames) - 1 /\ Len(G) # Len(frames)
         /\ G # << >> /\ Len(frames) \notin DOMAIN G
<1>1. /\ frames \in Seq(Frames) /\ frames # << >> /\ Len(frames) \in Nat /\ Len(frames) # 1
      /\ Len(frames) >= 1
  BY Emitting, TopFacts
<1>2. Retops(frames, G) /\ Len(G) = Len(frames) - 1
  BY <1>1, PopRetops
<1>3. Len(G) # Len(frames) /\ Len(G) # 0
  BY <1>1, <1>2
<1>4. G # << >>
  BY <1>3
<1>5. Len(frames) \notin DOMAIN G
  BY <1>2, <1>3, RetopsIndices
<1> QED
  BY <1>2, <1>3, <1>4, <1>5

\* One value takes the place of the last d.
Replaces(S, d, v) == S = Append(DropLast(results, d), v)

\* The last d values are those of the top node's children.
Delivers(d) == Len(results) - d = Below(Top)

\* A node that ends leaves one value in place of those of its children.
LEMMA DeliverOne ==
  ASSUME IInv, phase = "emit", NEW d \in Nat, Delivers(d), NEW v \in Int,
         NEW S, Replaces(S, d, v)
  PROVE  /\ S \in Seq(Int) /\ Below(Top) <= Len(S) /\ Below(Top) \in Nat
         /\ \A j \in 1 .. Below(Top) : S[j] = results[j]
         /\ \A j \in DOMAIN S : j \in 1 .. Below(Top) \/ S[j] = v
<1>1. PICK n \in Nat : n = Len(results)
  BY TopFacts
<1>2. PICK r \in Nat : r = Below(Top)
  BY TopFacts
<1>3. r = n - d
  BY <1>1, <1>2 DEF Delivers
<1>4. d <= n
  BY <1>3
<1>5. /\ S \in Seq(Int) /\ Len(S) = n - d + 1
      /\ \A j \in 1 .. n - d : S[j] = results[j]
      /\ \A j \in DOMAIN S : (j \in DOMAIN results /\ j <= n - d /\ S[j] = results[j]) \/ S[j] = v
  BY <1>1, <1>4, ReplaceResults DEF Replaces
<1>6. DOMAIN results = 1 .. n
  BY <1>1, TopFacts
<1>7. r <= Len(S)
  BY <1>3, <1>4, <1>5
<1>8. \A j \in DOMAIN S : j \in 1 .. r \/ S[j] = v
  BY <1>3, <1>5, <1>6
<1>9. \A j \in 1 .. r : S[j] = results[j]
  BY <1>3, <1>5
<1>10. S \in Seq(Int)
  BY <1>5
<1> QED
  BY <1>2, <1>7, <1>8, <1>9, <1>10

\* A patched body is a body.
LEMMA PatchType ==
  ASSUME TypeOK, NEW op \in {"br", "condbr"}, NEW z \in Nat,
         NEW x, NEW y \in Nat, NEW U, PatchesTo(U, op, z, x, y)
  PROVE  U \in Seq(Tokens)
<1>1. PICK token \in Tokens : token = BranchToken(op, z)
  <2>1. PICK id \in Nat \ {0} : id = Fresh(1)
    BY FreshType
  <2>2. BranchToken(op, z) \in Tokens
    BY <2>1 DEF BranchToken, Token, Tokens
  <2> QED
    BY <2>2
<1>2. PICK T \in Seq(Tokens) : T = Append(tokens, token)
  BY AppendProperties DEF TypeOK
<1>3. U = [T EXCEPT ![x].to = y]
  BY <1>1, <1>2 DEF Patches, PatchesTo
<1>4. CASE x \in DOMAIN T
  <2>1. PICK l \in Nat : l = Len(T) /\ DOMAIN T = 1 .. l
    BY LenProperties
  <2>2. T[x] \in Tokens
    BY <1>4, ElementOfSeq, <2>1
  <2>3. PICK other \in Tokens : other = [T[x] EXCEPT !.to = y]
    BY <2>2 DEF Tokens
  <2>4. U = [T EXCEPT ![x] = other]
    BY <1>3, <2>3
  <2>5. T \in [1 .. l -> Tokens]
    BY <2>1
  <2>6. U \in [1 .. l -> Tokens]
    BY <2>4, <2>5
  <2> QED
    BY <2>6, SeqDef
<1>5. CASE x \notin DOMAIN T
  <2>1. U = T
    BY <1>2, <1>3, <1>5
  <2> QED
    BY <1>2, <2>1
<1> QED
  BY <1>4, <1>5

\* The body of a loop goes back to its condition, and control goes on behind the loop.
LEMMA CloseLoopStep == ASSUME IInv, CloseLoop PROVE IInv'
<1> DEFINE m == Len(frames)
           b1 == Top.blocks[1]
           b2 == Top.blocks[2]
           b3 == Top.blocks[3]
<1>1. /\ phase = "emit" /\ Top.form = "for" /\ Top.stage = "body" /\ Delivered >= 1
      /\ Branch("br", << >>, <<b2>>, b3, 0)
      /\ Patches(tokens', Jump(Fresh(1), Top.mark), Top.test, Len(tokens) + 2)
      /\ Replaces(results', Delivered, NoValue) /\ size' = size /\ placed' = placed
      /\ frames' = Front(frames)
      /\ UNCHANGED <<phase, anchored, run>>
  BY DEF CloseLoop, Patches, Replaces
<1>2. phase = "emit" /\ UNCHANGED <<phase, anchored, run>>
  BY <1>1
<1>3. /\ TypeOK /\ blocks \in Blocks /\ frames \in Seq(Frames) /\ frames # << >> /\ results \in Seq(Int)
      /\ tokens \in Seq(Tokens) /\ placed = DOMAIN blocks \ Unplaced(frames)
  BY <1>2, Emitting
<1>4. HasBlocks(Top) /\ Looping(Top) /\ Waiting(Top) = {b3} /\ Below(Top) = Top.base
      /\ Top.mark \in Nat /\ Top.test \in Nat
  BY <1>1, TopFacts DEF HasBlocks, Looping, Waiting, Below, Frames
<1>5. PICK z \in Nat : z = Len(tokens)
  BY <1>3
<1> HIDE DEF b1, b2, b3
<1>6. /\ b2 \in DOMAIN blocks /\ b3 \in DOMAIN blocks
      /\ b2 # b3 /\ b2 # Entry /\ b3 # Entry /\ b2 \in Nat /\ b3 \in Nat /\ b3 \in Pending(frames)
  BY <1>2, <1>4, TopBlocks DEF b2, b3
<1> DEFINE op == "br"
           uses == << >>
           to == <<b2>>
<1>7. /\ op \in {"br", "condbr"} /\ uses \in Uses /\ BlockList(to) /\ Range(uses) = {} /\ Range(to) = {b2}
      /\ Len(to) = 1 /\ to[1] = b2 /\ op = "br"
  <2>1. BlockList(to) /\ Range(to) = {b2} /\ Len(to) = 1 /\ to[1] = b2
    BY <1>6, OnePlace
  <2>2. uses \in Uses /\ Range(uses) = {}
    BY NoUses
  <2> QED
    BY <2>1, <2>2
<1>8. Branch(op, uses, to, b3, 0) /\ insert' = b3
  BY <1>1 DEF Branch
<1>9. PatchesTo(tokens', op, Top.mark, Top.test, z + 2)
  BY <1>1, <1>5 DEF BranchToken, Jump, PatchesTo
<1> HIDE DEF op, uses, to
<1>10. PICK ins : Branches(blocks', known', ins, op, uses, to, 0) /\ GraphTyped(blocks', known', 0)
  BY <1>3, <1>7, <1>8, Branching
<1>11. /\ DOMAIN blocks' = DOMAIN blocks /\ Len(blocks') = Len(blocks) /\ DOMAIN blocks = 1 .. Len(blocks)
       /\ ins.op = "br" /\ ins.to = to /\ ins.place = z + 1
  BY <1>2, <1>5, <1>7, <1>10, SameBlocks
<1>12. /\ Retops(frames, frames') /\ Len(frames') # m /\ frames' # << >> /\ m \notin DOMAIN frames'
  BY <1>1, PopFacts
<1>13. /\ results' \in Seq(Int) /\ Below(Top) <= Len(results') /\ Below(Top) \in Nat
       /\ \A j \in 1 .. Below(Top) : results'[j] = results[j]
       /\ \A j \in DOMAIN results' : j \in 1 .. Below(Top) \/ results'[j] = NoValue
  <2>1. PICK n \in Nat, r \in Nat : n = Len(results) /\ r = Below(Top) /\ Delivered = n - r /\ r <= n
    BY <1>2, <1>4, TopFacts
  <2>2. PICK d \in Nat : d = Delivered /\ n - d = r
    BY <2>1
  <2>3. PICK v \in Int : v = NoValue
    BY DEF NoValue
  <2>4. Replaces(results', d, v) /\ Delivers(d)
    BY <1>1, <2>1, <2>2, <2>3 DEF Delivers
  <2>5. results' \in Seq(Int) /\ Below(Top) <= Len(results') /\ Below(Top) \in Nat
    BY <1>2, <2>4, DeliverOne
  <2>6. \A j \in 1 .. Below(Top) : results'[j] = results[j]
    BY <1>2, <2>4, DeliverOne
  <2>7. \A j \in DOMAIN results' : j \in 1 .. Below(Top) \/ results'[j] = v
    BY <1>2, <2>4, DeliverOne
  <2> QED
    BY <2>3, <2>5, <2>6, <2>7
<1>14. /\ \A j \in 1 .. Below(Top) : ThenValue(frames, j) => ThenValue(frames', j)
       /\ Pending(frames') = Pending(frames) \ {b3}
       /\ Unplaced(frames') = Unplaced(frames)
  BY <1>1, <1>4, <1>12, <1>13, MoveStacks
<1>15. /\ insert' \in Pending(frames)
       /\ Pending(frames') = (Pending(frames) \union (DOMAIN blocks' \ DOMAIN blocks)) \ {insert'}
  BY <1>6, <1>8, <1>11, <1>14
<1>16. b2 \notin Pending(frames) /\ \A i \in DOMAIN blocks[b2] : blocks[b2][i].op # "phi"
  BY <1>2, <1>4, PendingFacts DEF BlocksOK, b2
<1>17. TopBuilt(frames', m, results', blocks', insert')
  BY <1>2, <1>12, <1>13, TopBuiltFacts
<1>18. BranchOK(ins, Len(blocks'))
  BY <1>6, <1>7, <1>11 DEF BranchOK
<1>19. ASSUME anchored
       PROVE  Learns(frames, frames', m, results, results', Below(Top), blocks, blocks', known, known',
                     insert, ins, insert')
  <2>1. LevelOK(Top, frames, results, blocks, known, insert)
    BY <1>2, <1>19, LevelFacts
  <2>2. \A c \in Range(to) \union {insert'} : c \in DOMAIN blocks /\ known[c] = Level(Top, known)
    BY <1>4, <1>6, <1>7, <1>8, <2>1 DEF LevelOK, Level, b2, b3
  <2>3. Range(uses) \subseteq MadeIn(blocks, known, insert) \union {Constant}
    BY <1>7
  <2>4. \A j \in DOMAIN results' : j \in 1 .. Below(Top) \/ ThenValue(frames', j) \/ results'[j] = NoValue
    BY <1>13
  <2>5. TopStays(frames', results', blocks', known')
    BY <1>12 DEF TopStays
  <2> QED
    BY <1>2, <1>4, <1>10, <1>12, <1>13, <1>14, <1>19, <2>2, <2>3, <2>4, <2>5, LearnsOld
<1>20. ASSUME anchored
       PROVE  Continues(frames', m, blocks, blocks', tokens, tokens', ins, Pending(frames), Pending(frames'))
  <2>1. /\ First(blocks, tokens, b2) = Top.mark /\ Awaited(blocks, tokens, Top.test, 2, b3)
    BY <1>1, <1>2, <1>4, <1>20, TopPlace DEF FramePlace, b2, b3
  <2> DEFINE mark == Top.mark
             x == Top.test
             y == z + 2
  <2>2. mark \in Nat /\ y \in Nat
    BY <1>4, <1>5
  <2>5. x \in DOMAIN tokens
    BY <2>1 DEF Awaited
  <2>6. PatchesTo(tokens', op, mark, x, y)
    BY <1>9
  <2> HIDE DEF mark, x, y
  <2>7. /\ Tells(tokens', ins, mark)
        /\ \A a \in DOMAIN tokens : a # x => tokens'[a] = tokens[a]
        /\ tokens'[x].to = y
    <3>1. PICK n : Branches(blocks', known', ins, op, uses, to, n)
      BY <1>10
    <3>2. Retells(ins, tokens', mark, x, y) /\ TypeOK
      BY <1>3, <1>7, <2>6, <3>1 DEF Retells
    <3>3. Tells(tokens', ins, mark) /\ Retold(tokens', x, y)
      BY <2>2, <2>5, <3>2, TellsPatched
    <3> QED
      BY <3>3 DEF Retold
  <2>8. First(blocks', tokens', b2) = mark
    BY <1>2, <1>6, <1>10, <1>16, <2>1, FirstSame DEF mark
  <2>9. Told(tokens', ins) /\ tokens'[z + 1].to = mark
    BY <1>5, <2>7 DEF Tells
  <2>10. LeadsOn(ins, blocks', tokens', Pending(frames'))
    BY <1>7, <1>11, <2>8, <2>9 DEF LeadsOn
  <2>11. PICK w : Awaited(blocks, tokens, x, w, b3)
    BY <2>1 DEF x
  <2>12. tokens'[x].to = Len(tokens) + 2
    BY <1>5, <2>7 DEF y
  <2>13. \A a \in DOMAIN tokens : a # x => tokens'[a] = tokens[a]
    BY <2>7
  <2> QED
    BY <1>2, <1>6, <1>10, <1>12, <1>14, <1>20, <2>9, <2>10, <2>11, <2>12, <2>13, ContinuesPatched
<1>21. /\ Built(frames', results', blocks', insert', anchored)
       /\ anchored => Meant(frames', results', blocks', known', tokens', insert')
  <2>1. \A c \in Range(to) \intersect DOMAIN blocks : \A i \in DOMAIN blocks[c] : blocks[c][i].op # "phi"
    BY <1>7, <1>16
  <2>2. Range(to) \intersect Pending(frames) \subseteq Waiting(Top)
    BY <1>7, <1>16
  <2>3. insert' \in Pending(frames) \union (DOMAIN blocks' \ DOMAIN blocks)
    BY <1>15
  <2>4. /\ op \in {"br", "condbr"} /\ results' \in Seq(Int) /\ Below(Top) <= Len(results')
        /\ Retops(frames, frames')
    BY <1>7, <1>12, <1>13
  <2>5. \A j \in 1 .. Below(Top) : results'[j] = results[j]
    BY <1>13
  <2>6. PICK n : Branches(blocks', known', ins, op, uses, to, n)
    BY <1>10
  <2>7. Pending(frames') = (Pending(frames) \union (DOMAIN blocks' \ DOMAIN blocks)) \ {insert'}
    BY <1>15
  <2>8. Branched(blocks', known', ins, op, uses, to, n, insert')
    BY <1>18, <2>1, <2>2, <2>3, <2>4, <2>6 DEF Branched
  <2>9. Restacked(frames', results', blocks', insert')
    BY <1>17, <2>4, <2>5, <2>7 DEF Restacked
  <2>10. anchored => Explained(frames', results', blocks', known', ins, insert', tokens')
    BY <1>19, <1>20 DEF Explained
  <2> QED
    BY <1>2, <2>8, <2>9, <2>10, MoveBuilt
<1>22. placed' = DOMAIN blocks' \ Unplaced(frames')
  BY <1>1, <1>3, <1>11, <1>14
<1>23. tokens' \in Seq(Tokens)
  <2>1. z + 2 \in Nat
    BY <1>5
  <2> QED
    BY <1>3, <1>4, <1>7, <1>9, <2>1, PatchType
<1>24. size' \in Nat /\ tokens' \in Seq(Tokens)
  BY <1>1, <1>3, <1>23 DEF TypeOK
<1>25. DOMAIN blocks' = DOMAIN blocks /\ results' \in Seq(Int) /\ Retops(frames, frames') /\ frames' # << >>
  BY <1>11, <1>12, <1>13
<1>26. PICK n \in Nat : GraphTyped(blocks', known', n)
  BY <1>10
<1> QED
  BY <1>2, <1>15, <1>21, <1>22, <1>24, <1>25, <1>26, MoveEmits

\* The frame of an if whose else part is next.
ElseFrame(f) ==
  [f EXCEPT !.stage = "else", !.base = f.base + 1, !.mark = Len(tokens) + 1, !.blocks[1] = insert]

\* The then part is over: its block goes to merge, and control comes to the else block.
LEMMA BeginElseStep == ASSUME IInv, BeginElse PROVE IInv'
<1> DEFINE m == Len(frames)
           g == [Top EXCEPT !.stage = "else", !.base = Top.base + 1, !.mark = Len(tokens) + 1,
                            !.blocks = [Top.blocks EXCEPT ![1] = insert]]
           b2 == Top.blocks[2]
           b3 == Top.blocks[3]
<1>1. /\ phase = "emit" /\ Top.form = "if" /\ Top.stage = "then" /\ Delivered = 1
      /\ Branch("br", << >>, <<b3>>, b2, 0)
      /\ Patches(tokens', Jump(Fresh(1), 0), Top.test, Len(tokens) + 2)
      /\ results' = results /\ size' = size /\ placed' = placed \union {b2}
      /\ UNCHANGED <<phase, anchored, run>>
  BY DEF BeginElse, LeaveThen, Patches
<1>2. phase = "emit" /\ UNCHANGED <<phase, anchored, run>>
  BY <1>1
<1>3. /\ TypeOK /\ blocks \in Blocks /\ frames \in Seq(Frames) /\ frames # << >> /\ results \in Seq(Int)
      /\ tokens \in Seq(Tokens) /\ placed = DOMAIN blocks \ Unplaced(frames)
  BY <1>2, Emitting
<1>4. frames' = [frames EXCEPT ![m] = g]
  <2>1. PICK t \in Frames : t = frames[m] /\ t = Top
    BY <1>2, TopFacts
  <2>2. frames' = [frames EXCEPT ![m] = ElseFrame(Top)]
    BY DEF BeginElse, ElseFrame
  <2>3. frames' = [frames EXCEPT ![m] = ElseFrame(t)]
    BY <2>1, <2>2
  <2>4. ElseFrame(t) = [t EXCEPT !.stage = "else", !.base = t.base + 1, !.mark = Len(tokens) + 1,
                                 !.blocks = [t.blocks EXCEPT ![1] = insert]]
    BY DEF Frames, ElseFrame
  <2>5. g = ElseFrame(t)
    BY <2>1, <2>4
  <2> QED
    BY <2>3, <2>5
<1>5. /\ HasBlocks(Top) /\ ~ Looping(Top) /\ Waiting(Top) = {b2, b3} /\ Below(Top) = Top.base
      /\ Top \in Frames /\ Top.test \in Nat /\ Top.base \in Nat
  BY <1>1, TopFacts DEF HasBlocks, Looping, Waiting, Below, Frames
<1>6. PICK z \in Nat : z = Len(tokens)
  BY <1>3
<1> HIDE DEF b2, b3
<1>7. /\ b2 \in DOMAIN blocks /\ b3 \in DOMAIN blocks
      /\ b2 # b3 /\ b2 # Entry /\ b3 # Entry /\ b2 \in Nat /\ b3 \in Nat
      /\ b2 \in Pending(frames) /\ b3 \in Pending(frames)
      /\ Top.blocks \in Seq(Nat) /\ DOMAIN Top.blocks = 1 .. 3 /\ Len(Top.blocks) = 3
  BY <1>2, <1>5, TopBlocks DEF b2, b3
<1>8. /\ insert \in DOMAIN blocks /\ insert \in Nat /\ insert \notin Pending(frames)
      /\ DOMAIN blocks = 1 .. Len(blocks)
  BY <1>2, <1>3, PendingFacts, BlockFacts
<1> DEFINE op == "br"
           uses == << >>
           to == <<b3>>
           zero == 0
<1>9. /\ op \in {"br", "condbr"} /\ uses \in Uses /\ BlockList(to) /\ Range(uses) = {} /\ Range(to) = {b3}
      /\ Len(to) = 1 /\ to[1] = b3 /\ op = "br"
  <2>1. BlockList(to) /\ Range(to) = {b3} /\ Len(to) = 1 /\ to[1] = b3
    BY <1>7, OnePlace
  <2>2. uses \in Uses /\ Range(uses) = {}
    BY NoUses
  <2> QED
    BY <2>1, <2>2
<1>10. Branch(op, uses, to, b2, 0) /\ insert' = b2
  BY <1>1 DEF Branch
<1>11. PatchesTo(tokens', op, zero, Top.test, z + 2) /\ zero \in Nat
  BY <1>1, <1>6 DEF BranchToken, Jump, PatchesTo
<1> HIDE DEF op, uses, to, zero
<1>12. PICK ins : Branches(blocks', known', ins, op, uses, to, 0) /\ GraphTyped(blocks', known', 0)
  BY <1>3, <1>9, <1>10, Branching
<1>13. /\ DOMAIN blocks' = DOMAIN blocks /\ Len(blocks') = Len(blocks) /\ Wider(blocks, blocks')
       /\ ins.op = "br" /\ ins.to = to /\ ins.place = z + 1
  BY <1>2, <1>6, <1>9, <1>12, SameBlocks
<1>14. /\ results' \in Seq(Int) /\ Below(Top) <= Len(results') /\ Below(Top) \in Nat
       /\ Below(Top) + 1 \in DOMAIN results /\ Top.base + 1 <= Len(results')
       /\ \A j \in DOMAIN results' : j \in 1 .. Below(Top) \/ j = Top.base + 1
  <2>1. PICK n \in Nat, r \in Nat : n = Len(results) /\ r = Below(Top) /\ Delivered = n - r /\ r = Top.base
    BY <1>2, <1>5, TopFacts
  <2>2. n = r + 1
    BY <1>1, <2>1
  <2>3. DOMAIN results = 1 .. n
    BY <1>3, <2>1
  <2>4. /\ r <= n /\ r + 1 \in 1 .. n /\ r + 1 <= n
        /\ \A j \in 1 .. n : j \in 1 .. r \/ j = r + 1
    BY <2>2
  <2>5. /\ Below(Top) = r /\ Top.base = r /\ Len(results') = n /\ results' = results
        /\ DOMAIN results' = 1 .. n
    BY <1>1, <2>1, <2>3
  <2> QED
    BY <1>3, <2>4, <2>5
<1>15. \A j \in 1 .. Below(Top) : results'[j] = results[j]
  BY <1>1
<1>16. /\ g \in Frames /\ g.form = "if" /\ g.stage = "else" /\ g.base = Top.base + 1
       /\ g.locals = Top.locals /\ g.mark = z + 1 /\ g.anchor = Top.anchor
       /\ g.blocks = [Top.blocks EXCEPT ![1] = insert]
  <2>1. PICK x \in Nat, y \in Nat : x = z + 1 /\ y = Top.base + 1
    BY <1>5, <1>6
  <2>2. PICK s \in Seq(Nat) : s = [Top.blocks EXCEPT ![1] = insert]
    <3>1. Top.blocks \in [1 .. 3 -> Nat] /\ insert \in Nat
      <4>1. PICK l \in Nat : l = Len(Top.blocks) /\ Top.blocks \in [1 .. l -> Nat]
        BY <1>7, LenProperties
      <4>2. l = 3
        BY <1>7, <4>1
      <4> QED
        BY <1>8, <4>1, <4>2
    <3>2. [Top.blocks EXCEPT ![1] = insert] \in [1 .. 3 -> Nat]
      BY <3>1
    <3>3. [Top.blocks EXCEPT ![1] = insert] \in Seq(Nat)
      BY <3>2, SeqDef
    <3> QED
      BY <3>3
  <2>3. g = [Top EXCEPT !.stage = "else", !.base = y, !.mark = x, !.blocks = s]
    BY <1>6, <2>1, <2>2
  <2>4. /\ g \in Frames /\ g.form = Top.form /\ g.stage = "else" /\ g.base = y
        /\ g.locals = Top.locals /\ g.mark = x /\ g.anchor = Top.anchor /\ g.blocks = s
    BY <1>5, <2>3 DEF Frames
  <2> QED
    BY <1>1, <2>1, <2>2, <2>4
<1> HIDE DEF g
<1>17. g.blocks[1] = insert /\ g.blocks[2] = b2 /\ g.blocks[3] = b3 /\ Len(g.blocks) = 3
       /\ Range(g.blocks) \subseteq {insert, b2, b3}
  <2>1. /\ DOMAIN g.blocks = 1 .. 3 /\ g.blocks[1] = insert /\ g.blocks[2] = b2 /\ g.blocks[3] = b3
        /\ g.blocks \in Seq(Nat)
    BY <1>7, <1>8, <1>16 DEF b2, b3
  <2>2. Len(g.blocks) = 3
    <3>1. PICK k \in Nat : k = Len(g.blocks) /\ DOMAIN g.blocks = 1 .. k
      BY <2>1, LenProperties
    <3>2. 1 .. k = 1 .. 3
      BY <2>1, <3>1
    <3>3. k = 3
      BY <3>2
    <3> QED
      BY <3>1, <3>3
  <2>3. \A x \in 1 .. 3 : x = 1 \/ x = 2 \/ x = 3
    OBVIOUS
  <2> QED
    BY <2>1, <2>2, <2>3 DEF Range
<1>18. Below(g) = Below(Top) /\ Waiting(g) = {b3} /\ HasBlocks(g) /\ ~ Looping(g)
  <2>1. Below(g) = Top.base
    BY <1>5, <1>16 DEF Below
  <2> QED
    BY <1>5, <1>16, <1>17, <2>1 DEF Waiting, HasBlocks, Looping
<1>19. FrameOK(g, results', blocks')
  <2>1. FrameOK(Top, results', blocks')
    <3>1. FrameOK(Top, results, blocks) /\ Top.base <= Len(results')
      BY <1>2, <1>5, <1>14, TopFacts
    <3> QED
      BY <1>13, <3>1, FrameKept
  <2>2. FormOK(g)
    BY <1>5, <1>16 DEF FormOK
  <2>3. g.base <= Len(results')
    BY <1>14, <1>16
  <2>4. g.anchor # AtEnd => \E i \in DOMAIN blocks'[Entry] : blocks'[Entry][i].id = g.anchor
    BY <1>16, <2>1 DEF FrameOK
  <2>5. /\ Len(g.blocks) = 3 /\ Range(g.blocks) \subseteq 1 .. Len(blocks')
        /\ g.blocks[1] # g.blocks[3] /\ g.blocks[2] # g.blocks[3]
        /\ g.blocks[2] # Entry /\ g.blocks[3] # Entry
    BY <1>7, <1>8, <1>13, <1>17
  <2> QED
    BY <1>16, <2>2, <2>3, <2>4, <2>5 DEF FrameOK
<1>20. Retops(frames, frames') /\ Len(frames') = m /\ frames'[m] = g
  BY <1>3, <1>4, <1>16, TopRetops
<1>21. m \in DOMAIN frames' /\ frames' # << >>
  <2>1. m \in DOMAIN frames'
    BY <1>20, RetopsIndices
  <2> QED
    BY <2>1
<1>22. /\ \A j \in 1 .. Below(Top) : ThenValue(frames, j) => ThenValue(frames', j)
       /\ Pending(frames') = (Pending(frames) \ {b2, b3}) \union {b3}
       /\ Unplaced(frames') = (Unplaced(frames) \ {b2, b3}) \union {b3}
  BY <1>1, <1>2, <1>5, <1>14, <1>15, <1>16, <1>18, <1>20, MoveStacks
<1>23. /\ insert' \in Pending(frames)
       /\ Pending(frames') = (Pending(frames) \union (DOMAIN blocks' \ DOMAIN blocks)) \ {insert'}
       /\ Pending(frames') = Pending(frames) \ {b2}
  BY <1>7, <1>10, <1>13, <1>22
<1>24. b3 \in Unplaced(frames)
  <2>1. m \in DOMAIN frames /\ frames[m] = Top
    BY <1>2, TopFacts
  <2> QED
    BY <1>1, <1>5, <2>1 DEF Unplaced
<1>25. TopBuilt(frames', m, results', blocks', insert')
  <2>1. BlocksOK(g, blocks', Pending(frames'), insert')
    <3>1. Sources(blocks, b3) = {}
      BY <1>1, <1>2, PendingFacts DEF BlocksOK, b3
    <3>2. Sources(blocks', b3) = {insert}
      <4>1. Grows(blocks, blocks', insert, ins, 0) /\ b3 \in Range(ins.to)
        BY <1>9, <1>12, <1>13 DEF Branches
      <4> QED
        BY <3>1, <4>1, GrowsCode
    <3>3. insert \notin Pending(frames') \union {insert'}
      BY <1>7, <1>8, <1>10, <1>23
    <3> QED
      BY <1>16, <1>17, <1>18, <3>2, <3>3 DEF BlocksOK
  <2>2. Waiting(g) \intersect Pending(frames) \subseteq Waiting(Top)
    BY <1>5, <1>18
  <2> QED
    BY <1>1, <1>2, <1>14, <1>15, <1>16, <1>18, <1>19, <1>20, <2>1, <2>2, TopBuiltFacts
<1>26. BranchOK(ins, Len(blocks'))
  BY <1>7, <1>8, <1>9, <1>13 DEF BranchOK
<1>27. ASSUME anchored
       PROVE  Learns(frames, frames', m, results, results', Below(Top), blocks, blocks', known, known',
                     insert, ins, insert')
  <2>1. LevelOK(Top, frames, results, blocks, known, insert)
    BY <1>2, <1>27, LevelFacts
  <2>2. \A c \in Range(to) \union {insert'} : c \in DOMAIN blocks /\ known[c] = Level(Top, known)
    BY <1>1, <1>5, <1>7, <1>9, <1>10, <2>1 DEF LevelOK, Level, b2, b3
  <2>3. Range(uses) \subseteq MadeIn(blocks, known, insert) \union {Constant}
    BY <1>9
  <2>4. Available(results'[g.base], MadeIn(blocks', known', g.blocks[1]))
    <3>1. PICK j \in DOMAIN results : j = Top.base + 1 /\ j > Top.base
      BY <1>5, <1>14
    <3>2. Available(results[j], MadeIn(blocks, known, insert))
      BY <1>2, <1>27, <3>1, KnownResults
    <3>3. MadeIn(blocks, known, insert) \subseteq MadeIn(blocks', known', insert)
      <4>1. Grows(blocks, blocks', insert, ins, 0) /\ Extends(blocks, known, known')
        BY <1>12 DEF Branches
      <4> QED
        BY <1>8, <4>1, MadeGrows
    <3>4. Available(results[j], MadeIn(blocks', known', insert))
      BY <3>2, <3>3 DEF Available
    <3>5. results'[g.base] = results[j]
      BY <1>1, <1>16, <3>1
    <3> QED
      BY <1>17, <3>4, <3>5
  <2>5. TopStays(frames', results', blocks', known')
    BY <1>16, <1>17, <1>18, <1>20, <2>4 DEF TopStays, b2, b3
  <2>6. \A j \in DOMAIN results' : j \in 1 .. Below(Top) \/ ThenValue(frames', j) \/ results'[j] = NoValue
    <3>1. ThenValue(frames', Top.base + 1)
      BY <1>16, <1>20, <1>21 DEF ThenValue
    <3> QED
      BY <1>14, <3>1
  <2> QED
    BY <1>2, <1>5, <1>12, <1>14, <1>15, <1>20, <1>22, <1>27, <2>2, <2>3, <2>5, <2>6, LearnsOld
<1>28. ASSUME anchored
       PROVE  Continues(frames', m, blocks, blocks', tokens, tokens', ins, Pending(frames), Pending(frames'))
  <2>1. /\ Awaited(blocks, tokens, Top.test, 2, b2) /\ Untargeted(blocks, b3)
    BY <1>1, <1>2, <1>28, TopPlace DEF FramePlace, b2, b3
  <2>2. PICK y \in Nat : y = z + 2
    BY <1>6
  <2>3. op \in {"br", "condbr"} /\ TypeOK /\ zero \in Nat
    BY <1>3, <1>9, <1>11
  <2>4. PICK x \in DOMAIN tokens : x = Top.test
    BY <2>1 DEF Awaited
  <2>5. PatchesTo(tokens', op, zero, x, y)
    BY <1>11, <2>2, <2>4
  <2>6. /\ Tells(tokens', ins, zero)
        /\ \A a \in DOMAIN tokens : a # x => tokens'[a] = tokens[a]
        /\ tokens'[x].to = y
    <3>1. Retells(ins, tokens', zero, x, y)
      BY <1>12, <2>3, <2>5 DEF Retells
    <3>2. Tells(tokens', ins, zero) /\ Retold(tokens', x, y)
      BY <2>3, <3>1, TellsPatched
    <3> QED
      BY <3>2 DEF Retold
  <2>7. Told(tokens', ins)
    BY <2>6 DEF Tells
  <2>8. LeadsOn(ins, blocks', tokens', Pending(frames'))
    BY <1>9, <1>13, <1>22 DEF LeadsOn
  <2>9. PICK w : Awaited(blocks, tokens, x, w, b2)
    BY <2>1, <2>4
  <2>10. tokens'[x].to = Len(tokens) + 2
    BY <1>6, <2>2, <2>6
  <2>11. \A a \in DOMAIN tokens : a # x => tokens'[a] = tokens[a]
    BY <2>6
  <2>12. Awaited(blocks', tokens', z + 1, 1, b3)
    <3>1. PICK s \in Nat : s = Len(tokens) + 1 /\ s = z + 1
      BY <1>6
    <3>2. PICK v : v = 1
      OBVIOUS
    <3>3. Len(to) = v /\ to[v] = b3 /\ b3 \in Range(to)
      BY <1>9, <3>2
    <3>4. PICK n : Branches(blocks', known', ins, op, uses, to, n)
      BY <1>12
    <3>5. Awaited(blocks', tokens', s, v, b3)
      BY <1>2, <1>9, <1>28, <2>1, <2>7, <3>1, <3>3, <3>4, AwaitedNew
    <3> QED
      BY <3>1, <3>2, <3>5
  <2>13. FramePlace(g, blocks', tokens')
    BY <1>16, <1>17, <1>18, <2>12 DEF FramePlace
  <2>14. m \in DOMAIN frames' => FramePlace(frames'[m], blocks', tokens')
    BY <1>20, <2>13
  <2>15. Pending(frames') = Pending(frames) \ {b2}
    BY <1>23
  <2> QED
    BY <1>2, <1>7, <1>12, <1>28, <2>7, <2>8, <2>9, <2>10, <2>11, <2>14, <2>15, ContinuesPatched
<1>29. /\ Built(frames', results', blocks', insert', anchored)
       /\ anchored => Meant(frames', results', blocks', known', tokens', insert')
  <2>1. \A c \in Range(to) \intersect DOMAIN blocks : \A i \in DOMAIN blocks[c] : blocks[c][i].op # "phi"
    BY <1>2, <1>7, <1>9, PendingFacts
  <2>2. Range(to) \intersect Pending(frames) \subseteq Waiting(Top)
    BY <1>5, <1>9
  <2>3. insert' \in Pending(frames) \union (DOMAIN blocks' \ DOMAIN blocks)
    BY <1>23
  <2>4. /\ op \in {"br", "condbr"} /\ results' \in Seq(Int) /\ Below(Top) <= Len(results')
        /\ Retops(frames, frames')
    BY <1>9, <1>14, <1>20
  <2>5. \A j \in 1 .. Below(Top) : results'[j] = results[j]
    BY <1>15
  <2>6. PICK n : Branches(blocks', known', ins, op, uses, to, n)
    BY <1>12
  <2>7. Pending(frames') = (Pending(frames) \union (DOMAIN blocks' \ DOMAIN blocks)) \ {insert'}
    BY <1>23
  <2>8. Branched(blocks', known', ins, op, uses, to, n, insert')
    BY <1>26, <2>1, <2>2, <2>3, <2>4, <2>6 DEF Branched
  <2>9. Restacked(frames', results', blocks', insert')
    BY <1>25, <2>4, <2>5, <2>7 DEF Restacked
  <2>10. anchored => Explained(frames', results', blocks', known', ins, insert', tokens')
    BY <1>27, <1>28 DEF Explained
  <2> QED
    BY <1>2, <2>8, <2>9, <2>10, MoveBuilt
<1>30. placed' = DOMAIN blocks' \ Unplaced(frames')
  BY <1>1, <1>3, <1>7, <1>13, <1>22, <1>24
<1>31. tokens' \in Seq(Tokens)
  <2>1. z + 2 \in Nat
    BY <1>6
  <2> QED
    BY <1>3, <1>5, <1>9, <1>11, <2>1, PatchType
<1>32. size' \in Nat /\ tokens' \in Seq(Tokens)
  BY <1>1, <1>3, <1>31 DEF TypeOK
<1>33. DOMAIN blocks' = DOMAIN blocks /\ results' \in Seq(Int) /\ Retops(frames, frames') /\ frames' # << >>
  BY <1>13, <1>14, <1>20, <1>21
<1>34. PICK n \in Nat : GraphTyped(blocks', known', n)
  BY <1>12
<1>35. insert' \in Pending(frames) \union (DOMAIN blocks' \ DOMAIN blocks)
  BY <1>23
<1> QED
  BY <1>2, <1>29, <1>30, <1>32, <1>33, <1>34, <1>35, MoveEmits

\* The first instruction of the block where two paths meet is a phi.
Merges(B, C, p, phi) ==
  /\ Grows(B, C, p, phi, 0) /\ B[p] = << >>
  /\ phi.op = "phi" /\ Range(phi.to) = {} /\ Len(phi.to) = 0
  /\ DOMAIN phi.from = 1 .. 2 /\ DOMAIN phi.uses = 1 .. 2 /\ phi.from[1] # phi.from[2]
  /\ Range(phi.from) = Sources(B, p)

\* The graph and the stacks, with a phi in the merge block.
LEMMA BuiltPhi ==
  ASSUME NEW F, NEW t, NEW R, NEW S, NEW r, NEW B, NEW C, NEW p, NEW phi,
         Merges(B, C, p, phi),
         Plain(F, F, t, R, S, r, B), t \notin DOMAIN F,
         \A k \in DOMAIN F : Looping(F[k]) => F[k].blocks[2] # p,
         NEW a, Built(F, R, B, p, a)
  PROVE  Built(F, S, C, p, a)
<1>1. /\ FramesNest(F, R, B) /\ Stands(B, Pending(F), {p}) /\ (a => EntryStands(B, {p}))
      /\ BranchesOK(B, {p}) /\ B \in Blocks /\ Keeps(F, F, t, R, S, r)
      /\ Grows(B, C, p, phi, 0) /\ phi.op = "phi" /\ Range(phi.to) = {}
  BY GrowsFacts DEF Built, Plain, Merges
<1>2. phi.op \notin Terminators
  BY <1>1 DEF Terminators
<1>3. FramesNest(F, S, C)
  BY <1>1, GrowsWider, PlainNest
<1>4. Stands(C, Pending(F), {p}) /\ (a => EntryStands(C, {p}))
  BY <1>1, <1>2, StandsAppend
<1>5. BranchesOK(C, {p})
  BY <1>1, BranchesPhi DEF Merges
<1>6. ASSUME NEW k \in DOMAIN F
      PROVE  BlocksOK(F[k], C, Pending(F), p)
  <2>1. F[k].blocks \in Seq(Nat) /\ FrameOK(F[k], R, B) /\ BlocksOK(F[k], B, Pending(F), p)
    BY <1>1, KeptFrames DEF Built
  <2>2. Pending(F) \subseteq Pending(F) \union (DOMAIN C \ DOMAIN B)
        /\ p \in Pending(F) \union (DOMAIN C \ DOMAIN B) \union {p}
    OBVIOUS
  <2>3. Range(phi.to) \intersect Waiting(F[k]) = {}
        /\ (phi.op = "phi" /\ Looping(F[k]) => F[k].blocks[2] # p)
    BY <1>1
  <2> QED
    BY <1>1, <2>1, <2>2, <2>3, FrameBlocksKept
<1> QED
  BY <1>3, <1>4, <1>5, <1>6 DEF Built

\* The phi is written last, and what it takes from a block is there.
PhiFits(B, K, T, phi) ==
  /\ phi.place = Len(T) + 1
  /\ \A m \in 1 .. 2 : /\ phi.from[m] \in DOMAIN B
                        /\ phi.uses[m] \in MadeIn(B, K, phi.from[m]) \union {Constant}

\* What is known, and where things stand, with the phi.
LEMMA MeantPhi ==
  ASSUME NEW F, NEW t, NEW R, NEW S, NEW r, NEW B, NEW C, NEW p, NEW phi,
         Merges(B, C, p, phi),
         Plain(F, F, t, R, S, r, B), t \notin DOMAIN F,
         NEW a, Built(F, R, B, p, a),
         NEW K, NEW T, Meant(F, R, B, K, T, p), T \in Seq(Tokens),
         PhiFits(B, K, T, phi),
         \A j \in DOMAIN S : ThenValue(F, j) \/ Available(S[j], MadeIn(C, K, p))
  PROVE  Meant(F, S, C, K, T, p)
<1>1. /\ FramesNest(F, R, B) /\ Stands(B, Pending(F), {p})
      /\ BranchesOK(B, {p}) /\ B \in Blocks /\ p \in DOMAIN B /\ Keeps(F, F, t, R, S, r)
      /\ Flow(B, K) /\ FramesKnow(F, R, B, K, p) /\ PathOK(B, T, Pending(F), {p})
      /\ Grows(B, C, p, phi, 0) /\ phi.op = "phi" /\ Range(phi.to) = {}
  BY GrowsFacts DEF Built, Plain, Merges, Meant
<1>2. phi.op \notin Written /\ phi.op # "ret"
  BY <1>1 DEF Written
<1>3. Extends(B, K, K)
  BY DEF Extends
<1>4. Flow(C, K)
  <2>1. Open(B[p])
    BY <1>1 DEF Stands
  <2>2. Knowing(B, K, K, p, phi)
    BY <1>1 DEF Knowing, PhiFits
  <2> QED
    BY <1>1, <1>3, <2>1, <2>2, FlowGrows
<1>8. phi.place = Len(T) + 1
  BY DEF PhiFits
<1>5. FramesKnow(F, S, C, K, p)
  <2>1. \A b \in DOMAIN B : MadeIn(B, K, b) \subseteq MadeIn(C, K, b)
    BY <1>1, <1>3, MadeGrows
  <2>2. DOMAIN C = DOMAIN B
    BY <1>1, GrowsDomain
  <2>3. ASSUME NEW k \in DOMAIN F, HasBlocks(F[k])
        PROVE  Level(F[k], K) \subseteq MadeIn(C, K, p)
    <3>1. LevelOK(F[k], F, R, B, K, p)
      BY <1>1 DEF FramesKnow
    <3>2. Level(F[k], K) \subseteq MadeIn(B, K, p)
      BY <2>3, <3>1 DEF LevelOK
    <3> QED
      BY <1>1, <2>1, <3>2
  <2>4. \A j \in 1 .. r : ThenValue(F, j) => ThenValue(F, j)
    OBVIOUS
  <2>5. \A b \in DOMAIN C \ DOMAIN B : MadeIn(C, K, b) = MadeIn(B, K, p)
    BY <2>2
  <2>6. \A k \in DOMAIN F : k # t /\ HasBlocks(F[k]) => Level(F[k], K) \subseteq MadeIn(C, K, p)
    BY <2>3
  <2> QED
    BY <1>1, <1>3, <2>1, <2>4, <2>5, <2>6, FramesKnowKept
<1>6. PathOK(C, T, Pending(F), {p})
  <2>1. PICK N : N = {p}
    OBVIOUS
  <2>2. N \subseteq {p} /\ (phi.op = "ret" => N = {})
    BY <1>2, <2>1
  <2>3. PathOK(C, T, Pending(F), N)
    BY <1>1, <1>2, <1>8, <2>2, PathUnsaid
  <2> QED
    BY <2>1, <2>3
<1>7. ASSUME NEW k \in DOMAIN F
      PROVE  FramePlace(F[k], C, T)
  <2>1. F[k].blocks \in Seq(Nat) /\ FrameOK(F[k], R, B)
    BY <1>1, KeptFrames
  <2>2. FramePlace(F[k], B, T) /\ BlocksOK(F[k], B, Pending(F), p)
    BY DEF Meant, Built
  <2>3. Code(C) = Code(B) \union {phi}
    BY <1>1, GrowsCode
  <2>4. Looping(F[k]) => First(C, T, F[k].blocks[2]) = First(B, T, F[k].blocks[2])
    <3>1. SUFFICES ASSUME Looping(F[k])
                   PROVE  First(C, T, F[k].blocks[2]) = First(B, T, F[k].blocks[2])
      OBVIOUS
    <3>2. F[k].blocks[2] \in DOMAIN B
      BY <1>1, <2>1, <3>1, FrameBlocks DEF HasBlocks
    <3>3. F[k].blocks[2] \notin Pending(F)
      BY <2>2, <3>1 DEF BlocksOK
    <3> QED
      BY <1>1, <1>8, <3>2, <3>3, FirstKept
  <2>5. Range(phi.to) \intersect Waiting(F[k]) = {} /\ (phi.op \in Written => phi.place \notin DOMAIN T)
    BY <1>1, <1>2
  <2>6. SaysMore(T, T)
    BY DEF SaysMore
  <2> QED
    BY <2>2, <2>3, <2>4, <2>5, <2>6, FramePlaceKept
<1> QED
  BY <1>4, <1>5, <1>6, <1>7 DEF Meant

\* The else part branches to merge, and its frame is left: what there is before the phi.
Joined(G, S, C, U) ==
  /\ G = Front(frames) /\ S = DropLast(results, 2)
  /\ C = [blocks EXCEPT ![insert] =
            Append(@, Instruction("br", Fresh(1), << >>, <<Top.blocks[3]>>, << >>))]
  /\ Patches(U, Jump(Fresh(1), Len(tokens) + 2), Top.mark, Len(tokens) + 2)

\* The results below an if that ends, and the values of its two parts.
LEMMA JoinedResults ==
  ASSUME IInv, phase = "emit", Top.stage = "else", Delivered = 1,
         NEW G, NEW S, NEW C, NEW U, Joined(G, S, C, U)
  PROVE  /\ S \in Seq(Int) /\ Len(S) = Below(Top) /\ DOMAIN S = 1 .. Below(Top) /\ Below(Top) \in Nat
         /\ \A j \in 1 .. Below(Top) : S[j] = results[j]
         /\ Top.base \in DOMAIN results /\ Top.base \in Nat /\ Len(results) = Below(Top) + 2
         /\ Top.base = Len(results) - 1
<1>1. PICK n \in Nat, b \in Nat : n = Len(results) /\ b = Top.base /\ Delivered = n - b /\ b >= 1
                                  /\ DOMAIN results = 1 .. n
  BY TopFacts DEF FormOK
<1>2. n = b + 1 /\ Below(Top) = b - 1
  BY <1>1 DEF Below
<1>3. results \in Seq(Int)
  BY Emitting
<1>4. S = SubSeq(results, 1, n - 2)
  BY <1>1 DEF Joined, DropLast
<1>5. PICK k \in Nat : k = n - 2 /\ k = b - 1 /\ k <= n /\ n = k + 2 /\ b = n - 1 /\ b \in 1 .. n
  <2>1. b >= 1
    BY <1>1
  <2>2. n = b + 1
    BY <1>2
  <2>3. PICK k \in Nat : k = b - 1
    BY <2>1
  <2> QED
    BY <2>1, <2>2, <2>3
<1>6. S \in Seq(Int) /\ Len(S) = k /\ \A j \in 1 .. k : S[j] = results[j]
  <2>1. S = SubSeq(results, 1, k)
    BY <1>4, <1>5
  <2>2. k <= Len(results)
    BY <1>1, <1>5
  <2> QED
    BY <1>3, <2>1, <2>2, PrefixFacts
<1>7. DOMAIN S = 1 .. k
  BY <1>6, LenProperties
<1>8. Below(Top) = k
  BY <1>2, <1>5
<1>9. /\ S \in Seq(Int) /\ Len(S) = Below(Top) /\ DOMAIN S = 1 .. Below(Top) /\ Below(Top) \in Nat
      /\ \A j \in 1 .. Below(Top) : S[j] = results[j]
  BY <1>6, <1>7, <1>8
<1>10. Top.base \in DOMAIN results /\ Top.base \in Nat
  BY <1>1, <1>5
<1>11. Len(results) = Below(Top) + 2 /\ Top.base = Len(results) - 1
  BY <1>1, <1>5, <1>8
<1> QED
  BY <1>9, <1>10, <1>11

\* A branch ends the else part, and the token that ended the then part jumps behind it.
Rejoins(C, U, ins, op, uses, to) ==
  /\ Branches(C, known, ins, op, uses, to, 0)
  /\ op \in {"br", "condbr"} /\ op = "br" /\ Range(uses) = {}
  /\ Range(to) = {Top.blocks[3]} /\ Len(to) = 1 /\ to[1] = Top.blocks[3]
  /\ PatchesTo(U, op, Len(tokens) + 2, Top.mark, Len(tokens) + 2)

\* The else part ends with a branch to the merge block.
LEMMA JoinedGraph ==
  ASSUME IInv, phase = "emit", Top.form = "if", Top.stage = "else",
         NEW G, NEW S, NEW C, NEW U, Joined(G, S, C, U)
  PROVE  \E ins, op, uses, to : Rejoins(C, U, ins, op, uses, to)
<1> DEFINE b3 == Top.blocks[3]
<1>1. TypeOK /\ blocks \in Blocks /\ insert \in DOMAIN blocks /\ HasBlocks(Top)
  BY Emitting DEF HasBlocks
<1>2. b3 \in Nat
  BY <1>1, TopBlocks
<1> HIDE DEF b3
<1> DEFINE op == "br"
           uses == << >>
           to == <<b3>>
           ins == Instruction(op, Fresh(1), uses, to, << >>)
<1>3. /\ op \in {"br", "condbr"} /\ uses \in Uses /\ BlockList(to) /\ Range(uses) = {} /\ Range(to) = {b3}
      /\ Len(to) = 1 /\ to[1] = b3 /\ op = "br"
  <2>1. BlockList(to) /\ Range(to) = {b3} /\ Len(to) = 1 /\ to[1] = b3
    BY <1>2, OnePlace
  <2>2. uses \in Uses /\ Range(uses) = {}
    BY NoUses
  <2> QED
    BY <2>1, <2>2
<1>4. /\ C = [blocks EXCEPT ![insert] = Append(@, ins)]
      /\ PatchesTo(U, op, Len(tokens) + 2, Top.mark, Len(tokens) + 2)
  BY DEF Joined, b3, BranchToken, Jump, PatchesTo
<1>5. ins = Instruction(op, Fresh(1), uses, to, << >>)
  OBVIOUS
<1> HIDE DEF op, uses, to, ins
<1>6. /\ ins \in Instructions
      /\ ins.op = op /\ ins.id = Fresh(1) /\ ins.uses = uses /\ ins.to = to
      /\ ins.place = Len(tokens) + 1 /\ ins.place \notin DOMAIN tokens
  BY <1>1, <1>3, <1>5, BranchIns
<1>7. Grows(blocks, C, insert, ins, 0)
  BY <1>1, <1>4, <1>6, AppendGrows
<1>8. DOMAIN C = DOMAIN blocks
  BY <1>4
<1>9. Branches(C, known, ins, op, uses, to, 0)
  BY <1>6, <1>7, <1>8 DEF Branches, Extends
<1>10. Rejoins(C, U, ins, op, uses, to)
  BY <1>3, <1>4, <1>9 DEF Rejoins, b3
<1> QED
  BY <1>10

\* After that branch, before any phi, all is as the invariant says.
LEMMA JoinedBuilt ==
  ASSUME IInv, phase = "emit", Top.form = "if", Top.stage = "else", Delivered = 1,
         NEW G, NEW S, NEW C, NEW U, Joined(G, S, C, U)
  PROVE  /\ Built(G, S, C, Top.blocks[3], anchored)
         /\ anchored => Meant(G, S, C, known, U, Top.blocks[3])
         /\ C \in Blocks /\ Len(C) = Len(blocks) /\ DOMAIN C = DOMAIN blocks
         /\ C[Top.blocks[3]] = << >>
         /\ Sources(C, Top.blocks[3]) = {Top.blocks[1], insert}
         /\ Pending(G) = Pending(frames) \ {Top.blocks[3]}
         /\ Unplaced(G) = Unplaced(frames) \ {Top.blocks[3]}
         /\ U \in Seq(Tokens) /\ (anchored => Len(U) = Len(tokens) + 1)
         /\ Retops(frames, G) /\ G # << >>
         /\ \A k \in DOMAIN G : G[k].base <= Below(Top)
         /\ anchored => \A b \in DOMAIN blocks : MadeIn(blocks, known, b) \subseteq MadeIn(C, known, b)
<1> DEFINE m == Len(frames)
           b1 == Top.blocks[1]
           b3 == Top.blocks[3]
<1>1. /\ TypeOK /\ blocks \in Blocks /\ frames \in Seq(Frames) /\ frames # << >> /\ results \in Seq(Int)
      /\ tokens \in Seq(Tokens)
  BY Emitting
<1>2. /\ HasBlocks(Top) /\ ~ Looping(Top) /\ Waiting(Top) = {b3} /\ Top \in Frames /\ Top.mark \in Nat
  BY TopFacts DEF HasBlocks, Looping, Waiting, Frames
<1>3. PICK z \in Nat : z = Len(tokens)
  BY <1>1
<1>23. PICK ins, op, uses, to : Rejoins(C, U, ins, op, uses, to)
  BY JoinedGraph
<1>4. /\ Branches(C, known, ins, op, uses, to, 0)
      /\ op \in {"br", "condbr"} /\ op = "br" /\ Range(uses) = {}
      /\ Range(to) = {b3} /\ Len(to) = 1 /\ to[1] = b3
      /\ PatchesTo(U, op, Len(tokens) + 2, Top.mark, Len(tokens) + 2)
  BY <1>23 DEF Rejoins
<1> HIDE DEF b1, b3
<1>5. /\ b1 \in DOMAIN blocks /\ b3 \in DOMAIN blocks /\ b1 # b3 /\ b3 # Entry /\ b3 \in Nat
      /\ b3 \in Pending(frames)
  BY <1>2, TopBlocks DEF b1, b3
<1>6. /\ insert \in DOMAIN blocks /\ insert \notin Pending(frames)
      /\ DOMAIN blocks = 1 .. Len(blocks) /\ b1 # insert /\ Sources(blocks, b3) = {b1}
  BY <1>1, PendingFacts, BlockFacts DEF BlocksOK, b1, b3
<1>7. /\ DOMAIN C = DOMAIN blocks /\ Len(C) = Len(blocks) /\ C \in Blocks
      /\ Grows(blocks, C, insert, ins, 0)
      /\ ins.op = "br" /\ ins.to = to /\ ins.place = z + 1
  BY <1>3, <1>4, SameBlocks DEF Grows
<1>8. /\ S \in Seq(Int) /\ Below(Top) <= Len(S) /\ Below(Top) \in Nat /\ DOMAIN S = 1 .. Below(Top)
  BY JoinedResults
<1>9. \A j \in 1 .. Below(Top) : S[j] = results[j]
  BY JoinedResults
<1>10. /\ Retops(frames, G) /\ Len(G) # m /\ G # << >> /\ m \notin DOMAIN G
  <2>1. G = Front(frames) /\ Top.form # "function"
    BY DEF Joined
  <2> QED
    BY <2>1, PopFacts
<1>11. /\ \A j \in 1 .. Below(Top) : ThenValue(frames, j) => ThenValue(G, j)
       /\ Pending(G) = Pending(frames) \ {b3}
       /\ Unplaced(G) = Unplaced(frames) \ {b3}
       /\ \A k \in DOMAIN G : k # m => G[k].base <= Below(Top)
  BY <1>2, <1>8, <1>9, <1>10, MoveStacks
<1>12. Pending(G) = (Pending(frames) \union (DOMAIN C \ DOMAIN blocks)) \ {b3}
  BY <1>7, <1>11
<1>13. TopBuilt(G, m, S, C, b3)
  BY <1>8, <1>9, <1>10, TopBuiltFacts
<1>14. BranchOK(ins, Len(C))
  BY <1>4, <1>5, <1>6, <1>7 DEF BranchOK
<1>15. C[b3] = << >>
  BY <1>4, <1>5, EmptyAfter
<1>16. ASSUME anchored
       PROVE  Learns(frames, G, m, results, S, Below(Top), blocks, C, known, known, insert, ins, b3)
  <2>1. LevelOK(Top, frames, results, blocks, known, insert)
    BY <1>16, LevelFacts
  <2>2. \A c \in Range(to) \union {b3} : c \in DOMAIN blocks /\ known[c] = Level(Top, known)
    BY <1>4, <1>5 DEF Level, b3
  <2>3. Range(uses) \subseteq MadeIn(blocks, known, insert) \union {Constant}
    BY <1>4
  <2>4. \A j \in DOMAIN S : j \in 1 .. Below(Top) \/ ThenValue(G, j) \/ S[j] = NoValue
    BY <1>8
  <2>5. TopStays(G, S, C, known)
    BY <1>10 DEF TopStays
  <2> QED
    BY <1>2, <1>4, <1>8, <1>9, <1>10, <1>11, <1>16, <2>2, <2>3, <2>4, <2>5, LearnsOld
<1>17. ASSUME anchored
       PROVE  /\ Continues(G, m, blocks, C, tokens, U, ins, Pending(frames), Pending(G))
              /\ Len(U) = Len(tokens) + 1
  <2>1. Awaited(blocks, tokens, Top.mark, 1, b3)
    BY <1>17, TopPlace DEF FramePlace, b3
  <2>2. PICK y \in Nat : y = z + 2
    BY <1>3
  <2>3. op \in {"br", "condbr"} /\ TypeOK
    BY <1>1, <1>4
  <2>4. PICK x \in DOMAIN tokens : x = Top.mark
    BY <2>1 DEF Awaited
  <2>5. PatchesTo(U, op, y, x, y)
    <3>1. PICK w : w = Len(tokens) + 2
      OBVIOUS
    <3>2. PatchesTo(U, op, w, Top.mark, w)
      BY <1>4, <3>1
    <3>3. w = y
      BY <1>3, <2>2, <3>1
    <3> QED
      BY <2>4, <3>2, <3>3
  <2>6. /\ Tells(U, ins, y)
        /\ \A a \in DOMAIN tokens : a # x => U[a] = tokens[a]
        /\ U[x].to = y
    <3>1. Retells(ins, U, y, x, y)
      BY <1>4, <2>3, <2>5 DEF Retells
    <3>2. Tells(U, ins, y) /\ Retold(U, x, y)
      BY <2>3, <3>1, TellsPatched
    <3> QED
      BY <3>2 DEF Retold
  <2>7. Told(U, ins) /\ U[z + 1].to = y /\ Len(U) = z + 1
    BY <1>3, <2>6 DEF Tells, Told
  <2>8. First(C, U, b3) = y
    BY <1>15, <2>2, <2>7, FirstEmpty
  <2>9. LeadsOn(ins, C, U, Pending(G))
    BY <1>4, <1>7, <2>7, <2>8 DEF LeadsOn
  <2>10. PICK w : Awaited(blocks, tokens, x, w, b3)
    BY <2>1, <2>4
  <2>11. U[x].to = Len(tokens) + 2
    BY <1>3, <2>2, <2>6
  <2>12. \A a \in DOMAIN tokens : a # x => U[a] = tokens[a]
    BY <2>6
  <2>13. Pending(G) = Pending(frames) \ {b3}
    BY <1>11
  <2>14. Continues(G, m, blocks, C, tokens, U, ins, Pending(frames), Pending(G))
    <3>1. Branches(C, known, ins, op, uses, to, 0) /\ b3 \in Pending(frames) /\ m \notin DOMAIN G
      BY <1>4, <1>5, <1>10
    <3>2. Told(U, ins)
      BY <2>7
    <3> QED
      BY <1>17, <2>9, <2>10, <2>11, <2>12, <2>13, <3>1, <3>2, ContinuesPatched
  <2> QED
    BY <1>3, <2>7, <2>14
<1>18. /\ Built(G, S, C, b3, anchored)
       /\ anchored => Meant(G, S, C, known, U, b3)
  <2>1. \A c \in Range(to) \intersect DOMAIN blocks : \A i \in DOMAIN blocks[c] : blocks[c][i].op # "phi"
    BY <1>4, <1>5, PendingFacts
  <2>2. Range(to) \intersect Pending(frames) \subseteq Waiting(Top)
    BY <1>2, <1>4
  <2>3. b3 \in Pending(frames) \union (DOMAIN C \ DOMAIN blocks)
    BY <1>5
  <2>4. op \in {"br", "condbr"} /\ Retops(frames, G)
    BY <1>4, <1>10
  <2>5. PICK n : Branches(C, known, ins, op, uses, to, n)
    BY <1>4
  <2>6. Branched(C, known, ins, op, uses, to, n, b3)
    BY <1>8, <1>9, <1>12, <1>13, <1>14, <2>1, <2>2, <2>3, <2>4, <2>5 DEF Branched
  <2>7. Restacked(G, S, C, b3)
    BY <1>8, <1>9, <1>12, <1>13, <1>14, <2>4 DEF Restacked
  <2>8. anchored => Explained(G, S, C, known, ins, b3, U)
    BY <1>16, <1>17 DEF Explained
  <2> QED
    BY <1>8, <1>9, <2>6, <2>7, <2>8, MoveBuilt
<1>19. Sources(C, b3) = {b1, insert}
  <2>1. b3 \in Range(ins.to)
    BY <1>4, <1>7
  <2> QED
    BY <1>6, <1>7, <2>1, GrowsCode
<1>20. U \in Seq(Tokens)
  <2>1. z + 2 \in Nat /\ PatchesTo(U, op, z + 2, Top.mark, z + 2)
    BY <1>3, <1>4
  <2> QED
    BY <1>1, <1>4, <2>1, PatchType
<1>21. \A k \in DOMAIN G : G[k].base <= Below(Top)
  BY <1>10, <1>11
<1>22. \A b \in DOMAIN blocks : MadeIn(blocks, known, b) \subseteq MadeIn(C, known, b)
  <2>1. Extends(blocks, known, known)
    BY DEF Extends
  <2> QED
    BY <1>7, <2>1, MadeGrows
<1> QED
  BY <1>7, <1>10, <1>11, <1>15, <1>17, <1>18, <1>19, <1>20, <1>21, <1>22 DEF b1, b3

\* V is S and v.
Pushes(V, S, v) == V = Append(S, v)

\* The value of the if is delivered.
LEMMA JoinedPlain ==
  ASSUME IInv, phase = "emit", Top.form = "if", Top.stage = "else", Delivered = 1,
         NEW G, NEW S, NEW C, NEW U, Joined(G, S, C, U), NEW v \in Int, NEW V, Pushes(V, S, v)
  PROVE  /\ Plain(G, G, Len(G) + 1, S, V, Len(S), C) /\ Len(G) + 1 \notin DOMAIN G
         /\ V \in Seq(Int)
         /\ \A j \in DOMAIN V : (j \in DOMAIN S /\ V[j] = S[j]) \/ V[j] = v
<1>1. /\ S \in Seq(Int) /\ Len(S) = Below(Top) /\ Below(Top) \in Nat
      /\ Retops(frames, G) /\ \A k \in DOMAIN G : G[k].base <= Below(Top)
  BY JoinedResults, JoinedBuilt
<1>2. G \in Seq(Frames)
  BY <1>1, RetopsIndices
<1>3. PICK n \in Nat : n = Len(G) /\ DOMAIN G = 1 .. n
  BY <1>2, FrameFacts
<1>4. PICK r \in Nat : r = Len(S) /\ \A k \in DOMAIN G : G[k].base <= r
  BY <1>1
<1>5. V \in Seq(Int) /\ Len(V) = r + 1 /\ \A j \in 1 .. r : V[j] = S[j]
  BY <1>1, <1>4 DEF Pushes
<1>6. \A j \in DOMAIN V : (j \in DOMAIN S /\ V[j] = S[j]) \/ V[j] = v
  <2>1. DOMAIN V = 1 .. r + 1 /\ DOMAIN S = 1 .. r /\ V[r + 1] = v
    BY <1>1, <1>4, <1>5 DEF Pushes
  <2>2. \A j \in 1 .. r + 1 : j \in 1 .. r \/ j = r + 1
    BY <1>4
  <2> QED
    BY <1>5, <2>1, <2>2
<1>7. n + 1 \notin 1 .. n /\ n # n + 1
  BY <1>3
<1>8. Keeps(G, G, Len(G) + 1, S, V, r)
  <2>1. Len(G) # Len(G) + 1 /\ Len(G) \in {Len(G), Len(G) + 1} /\ r <= Len(S) /\ r <= Len(V)
    BY <1>3, <1>4, <1>5, <1>7
  <2> QED
    BY <1>1, <1>2, <1>4, <1>5, <2>1, PushKeeps
<1> QED
  BY <1>3, <1>4, <1>5, <1>6, <1>7, <1>8 DEF Plain

\* The phi of an if: its two values come from where its two parts ended.
IsPhi(phi) ==
  phi = [Instruction("phi", Fresh(2), <<results[Len(results) - 1], Last(results)>>, << >>,
                     <<Top.blocks[1], insert>>) EXCEPT !.place = @ + 1]

\* The phi names the two blocks in which the parts ended, with the values they delivered.
LEMMA PhiFacts ==
  ASSUME IInv, phase = "emit", Top.form = "if", Top.stage = "else", Delivered = 1,
         NEW G, NEW S, NEW C, NEW U, Joined(G, S, C, U), NEW phi, IsPhi(phi),
         NEW D, D = [C EXCEPT ![Top.blocks[3]] = <<phi>>]
  PROVE  /\ Merges(C, D, Top.blocks[3], phi) /\ D \in Blocks /\ Len(D) = Len(C) /\ DOMAIN D = DOMAIN C
         /\ phi.id = Fresh(2) /\ phi.place = Len(tokens) + 2
         /\ phi.from[1] = Top.blocks[1] /\ phi.from[2] = insert
         /\ phi.uses[1] = results[Top.base] /\ phi.uses[2] = Last(results)
<1> DEFINE b1 == Top.blocks[1]
           b3 == Top.blocks[3]
<1>1. TypeOK /\ blocks \in Blocks /\ results \in Seq(Int) /\ HasBlocks(Top) /\ Waiting(Top) = {b3}
  BY Emitting DEF HasBlocks, Waiting
<1>2. /\ b1 \in DOMAIN blocks /\ b3 \in DOMAIN blocks /\ b1 \in Nat /\ insert \in Nat
      /\ insert \in DOMAIN blocks /\ b1 # insert
  <2>1. b1 \in DOMAIN blocks /\ b3 \in DOMAIN blocks /\ b1 \in Nat
    BY <1>1, TopBlocks
  <2>2. insert \in DOMAIN blocks /\ b1 # insert
    BY PendingFacts DEF BlocksOK
  <2> QED
    BY <1>1, <2>1, <2>2, BlockFacts
<1>3. /\ C \in Blocks /\ DOMAIN C = DOMAIN blocks /\ C[b3] = << >> /\ Sources(C, b3) = {b1, insert}
  BY JoinedBuilt
<1>4. PICK x \in Int, y \in Int : x = results[Top.base] /\ x = results[Len(results) - 1] /\ y = Last(results)
  BY <1>1, JoinedResults, LastResult
<1>5. PICK id \in Nat \ {0} : id = Fresh(2)
  BY <1>1, FreshType
<1> HIDE DEF b1, b3
<1> DEFINE from == <<b1, insert>>
           uses == <<x, y>>
           to == << >>
           plain == Instruction("phi", id, uses, to, from)
<1>6. /\ BlockList(from) /\ Range(from) = {b1, insert} /\ DOMAIN from = 1 .. 2
      /\ from[1] = b1 /\ from[2] = insert
  BY <1>2, PlacesType
<1>7. uses \in Uses /\ DOMAIN uses = 1 .. 2 /\ uses[1] = x /\ uses[2] = y
  BY <1>4, UsesType
<1>8. BlockList(to) /\ Range(to) = {} /\ Len(to) = 0
  BY <1>2, PlacesType
<1>9. phi = [plain EXCEPT !.place = @ + 1]
  BY <1>4, <1>5 DEF IsPhi, b1
<1>10. plain = Instruction("phi", id, uses, to, from)
  OBVIOUS
<1>11. "phi" \in Ops
  BY DEF Ops
<1> HIDE DEF from, uses, to, plain
<1>12. /\ plain \in Instructions
       /\ plain.op = "phi" /\ plain.id = id /\ plain.uses = uses /\ plain.to = to /\ plain.from = from
       /\ plain.place = Len(tokens) + 1
  BY <1>1, <1>6, <1>7, <1>8, <1>10, <1>11, InstructionFacts
<1>13. PICK z \in Nat : z = Len(tokens) /\ plain.place = z + 1
  BY <1>1, <1>12 DEF TypeOK
<1>14. /\ phi \in Instructions
       /\ phi.op = "phi" /\ phi.id = id /\ phi.uses = uses /\ phi.to = to /\ phi.from = from
       /\ phi.place = z + 2
  <2>1. PICK w \in Nat : w = z + 2 /\ w = plain.place + 1
    BY <1>13
  <2>2. phi = [plain EXCEPT !.place = w]
    BY <1>9, <2>1
  <2>3. /\ phi \in Instructions /\ phi.place = w
        /\ phi.op = plain.op /\ phi.id = plain.id /\ phi.uses = plain.uses /\ phi.to = plain.to
        /\ phi.from = plain.from
    BY <1>12, <2>2 DEF Instructions
  <2> QED
    BY <1>12, <2>1, <2>3
<1>15. D = [C EXCEPT ![b3] = Append(@, phi)]
  <2>1. Append(C[b3], phi) = <<phi>>
    BY <1>3
  <2> QED
    BY <1>2, <1>3, <2>1 DEF b3
<1>16. Grows(C, D, b3, phi, 0)
  <2>1. C \in Blocks /\ b3 \in DOMAIN C /\ phi \in Instructions
    BY <1>2, <1>3, <1>14
  <2>2. Grows(C, [C EXCEPT ![b3] = Append(@, phi)], b3, phi, 0)
    BY <2>1, AppendGrows
  <2> QED
    BY <1>15, <2>2
<1>17. /\ D \in Blocks /\ Len(D) = Len(C) /\ DOMAIN D = DOMAIN C
  <2>1. D \in Blocks
    BY <1>16 DEF Grows
  <2> QED
    BY <1>15, <2>1
<1>18. Merges(C, D, b3, phi)
  BY <1>2, <1>3, <1>6, <1>7, <1>8, <1>14, <1>16 DEF Merges
<1> QED
  BY <1>4, <1>5, <1>6, <1>7, <1>13, <1>14, <1>17, <1>18 DEF b1, b3

\* The two parts meet, with a phi of their values if they have any.
LEMMA CloseIfStep == ASSUME IInv, CloseIf PROVE IInv'
<1> DEFINE b1 == Top.blocks[1]
           b3 == Top.blocks[3]
           then == results[Len(results) - 1]
           else == Last(results)
           v == IF then = NoValue THEN NoValue ELSE Fresh(2)
           br == Instruction("br", Fresh(1), << >>, <<b3>>, << >>)
           fork == [blocks EXCEPT ![insert] = Append(@, br)]
           phi == [Instruction("phi", Fresh(2), <<then, else>>, << >>, <<b1, insert>>) EXCEPT !.place = @ + 1]
<1>1. /\ phase = "emit" /\ Top.form = "if" /\ Top.stage = "else" /\ Delivered = 1
      /\ (then = NoValue) = (else = NoValue)
      /\ insert' = b3 /\ placed' = placed \union {b3}
      /\ UNCHANGED <<phase, known, size, anchored, run>>
  BY DEF CloseIf
<1>2. /\ blocks' = [fork EXCEPT ![b3] = IF then = NoValue THEN << >> ELSE <<phi>>]
      /\ results' = Append(DropLast(results, 2), v)
      /\ Patches(tokens', Jump(Fresh(1), Len(tokens) + 2), Top.mark, Len(tokens) + 2)
      /\ frames' = Front(frames)
  BY DEF CloseIf, Patches
<1>3. PICK C : C = fork
  OBVIOUS
<1>4. PICK S : S = DropLast(results, 2)
  OBVIOUS
<1>5. Joined(frames', S, C, tokens')
  BY <1>2, <1>3, <1>4 DEF Joined
<1>6. results' = Append(S, v) /\ blocks' = [C EXCEPT ![b3] = IF then = NoValue THEN << >> ELSE <<phi>>]
  BY <1>2, <1>3, <1>4
<1>7. IsPhi(phi)
  BY DEF IsPhi
<1> HIDE DEF b1, b3, v, br, fork, phi, then, else
<1>8. /\ TypeOK /\ blocks \in Blocks /\ insert \in DOMAIN blocks /\ placed = DOMAIN blocks \ Unplaced(frames)
      /\ HasBlocks(Top)
  BY <1>1, Emitting DEF HasBlocks
<1>9. b1 \in DOMAIN blocks /\ b3 \in DOMAIN blocks
  BY <1>1, <1>8, TopBlocks DEF b1, b3
<1>10. /\ Built(frames', S, C, b3, anchored)
       /\ anchored => Meant(frames', S, C, known, tokens', b3)
       /\ C \in Blocks /\ Len(C) = Len(blocks) /\ DOMAIN C = DOMAIN blocks /\ C[b3] = << >>
       /\ Unplaced(frames') = Unplaced(frames) \ {b3}
       /\ tokens' \in Seq(Tokens) /\ (anchored => Len(tokens') = Len(tokens) + 1)
       /\ Retops(frames, frames') /\ frames' # << >>
       /\ anchored => \A b \in DOMAIN blocks : MadeIn(blocks, known, b) \subseteq MadeIn(C, known, b)
  BY <1>1, <1>5, JoinedBuilt DEF b3
<1>11. v \in Int
  <2>1. Fresh(2) \in Nat
    BY <1>8, FreshType
  <2> QED
    BY <2>1 DEF v, NoValue
<1>12. PICK t, r : /\ Plain(frames', frames', t, S, results', r, C) /\ t \notin DOMAIN frames'
                   /\ results' \in Seq(Int)
                   /\ \A j \in DOMAIN results' : (j \in DOMAIN S /\ results'[j] = S[j]) \/ results'[j] = v
  <2>1. Pushes(results', S, v)
    BY <1>6 DEF Pushes
  <2>2. /\ Plain(frames', frames', Len(frames') + 1, S, results', Len(S), C)
        /\ Len(frames') + 1 \notin DOMAIN frames'
    BY <1>1, <1>5, <1>11, <2>1, JoinedPlain
  <2>3. results' \in Seq(Int)
    BY <1>1, <1>5, <1>11, <2>1, JoinedPlain
  <2>4. \A j \in DOMAIN results' : (j \in DOMAIN S /\ results'[j] = S[j]) \/ results'[j] = v
    BY <1>1, <1>5, <1>11, <2>1, JoinedPlain
  <2> QED
    BY <2>2, <2>3, <2>4
<1>13. ASSUME anchored
       PROVE  \A j \in DOMAIN S : ThenValue(frames', j) \/ Available(S[j], MadeIn(C, known, b3))
  BY <1>10, <1>13 DEF Meant, FramesKnow
<1>14. /\ Built(frames', results', blocks', b3, anchored)
       /\ anchored => Meant(frames', results', blocks', known, tokens', b3)
       /\ blocks' \in Blocks /\ Len(blocks') = Len(C) /\ DOMAIN blocks' = DOMAIN C
  <2>1. CASE then = NoValue
    <3>1. blocks' = C
      <4>1. blocks' = [C EXCEPT ![b3] = << >>]
        BY <1>6, <2>1
      <4>2. PICK l \in Nat : C \in [1 .. l -> Seq(Instructions)]
        BY <1>10, LenProperties DEF Blocks
      <4>3. C[b3] = << >>
        BY <1>10
      <4> QED
        BY <4>1, <4>2, <4>3
    <3>2. Built(frames', results', C, b3, anchored)
      BY <1>9, <1>10, <1>12, BuiltPlain
    <3>3. ASSUME anchored
          PROVE  Meant(frames', results', C, known, tokens', b3)
      <4>1. \A j \in DOMAIN results' :
              ThenValue(frames', j) \/ Available(results'[j], MadeIn(C, known, b3))
        BY <1>12, <1>13, <2>1, <3>3 DEF v, Available
      <4> QED
        BY <1>9, <1>10, <1>12, <3>3, <4>1, MeantPlain
    <3> QED
      BY <1>10, <3>1, <3>2, <3>3
  <2>2. CASE then # NoValue
    <3>1. blocks' = [C EXCEPT ![Top.blocks[3]] = <<phi>>]
      BY <1>6, <2>2 DEF b3
    <3>2. /\ Merges(C, blocks', b3, phi) /\ blocks' \in Blocks /\ Len(blocks') = Len(C)
          /\ DOMAIN blocks' = DOMAIN C
      BY <1>1, <1>5, <1>7, <3>1, PhiFacts DEF b3
    <3>3. /\ phi.id = Fresh(2) /\ phi.place = Len(tokens) + 2
          /\ phi.from[1] = b1 /\ phi.from[2] = insert
          /\ phi.uses[1] = results[Top.base] /\ phi.uses[2] = else
      BY <1>1, <1>5, <1>7, <3>1, PhiFacts DEF b1, else
    <3>4. ASSUME NEW k \in DOMAIN frames', Looping(frames'[k])
          PROVE  frames'[k].blocks[2] # b3
      <4>1. Len(frames) \notin DOMAIN frames'
        BY <1>1, <1>2, PopFacts
      <4>2. k \in DOMAIN frames /\ frames'[k] = frames[k]
        BY <1>10, <3>4, <4>1, RetopsIndices
      <4>3. BlocksOK(frames[k], blocks, Pending(frames), insert)
        BY <1>1, <4>2, Emitting DEF Built
      <4>4. b3 \in Pending(frames)
        <5>1. b3 \in Waiting(Top)
          BY <1>1 DEF Waiting, b3
        <5> QED
          BY <1>1, <1>8, <5>1, TopBlocks
      <4> QED
        BY <3>4, <4>2, <4>3, <4>4 DEF BlocksOK
    <3>5. Built(frames', results', blocks', b3, anchored)
      BY <1>10, <1>12, <3>2, <3>4, BuiltPhi
    <3>6. ASSUME anchored
          PROVE  Meant(frames', results', blocks', known, tokens', b3)
      <4>1. Grows(C, blocks', b3, phi, 0) /\ phi.op = "phi" /\ Extends(C, known, known)
        BY <3>2 DEF Merges, Extends
      <4>2. phi.op \notin Terminators
        BY <4>1 DEF Terminators
      <4>3. MadeIn(C, known, b3) \subseteq MadeIn(blocks', known, b3) /\ phi.id \in MadeIn(blocks', known, b3)
        BY <1>9, <1>10, <4>1, <4>2, MadeGrows
      <4>4. \A j \in DOMAIN results' :
              ThenValue(frames', j) \/ Available(results'[j], MadeIn(blocks', known, b3))
        BY <1>12, <1>13, <2>2, <3>3, <3>6, <4>3 DEF v, Available
      <4>5. then = results[Top.base] /\ Delivered >= 1
        BY <1>1, <1>5, JoinedResults DEF then
      <4>6. phi.uses[1] \in MadeIn(C, known, b1) \union {Constant}
        <5>1. LevelOK(Top, frames, results, blocks, known, insert)
          BY <1>1, <3>6, LevelFacts
        <5>2. Available(then, MadeIn(blocks, known, b1))
          BY <1>1, <1>8, <4>5, <5>1 DEF LevelOK, b1
        <5> QED
          BY <1>9, <1>10, <2>2, <3>3, <3>6, <4>5, <5>2 DEF Available
      <4>7. phi.uses[2] \in MadeIn(C, known, insert) \union {Constant}
        <5>1. Available(else, MadeIn(blocks, known, insert))
          BY <1>1, <3>6, <4>5, LastResult DEF else
        <5>2. else # NoValue
          BY <1>1, <2>2
        <5> QED
          BY <1>8, <1>10, <3>3, <3>6, <5>1, <5>2 DEF Available
      <4>8. \A m \in 1 .. 2 : /\ phi.from[m] \in DOMAIN C
                              /\ phi.uses[m] \in MadeIn(C, known, phi.from[m]) \union {Constant}
        <5>1. \A m \in 1 .. 2 : m = 1 \/ m = 2
          OBVIOUS
        <5> QED
          BY <1>8, <1>9, <1>10, <3>3, <4>6, <4>7, <5>1
      <4>9. phi.place = Len(tokens') + 1
        <5>1. PICK z \in Nat : z = Len(tokens)
          BY <1>8 DEF TypeOK
        <5> QED
          BY <1>10, <3>3, <3>6, <5>1
      <4>10. Built(frames', S, C, b3, anchored) /\ Meant(frames', S, C, known, tokens', b3)
             /\ tokens' \in Seq(Tokens)
        BY <1>10, <3>6
      <4>11. PhiFits(C, known, tokens', phi)
        BY <4>8, <4>9 DEF PhiFits
      <4>12. Plain(frames', frames', t, S, results', r, C) /\ t \notin DOMAIN frames'
        BY <1>12
      <4>13. Merges(C, blocks', b3, phi)
        BY <3>2
      <4> QED
        BY <4>4, <4>10, <4>11, <4>12, <4>13, MeantPhi
    <3> QED
      BY <3>2, <3>5, <3>6
  <2> QED
    BY <2>1, <2>2
<1>15. phase' = "emit" /\ anchored' = anchored /\ UNCHANGED run /\ known' = known /\ size' = size /\ insert' = b3
       /\ placed' = placed \union {b3}
  BY <1>1
<1>16. placed' = DOMAIN blocks' \ Unplaced(frames')
  BY <1>8, <1>9, <1>10, <1>14, <1>15
<1>17. frames' \in Seq(Frames)
  BY <1>10, RetopsIndices
<1>18. TypeOK'
  BY <1>8, <1>9, <1>10, <1>12, <1>14, <1>15, <1>17 DEF TypeOK, run
<1>19. /\ Built(frames', results', blocks', insert', anchored')
       /\ anchored' => Meant(frames', results', blocks', known', tokens', insert')
  BY <1>14, <1>15
<1>20. phase = "emit" /\ frames' # << >>
  BY <1>1, <1>10
<1> QED
  BY <1>15, <1>16, <1>18, <1>19, <1>20, Emits

-----------------------------------------------------------------------------
(* The end of the function.                                                 *)

\* The function's own frame waits for nothing.
LEMMA LastFrame ==
  ASSUME IInv, phase = "emit", Top.form = "function"
  PROVE  Pending(frames) = {} /\ Unplaced(frames) = {}
<1>1. frames \in Seq(Frames) /\ Len(frames) = 1 /\ FormOK(Top) /\ Top = frames[1]
  BY Emitting, TopFacts
<1>2. DOMAIN frames = {1}
  BY <1>1
<1>3. Waiting(frames[1]) = {}
  BY <1>1 DEF Waiting, FormOK
<1> QED
  BY <1>2, <1>3 DEF Pending, Unplaced

\* What the run relies on, the function complete.
Runs(B, K, T) ==
  /\ B \in Blocks /\ Entry \in DOMAIN B
  /\ \A b \in DOMAIN B : Closed(B[b])
  /\ BranchesOK(B, {}) /\ Flow(B, K) /\ PathOK(B, T, {}, {})

\* Control has come to an instruction.
Arrived(B, K, a, done, x) ==
  /\ a.block \in DOMAIN B /\ a.i \in DOMAIN B[a.block]
  /\ x = B[a.block][a.i].place
  /\ Before(B, K, a.block, a.i) \subseteq done
  /\ B[a.block][a.i].op = "phi" =>
       a.from \in Sources(B, a.block) /\ MadeIn(B, K, a.from) \subseteq done

\* A function without frames.
LEMMA NoFrames ==
  ASSUME NEW B, NEW K, NEW T, NEW p, NEW F, F = << >>, NEW R, R = << >>
  PROVE  /\ FramesNest(F, R, B) /\ Pending(F) = {} /\ Unplaced(F) = {} /\ Filling(F, p) = {}
         /\ \A Q : \A k \in DOMAIN F : BlocksOK(F[k], B, Q, p)
         /\ FramesKnow(F, R, B, K, p)
         /\ \A k \in DOMAIN F : FramePlace(F[k], B, T)
<1>1. DOMAIN F = {} /\ DOMAIN R = {}
  OBVIOUS
<1>2. FramesNest(F, R, B)
  BY <1>1 DEF FramesNest
<1>3. Pending(F) = {} /\ Unplaced(F) = {} /\ Filling(F, p) = {}
  BY <1>1 DEF Pending, Unplaced, Filling
<1>4. FramesKnow(F, R, B, K, p)
  BY <1>1 DEF FramesKnow
<1> QED
  BY <1>1, <1>2, <1>3, <1>4

\* The state of a function that has become complete.
LEMMA Completed ==
  ASSUME TypeOK', phase' \in {"run", "returned"}, frames' = << >>, results' = << >>,
         Stands(blocks', {}, {}), anchored' => EntryStands(blocks', {}),
         placed' = DOMAIN blocks', BranchesOK(blocks', {}),
         anchored' => Flow(blocks', known') /\ PathOK(blocks', tokens', {}, {}),
         at'.block \in DOMAIN blocks',
         phase' = "run" /\ anchored' => Arrived(blocks', known', at', ran', place')
  PROVE  IInv'
<1>1. /\ FramesNest(frames', results', blocks') /\ Pending(frames') = {} /\ Unplaced(frames') = {}
      /\ Filling(frames', insert') = {}
      /\ FramesKnow(frames', results', blocks', known', insert')
  BY NoFrames
<1>2. /\ \A k \in DOMAIN frames' : BlocksOK(frames'[k], blocks', Pending(frames'), insert')
      /\ \A k \in DOMAIN frames' : FramePlace(frames'[k], blocks', tokens')
  BY NoFrames
<1>3. Layout'
  BY <1>1 DEF Layout
<1>4. Edges'
  BY <1>1, <1>2 DEF Edges
<1>5. anchored' => Knowledge' /\ Places'
  BY <1>1, <1>2 DEF Knowledge, Places
<1>6. RunOK'
  BY DEF RunOK, Arrived, Current
<1> QED
  BY <1>3, <1>4, <1>5, <1>6 DEF IInv

\* What holds while the function runs.
LEMMA Running1 ==
  ASSUME IInv, phase # "emit"
  PROVE  /\ TypeOK /\ frames = << >> /\ blocks \in Blocks /\ Entry \in DOMAIN blocks
         /\ Stands(blocks, {}, {}) /\ (anchored => EntryStands(blocks, {}))
         /\ placed = DOMAIN blocks /\ BranchesOK(blocks, {})
         /\ anchored => Flow(blocks, known) /\ PathOK(blocks, tokens, {}, {}) /\ Runs(blocks, known, tokens)
         /\ at.block \in DOMAIN blocks
         /\ phase = "run" /\ anchored => Arrived(blocks, known, at, ran, place)
<1>1. TypeOK /\ frames = << >> /\ blocks \in Blocks /\ insert \in DOMAIN blocks
  BY DEF IInv, RunOK, TypeOK
<1>2. DOMAIN frames = {}
  BY <1>1
<1>3. Pending(frames) = {} /\ Unplaced(frames) = {} /\ Filling(frames, insert) = {}
  BY <1>1, <1>2 DEF Pending, Unplaced, Filling
<1>4. /\ Stands(blocks, {}, {}) /\ (anchored => EntryStands(blocks, {}))
      /\ placed = DOMAIN blocks /\ BranchesOK(blocks, {})
  BY <1>3 DEF IInv, Layout, Edges
<1>5. anchored => Flow(blocks, known) /\ PathOK(blocks, tokens, {}, {})
  BY <1>3 DEF IInv, Knowledge, Places
<1>6. Entry \in DOMAIN blocks
  BY <1>1, BlockFacts DEF Entry
<1>7. anchored => \A b \in DOMAIN blocks : Closed(blocks[b])
  BY <1>4 DEF Stands, EntryStands
<1>8. at.block \in DOMAIN blocks /\ (phase = "run" /\ anchored => Arrived(blocks, known, at, ran, place))
  BY DEF IInv, RunOK, Arrived, Current
<1> QED
  BY <1>1, <1>4, <1>5, <1>6, <1>7, <1>8 DEF Runs

\* The entry block has begun when the function is complete.
LEMMA Started ==
  ASSUME NEW B, NEW K, NEW T, Runs(B, K, T),
         NEW a, a.block = Entry, a.i = 1, NEW done
  PROVE  Arrived(B, K, a, done, 1)
<1>1. B \in Blocks /\ Entry \in DOMAIN B /\ B[Entry] # << >>
  BY DEF Runs, Closed
<1>2. 1 \in DOMAIN B[Entry]
  BY <1>1, BlockFacts
<1>3. B[Entry][1].place = 1
  BY <1>1 DEF Runs, PathOK, First
<1>4. Before(B, K, Entry, 1) = {}
  <2>1. K[Entry] = {}
    BY DEF Runs, Flow
  <2>2. 1 .. 1 - 1 = {}
    OBVIOUS
  <2> QED
    BY <2>1, <2>2 DEF Before
<1>5. B[Entry][1].op # "phi"
  BY <1>1, <1>2, EntrySources DEF Runs
<1> QED
  BY <1>1, <1>2, <1>3, <1>4, <1>5 DEF Arrived

\* The builder's last instruction is the return.
Returns(B, ins) ==
  /\ Grows(blocks, B, insert, ins, 0)
  /\ ins.op = "ret" /\ Range(ins.to) = {} /\ Len(ins.to) = 0
  /\ ins.place = Len(tokens) + 1
  /\ anchored => Range(ins.uses) \subseteq MadeIn(blocks, known, insert) \union {Constant}

\* The instruction EndFunction adds is a return of a value there is.
LEMMA ReturnMade ==
  ASSUME IInv, EndFunction
  PROVE  \E ins : Returns(blocks', ins)
<1> DEFINE uses == IF Last(results) = NoValue THEN << >> ELSE <<Last(results)>>
           to == << >>
           op == "ret"
           ins == Instruction(op, Fresh(1), uses, to, to)
<1>1. /\ phase = "emit" /\ Delivered >= 1
      /\ blocks' = [blocks EXCEPT ![insert] = Append(@, ins)]
  BY DEF EndFunction
<1>2. TypeOK /\ blocks \in Blocks /\ insert \in DOMAIN blocks
  BY <1>1, Emitting
<1>3. PICK v \in Int : v = Last(results) /\ (anchored => Available(v, MadeIn(blocks, known, insert)))
  BY <1>1, LastResult
<1>4. uses \in Uses /\ (anchored => Range(uses) \subseteq MadeIn(blocks, known, insert) \union {Constant})
  <2>1. CASE v = NoValue
    BY <1>3, <2>1, NoUses
  <2>2. CASE v # NoValue
    <3>1. <<v>> \in Uses /\ Range(<<v>>) = {v}
      BY UsesType
    <3> QED
      BY <1>3, <2>2, <3>1 DEF Available
  <2> QED
    BY <2>1, <2>2
<1>5. BlockList(to) /\ Range(to) = {} /\ Len(to) = 0 /\ op \in Ops /\ op = "ret"
  <2>1. 0 \in Nat
    OBVIOUS
  <2>2. BlockList(<< >>) /\ Range(<< >>) = {} /\ Len(<< >>) = 0
    BY <2>1, PlacesType
  <2> QED
    BY <2>2 DEF Ops
<1>6. PICK id \in Nat \ {0} : id = Fresh(1)
  BY <1>2, FreshType
<1>7. ins = Instruction(op, id, uses, to, to)
  BY <1>6
<1> HIDE DEF uses, to, op, ins
<1>8. /\ ins \in Instructions
      /\ ins.op = op /\ ins.uses = uses /\ ins.to = to /\ ins.place = Len(tokens) + 1
  BY <1>2, <1>4, <1>5, <1>7, InstructionFacts
<1>9. Grows(blocks, blocks', insert, ins, 0)
  BY <1>1, <1>2, <1>8, AppendGrows
<1> QED
  BY <1>4, <1>5, <1>8, <1>9 DEF Returns

\* The function is complete: no frame is left, every block is closed.
LEMMA EndFunctionStep == ASSUME IInv, EndFunction PROVE IInv'
<1>1. /\ phase = "emit" /\ Top.form = "function"
      /\ phase' = "run" /\ frames' = << >> /\ results' = << >>
      /\ UNCHANGED <<shape, size, anchored, tokens, run>>
  BY DEF EndFunction
<1>2. placed' = placed /\ insert' = insert /\ known' = known /\ anchored' = anchored
      /\ tokens' = tokens /\ at' = at /\ ran' = ran /\ place' = place /\ size' = size
  BY <1>1 DEF shape, run
<1>3. PICK ins : Returns(blocks', ins)
  BY ReturnMade
<1>4. /\ Grows(blocks, blocks', insert, ins, 0) /\ ins.op = "ret" /\ Range(ins.to) = {} /\ Len(ins.to) = 0
      /\ ins.place = Len(tokens) + 1 /\ ins.op \in Terminators /\ ins.op # "phi" /\ ins.op \notin Written
  BY <1>3 DEF Returns, Terminators, Written
<1>5. /\ TypeOK /\ Pending(frames) = {} /\ Unplaced(frames) = {}
      /\ Built(frames, results, blocks, insert, anchored)
      /\ placed = DOMAIN blocks /\ blocks \in Blocks /\ insert \in DOMAIN blocks
      /\ anchored => Meant(frames, results, blocks, known, tokens, insert)
  BY <1>1, Emitting, LastFrame
<1>6. /\ DOMAIN blocks' = DOMAIN blocks /\ blocks' \in Blocks /\ Len(blocks') = Len(blocks)
      /\ Entry \in DOMAIN blocks
  <2>1. DOMAIN blocks' = DOMAIN blocks /\ Len(blocks') = Len(blocks) + 0 /\ blocks' \in Blocks
    BY <1>4, GrowsDomain DEF Grows
  <2>2. Len(blocks) \in Nat /\ Entry \in DOMAIN blocks
    BY <1>1, <1>5, BlockFacts, PendingFacts
  <2> QED
    BY <2>1, <2>2
<1>7. Stands(blocks', {}, {}) /\ (anchored => EntryStands(blocks', {}))
  <2>1. Stands(blocks, {}, {insert}) /\ (anchored => EntryStands(blocks, {insert}))
    BY <1>5 DEF Built
  <2> QED
    BY <1>4, <2>1, StandsReturn
<1>8. BranchesOK(blocks', {})
  <2>1. BranchOK(ins, Len(blocks'))
    BY <1>4 DEF BranchOK
  <2>2. PICK M : M = {}
    OBVIOUS
  <2>3. \A b \in M : b \in {insert} \/ b \notin DOMAIN blocks \/ blocks[b] = << >>
    BY <2>2
  <2>4. \A c \in Range(ins.to) \intersect DOMAIN blocks : \A i \in DOMAIN blocks[c] : blocks[c][i].op # "phi"
    BY <1>4
  <2>5. BranchesOK(blocks, {insert})
    BY <1>5 DEF Built
  <2>6. BranchesOK(blocks', M)
    BY <1>4, <2>1, <2>3, <2>4, <2>5, BranchesGrow
  <2> QED
    BY <2>2, <2>6
<1>9. ASSUME anchored
      PROVE  Flow(blocks', known) /\ PathOK(blocks', tokens, {}, {})
  <2>1. /\ Flow(blocks, known) /\ PathOK(blocks, tokens, {}, {insert})
        /\ BranchesOK(blocks, {insert}) /\ Stands(blocks, {}, {insert})
    BY <1>5, <1>9 DEF Built, Meant
  <2>2. Open(blocks[insert])
    BY <2>1 DEF Stands
  <2>3. Extends(blocks, known, known)
    BY DEF Extends
  <2>4. Knowing(blocks, known, known, insert, ins)
    BY <1>3, <1>4, <1>9 DEF Knowing, Returns
  <2>5. Flow(blocks', known)
    BY <1>4, <2>1, <2>2, <2>3, <2>4, FlowGrows
  <2>6. PICK N : N = {}
    OBVIOUS
  <2>7. N \subseteq {insert} /\ (ins.op = "ret" => N = {})
    BY <2>6
  <2>8. PathOK(blocks', tokens, {}, N)
    BY <1>4, <2>1, <2>7, PathUnsaid
  <2> QED
    BY <2>5, <2>6, <2>8
<1>10. ASSUME anchored
       PROVE  Arrived(blocks', known, at, ran, place)
  <2>1. \A b \in DOMAIN blocks' : Closed(blocks'[b])
    BY <1>7, <1>10 DEF Stands, EntryStands
  <2>2. Runs(blocks', known, tokens)
    BY <1>6, <1>8, <1>9, <1>10, <2>1 DEF Runs
  <2>3. at.block = Entry /\ at.i = 1 /\ place = 1
    BY <1>1 DEF IInv, RunOK
  <2> QED
    BY <2>2, <2>3, Started
<1>11. at.block = Entry
  BY <1>1 DEF IInv, RunOK
<1>12. TypeOK'
  BY <1>1, <1>2, <1>5, <1>6 DEF TypeOK
<1> QED
  BY <1>1, <1>2, <1>5, <1>6, <1>7, <1>8, <1>9, <1>10, <1>11, <1>12, Completed

-----------------------------------------------------------------------------
(* The run.                                                                 *)

\* A step of the run keeps the invariant if control has come to an instruction.
LEMMA RunStep ==
  ASSUME IInv, phase = "run", phase' \in {"run", "returned"}, UNCHANGED emit,
         at' \in [block : Nat, i : Nat, from : Nat], ran' \in SUBSET Nat,
         anchored => place' \in Nat,
         at'.block \in DOMAIN blocks,
         phase' = "run" /\ anchored => Arrived(blocks, known, at', ran', place')
  PROVE  IInv'
<1>1. /\ blocks' = blocks /\ placed' = placed /\ insert' = insert /\ known' = known
      /\ frames' = frames /\ results' = results /\ size' = size /\ anchored' = anchored
      /\ tokens' = tokens
  BY DEF emit, graph, shape
<1>2. TypeOK'
  BY <1>1 DEF IInv, TypeOK
<1>3. Layout' /\ Edges'
  BY <1>1 DEF IInv, Layout, Edges
<1>4. anchored' => Knowledge' /\ Places'
  BY <1>1 DEF IInv, Knowledge, Places
<1>5. frames = << >>
  BY DEF IInv, RunOK
<1>6. RunOK'
  BY <1>1, <1>5 DEF RunOK, Arrived, Current
<1> QED
  BY <1>2, <1>3, <1>4, <1>6 DEF IInv

\* The instruction control has come to.
LEMMA CurrentFacts ==
  ASSUME IInv, NEW ops, Running(ops)
  PROVE  /\ phase = "run" /\ blocks \in Blocks /\ at.block \in DOMAIN blocks /\ at.block \in Nat
         /\ at.i \in DOMAIN blocks[at.block] /\ at.i \in Nat
         /\ at \in [block : Nat, i : Nat, from : Nat] /\ ran \in SUBSET Nat
         /\ (anchored => place \in Nat)
         /\ Current = blocks[at.block][at.i] /\ Current \in Code(blocks) /\ Current \in Instructions
         /\ Current.op \in ops
         /\ BranchesOK(blocks, {}) /\ BranchOK(Current, Len(blocks))
         /\ anchored => Runs(blocks, known, tokens) /\ Arrived(blocks, known, at, ran, place)
<1>1. phase = "run" /\ at.i \in DOMAIN blocks[at.block] /\ Current.op \in ops
  BY DEF Running
<1>2. /\ TypeOK /\ blocks \in Blocks /\ BranchesOK(blocks, {}) /\ at.block \in DOMAIN blocks
      /\ anchored => Runs(blocks, known, tokens) /\ Arrived(blocks, known, at, ran, place)
  BY <1>1, Running1
<1>3. Current \in Code(blocks) /\ Current \in Instructions
  BY <1>1, <1>2, CodeFacts DEF Current
<1>4. BranchOK(Current, Len(blocks))
  BY <1>2, <1>3 DEF BranchesOK
<1>5. /\ at \in [block : Nat, i : Nat, from : Nat] /\ ran \in SUBSET Nat
      /\ (anchored => place \in Nat) /\ at.block \in Nat /\ at.i \in Nat
  BY <1>2 DEF TypeOK
<1> QED
  BY <1>1, <1>2, <1>3, <1>4, <1>5 DEF Current

\* Only the last instruction of a block is a terminator.
LEMMA ClosedFacts ==
  ASSUME NEW B \in Blocks, NEW b \in DOMAIN B, Closed(B[b]), NEW i \in DOMAIN B[b]
  PROVE  /\ i \in Nat /\ i >= 1
         /\ B[b][i].op \notin Terminators =>
              /\ i + 1 \in DOMAIN B[b] /\ i \in 1 .. Len(B[b]) - 1 /\ i + 1 # 1
         /\ B[b][i].op \in Terminators =>
              \A j \in DOMAIN B[b] : B[b][j].op \notin Terminators => j \in 1 .. i - 1
<1>1. PICK n \in Nat : n = Len(B[b]) /\ DOMAIN B[b] = 1 .. n /\ B[b] \in Seq(Instructions)
  BY BlockFacts
<1>2. n >= 1 /\ B[b][n].op \in Terminators
  <2>1. PICK s \in Seq(Instructions) : s = B[b]
    BY <1>1
  <2>2. s # << >> /\ Last(s).op \in Terminators
    BY <2>1 DEF Closed
  <2>3. n = Len(s)
    BY <1>1, <2>1
  <2>4. n # 0
    BY <2>2, <2>3, EmptySeq
  <2>5. Last(s) = s[n]
    BY <2>3 DEF Last
  <2> QED
    BY <2>1, <2>2, <2>4, <2>5
<1>3. \A j \in 1 .. n - 1 : B[b][j].op \notin Terminators
  BY <1>1 DEF Closed
<1>4. i \in 1 .. n /\ i \in Nat /\ i >= 1
  BY <1>1
<1>5. ASSUME B[b][i].op \notin Terminators PROVE i + 1 \in 1 .. n /\ i \in 1 .. n - 1 /\ i + 1 # 1
  BY <1>2, <1>4, <1>5
<1>6. ASSUME B[b][i].op \in Terminators, NEW j \in 1 .. n, B[b][j].op \notin Terminators
      PROVE  j \in 1 .. i - 1
  <2>1. i = n /\ j # n
    BY <1>2, <1>3, <1>4, <1>6
  <2> QED
    BY <1>6, <2>1
<1> QED
  BY <1>1, <1>4, <1>5, <1>6

\* Control falls through to the next instruction.
LEMMA FallsThrough ==
  ASSUME NEW B, NEW K, NEW T, Runs(B, K, T),
         NEW a, NEW done, NEW x, Arrived(B, K, a, done, x), a.block \in DOMAIN B,
         NEW ins, ins = B[a.block][a.i], ins.op \notin Terminators,
         NEW c, c.block = a.block, c.i = a.i + 1,
         NEW y, y = IF ins.op \in Written THEN x + 1 ELSE x
  PROVE  Arrived(B, K, c, done \union {ins.id}, y)
<1>1. /\ B \in Blocks /\ BranchesOK(B, {}) /\ Closed(B[a.block]) /\ a.i \in DOMAIN B[a.block]
      /\ x = ins.place /\ Before(B, K, a.block, a.i) \subseteq done
  BY DEF Runs, Arrived
<1>2. PICK i : i = a.i /\ i \in DOMAIN B[a.block] /\ ins = B[a.block][i]
  BY <1>1
<1>3. /\ i \in Nat /\ i >= 1 /\ i + 1 \in DOMAIN B[a.block] /\ i \in 1 .. Len(B[a.block]) - 1 /\ i + 1 # 1
  BY <1>1, <1>2, ClosedFacts
<1>4. B[a.block][i + 1].place = y
  <2>1. B[a.block][i + 1].place = Next1(ins)
    BY <1>2, <1>3 DEF Runs, PathOK
  <2> QED
    BY <1>1, <2>1 DEF Next1
<1>5. Before(B, K, a.block, i + 1) \subseteq done \union {ins.id}
  <2>1. 1 .. (i + 1) - 1 = (1 .. i - 1) \union {i}
    BY <1>3
  <2>2. Before(B, K, a.block, i + 1) = Before(B, K, a.block, i) \union {ins.id}
    BY <1>2, <2>1 DEF Before
  <2> QED
    BY <1>1, <1>2, <2>2
<1>6. B[a.block][i + 1].op # "phi"
  BY <1>1, <1>3 DEF BranchesOK, PhiOK
<1>7. c.block = a.block /\ c.i = i + 1
  BY <1>2
<1> QED
  BY <1>3, <1>4, <1>5, <1>6, <1>7 DEF Arrived

\* Control goes to the block a branch names.
LEMMA GoesTo ==
  ASSUME NEW B, NEW K, NEW T, Runs(B, K, T),
         NEW a, NEW done, NEW x, Arrived(B, K, a, done, x), a.block \in DOMAIN B,
         NEW ins, ins = B[a.block][a.i], ins.op \in Terminators,
         NEW b \in Range(ins.to), NEW c, c.block = b, c.i = 1, c.from = a.block
  PROVE  Arrived(B, K, c, done, First(B, T, b)) /\ b \in DOMAIN B
<1>1. /\ B \in Blocks /\ BranchesOK(B, {}) /\ Closed(B[a.block]) /\ a.i \in DOMAIN B[a.block]
      /\ x = ins.place /\ Before(B, K, a.block, a.i) \subseteq done /\ Flow(B, K)
  BY DEF Runs, Arrived
<1>2. PICK i : i = a.i /\ i \in DOMAIN B[a.block] /\ ins = B[a.block][i]
  BY <1>1
<1>3. b \in DOMAIN B /\ b # Entry
  BY <1>1, <1>2, BranchFacts
<1>4. B[b] # << >> /\ 1 \in DOMAIN B[b]
  <2>1. B[b] # << >>
    BY <1>3 DEF Runs, Closed
  <2> QED
    BY <1>1, <1>3, <2>1, BlockFacts
<1>5. First(B, T, b) = B[b][1].place
  BY <1>4 DEF First
<1>6. Before(B, K, b, 1) \subseteq done
  <2>1. K[b] \subseteq Before(B, K, a.block, i)
    BY <1>1, <1>2 DEF Flow
  <2>2. 1 .. 1 - 1 = {}
    OBVIOUS
  <2>3. Before(B, K, b, 1) = K[b]
    BY <2>2 DEF Before
  <2> QED
    BY <1>1, <1>2, <2>1, <2>3
<1>7. a.block \in Sources(B, b)
  BY <1>1, <1>2, CodeFacts
<1>8. MadeIn(B, K, a.block) \subseteq done
  <2>1. \A j \in DOMAIN B[a.block] : B[a.block][j].op \notin Terminators => j \in 1 .. i - 1
    BY <1>1, <1>2, ClosedFacts
  <2>2. MadeIn(B, K, a.block) \subseteq Before(B, K, a.block, i)
    BY <2>1 DEF MadeIn, Computed, Before
  <2> QED
    BY <1>1, <1>2, <2>2
<1> QED
  BY <1>3, <1>4, <1>5, <1>6, <1>7, <1>8 DEF Arrived

\* An instruction that falls through.
LEMMA StepStep == ASSUME IInv, Step PROVE IInv'
<1>1. /\ Running({"load", "store", "call", "alloca", "argument", "phi"})
      /\ ran' = ran \union {Current.id} /\ at' = [at EXCEPT !.i = @ + 1]
      /\ place' = IF Current.op \in Written THEN place + 1 ELSE place
      /\ phase' = phase /\ UNCHANGED emit
  BY DEF Step
<1>2. /\ phase = "run" /\ blocks \in Blocks /\ at.block \in DOMAIN blocks
      /\ at.i \in Nat /\ at \in [block : Nat, i : Nat, from : Nat] /\ ran \in SUBSET Nat
      /\ (anchored => place \in Nat)
      /\ Current = blocks[at.block][at.i] /\ Current \in Instructions
      /\ Current.op \in {"load", "store", "call", "alloca", "argument", "phi"}
      /\ anchored => Runs(blocks, known, tokens) /\ Arrived(blocks, known, at, ran, place)
  BY <1>1, CurrentFacts
<1>3. Current.id \in Nat /\ Current.op \notin Terminators
  BY <1>2 DEF Instructions, Terminators
<1>4. /\ at' \in [block : Nat, i : Nat, from : Nat] /\ at'.block = at.block /\ at'.i = at.i + 1
  BY <1>1, <1>2
<1>5. ASSUME anchored PROVE Arrived(blocks, known, at', ran', place')
  BY <1>1, <1>2, <1>3, <1>4, <1>5, FallsThrough
<1>6. ran' \in SUBSET Nat /\ (anchored => place' \in Nat)
  BY <1>1, <1>2, <1>3
<1>7. phase' \in {"run", "returned"} /\ at'.block \in DOMAIN blocks
  BY <1>1, <1>2, <1>4
<1> QED
  BY <1>1, <1>2, <1>4, <1>5, <1>6, <1>7, RunStep

\* What the body says of a branch that is executed.
LEMMA BranchSays ==
  ASSUME IInv, NEW ops, Running(ops), anchored, Current.op \in {"br", "condbr"}
  PROVE  /\ place = Current.place /\ tokens[place].to \in Nat
         /\ Current.op = "br" => tokens[place].to = First(blocks, tokens, Current.to[1])
         /\ Current.op = "condbr" =>
              /\ place + 1 = First(blocks, tokens, Current.to[1])
              /\ tokens[place].to = First(blocks, tokens, Current.to[2])
<1>1. /\ Current = blocks[at.block][at.i] /\ Current \in Code(blocks)
      /\ Runs(blocks, known, tokens) /\ Arrived(blocks, known, at, ran, place)
      /\ phase = "run"
  BY CurrentFacts
<1>2. place = Current.place
  BY <1>1 DEF Arrived
<1>3. Said(Current, tokens) /\ LeadsOn(Current, blocks, tokens, {})
  BY <1>1 DEF Runs, PathOK
<1>4. Current.place \in DOMAIN tokens
  BY <1>3 DEF Said, Written
<1>5. tokens \in Seq(Tokens)
  BY DEF IInv, TypeOK
<1>6. tokens[place] \in Tokens
  BY <1>2, <1>4, <1>5
<1> QED
  BY <1>2, <1>3, <1>6 DEF LeadsOn, Tokens

\* Control goes to block b of those the instruction names.
LEMMA Goes ==
  ASSUME IInv, NEW ops, Running(ops), Current.op \in Terminators,
         NEW b \in Range(Current.to), GoTo(b), UNCHANGED <<phase, emit, ran>>,
         anchored => place' = First(blocks, tokens, b) /\ place' \in Nat
  PROVE  IInv'
<1>1. /\ phase = "run" /\ blocks \in Blocks /\ at.block \in DOMAIN blocks /\ at.block \in Nat
      /\ Current = blocks[at.block][at.i] /\ ran \in SUBSET Nat
      /\ BranchOK(Current, Len(blocks))
      /\ anchored => Runs(blocks, known, tokens) /\ Arrived(blocks, known, at, ran, place)
  BY CurrentFacts
<1>2. b \in DOMAIN blocks /\ b \in Nat
  <2>1. b \in 1 .. Len(blocks) /\ DOMAIN blocks = 1 .. Len(blocks) /\ Len(blocks) \in Nat
    BY <1>1, BlockFacts DEF BranchOK
  <2> QED
    BY <2>1
<1>3. /\ at' \in [block : Nat, i : Nat, from : Nat] /\ at'.block = b /\ at'.i = 1
      /\ at'.from = at.block
  BY <1>1, <1>2 DEF GoTo
<1>4. ASSUME anchored PROVE Arrived(blocks, known, at', ran', place')
  <2>1. Arrived(blocks, known, at', ran, First(blocks, tokens, b))
    BY <1>1, <1>3, <1>4, GoesTo
  <2> QED
    BY <1>4, <2>1
<1>5. phase' \in {"run", "returned"} /\ UNCHANGED emit /\ ran' \in SUBSET Nat
  BY <1>1
<1> QED
  BY <1>1, <1>2, <1>3, <1>4, <1>5, RunStep

\* An unconditional branch.
LEMMA StepBranchStep == ASSUME IInv, StepBranch PROVE IInv'
<1>1. /\ Running({"br"}) /\ GoTo(Current.to[1]) /\ place' = tokens[place].to
      /\ UNCHANGED <<phase, emit, ran>>
  BY DEF StepBranch
<1>2. Current.op = "br" /\ BranchOK(Current, Len(blocks)) /\ Current \in Instructions
  BY <1>1, CurrentFacts
<1>3. Current.op \in Terminators /\ Current.op \in {"br", "condbr"}
  BY <1>2 DEF Terminators
<1>4. PICK b \in Range(Current.to) : b = Current.to[1]
  <2>1. Current.to \in Seq(Nat) /\ Len(Current.to) = 1
    BY <1>2 DEF BranchOK, Instructions
  <2> QED
    BY <2>1 DEF Range
<1>5. anchored => place' = First(blocks, tokens, b) /\ place' \in Nat
  BY <1>1, <1>2, <1>3, <1>4, BranchSays
<1>6. GoTo(b)
  BY <1>1, <1>4
<1> QED
  BY <1>1, <1>3, <1>5, <1>6, Goes

\* A conditional branch, whichever way it goes.
LEMMA StepConditionStep ==
  ASSUME IInv, NEW holds \in BOOLEAN, StepCondition(holds)
  PROVE  IInv'
<1>1. /\ Running({"condbr"}) /\ GoTo(Current.to[IF holds THEN 1 ELSE 2])
      /\ place' = IF holds THEN place + 1 ELSE tokens[place].to
      /\ UNCHANGED <<phase, emit, ran>>
  BY DEF StepCondition
<1>2. /\ Current.op = "condbr" /\ BranchOK(Current, Len(blocks)) /\ Current \in Instructions
      /\ (anchored => place \in Nat)
  BY <1>1, CurrentFacts
<1>3. Current.op \in Terminators /\ Current.op \in {"br", "condbr"}
  BY <1>2 DEF Terminators
<1>4. PICK b \in Range(Current.to) : b = Current.to[IF holds THEN 1 ELSE 2]
  <2>1. Current.to \in Seq(Nat) /\ Len(Current.to) = 2
    BY <1>2 DEF BranchOK, Instructions
  <2>2. DOMAIN Current.to = 1 .. 2
    BY <2>1
  <2> QED
    BY <2>2 DEF Range
<1>5. anchored => place' = First(blocks, tokens, b) /\ place' \in Nat
  <2>1. SUFFICES ASSUME anchored PROVE place' = First(blocks, tokens, b) /\ place' \in Nat
    OBVIOUS
  <2>2. /\ place + 1 = First(blocks, tokens, Current.to[1])
        /\ tokens[place].to = First(blocks, tokens, Current.to[2])
        /\ tokens[place].to \in Nat /\ place + 1 \in Nat
    BY <1>1, <1>2, <1>3, <2>1, BranchSays
  <2>3. CASE holds
    BY <1>1, <1>4, <2>2, <2>3
  <2>4. CASE ~ holds
    BY <1>1, <1>4, <2>2, <2>4
  <2> QED
    BY <2>3, <2>4
<1>6. GoTo(b)
  BY <1>1, <1>4
<1> QED
  BY <1>1, <1>3, <1>5, <1>6, Goes

\* The return: nothing is claimed of the run any more.
LEMMA StepReturnStep == ASSUME IInv, StepReturn PROVE IInv'
<1>1. Running({"ret"}) /\ phase' = "returned" /\ UNCHANGED <<emit, run>>
  BY DEF StepReturn
<1>2. /\ phase = "run" /\ at \in [block : Nat, i : Nat, from : Nat] /\ ran \in SUBSET Nat
      /\ (anchored => place \in Nat) /\ at.block \in DOMAIN blocks
  BY <1>1, CurrentFacts
<1>3. at' = at /\ ran' = ran /\ place' = place
  BY <1>1 DEF run
<1> QED
  BY <1>1, <1>2, <1>3, RunStep

-----------------------------------------------------------------------------
(* The beginning.                                                           *)

\* P stores each argument: it has no branch, and reads what it has made.
Prepares(P) ==
  \A i \in DOMAIN P :
    /\ P[i].op \in {"alloca", "argument"} /\ P[i].id = i /\ P[i].place = 1
    /\ Range(P[i].to) = {} /\ Len(P[i].to) = 0
    /\ Range(P[i].uses) \subseteq 1 .. i - 1

\* What initialize_function has put in the entry block.
LEMMA PrologueFacts ==
  ASSUME tokens = << >>, NEW arity \in Nat, NEW P, P = Prologue(arity)
  PROVE  /\ P \in Seq(Instructions) /\ DOMAIN P = 1 .. 2 * arity /\ Len(P) = 2 * arity
         /\ Prepares(P)
<1>1. Len(tokens) + 1 = 1
  OBVIOUS
<1>2. ASSUME NEW k \in 1 .. 2 * arity
      PROVE  /\ P[k] \in Instructions
             /\ P[k].op \in {"alloca", "argument"} /\ P[k].id = k /\ P[k].place = 1
             /\ Range(P[k].to) = {} /\ Len(P[k].to) = 0
             /\ Range(P[k].uses) \subseteq 1 .. k - 1
  <2>1. k \in Nat \ {0} /\ k - 1 \in Int
    OBVIOUS
  <2>2. << >> \in Uses /\ <<k - 1>> \in Uses /\ Range(<< >>) = {} /\ Range(<<k - 1>>) = {k - 1}
    BY <2>1, UsesType
  <2>3. << >> \in Seq(Nat) /\ Len(<< >>) = 0
    OBVIOUS
  <2>4. "alloca" \in Ops /\ "argument" \in Ops
    BY DEF Ops
  <2>5. CASE k % 2 = 1
    <3>1. P[k] = [op |-> "alloca", id |-> k, uses |-> << >>, to |-> << >>, from |-> << >>, place |-> 1]
      BY <1>1, <2>5 DEF Prologue, Instruction
    <3> QED
      BY <2>1, <2>2, <2>3, <2>4, <3>1 DEF Instructions
  <2>6. CASE k % 2 # 1
    <3>1. P[k] = [op |-> "argument", id |-> k, uses |-> <<k - 1>>, to |-> << >>, from |-> << >>, place |-> 1]
      BY <1>1, <2>6 DEF Prologue, Instruction
    <3>2. k - 1 \in 1 .. k - 1
      <4>1. k # 1
        BY <2>6
      <4> QED
        BY <2>1, <4>1
    <3> QED
      BY <2>1, <2>2, <2>3, <2>4, <3>1, <3>2 DEF Instructions
  <2> QED
    BY <2>5, <2>6
<1>3. 2 * arity \in Nat /\ DOMAIN P = 1 .. 2 * arity
  BY DEF Prologue
<1>4. P = [k \in 1 .. 2 * arity |-> P[k]]
  BY <1>3 DEF Prologue
<1>5. P \in Seq(Instructions)
  BY <1>2, <1>3, <1>4
<1>6. Len(P) = 2 * arity
  BY <1>3, <1>5
<1>7. Prepares(P)
  BY <1>2, <1>3 DEF Prepares
<1> QED
  BY <1>3, <1>5, <1>6, <1>7

\* A graph of one block that is a prologue.
Prologued(B, P) ==
  /\ B = <<P>>
  /\ P \in Seq(Instructions)
  /\ Prepares(P)

\* The graph of a function whose body is yet to be compiled.
LEMMA InitGraph ==
  ASSUME NEW B, NEW P, Prologued(B, P), NEW K, K = <<{}>>, NEW T, T = << >>
  PROVE  /\ B \in Blocks /\ Len(B) = 1 /\ DOMAIN B = {Entry} /\ B[Entry] = P
         /\ K \in Seq(SUBSET Nat) /\ Len(K) = 1
         /\ Stands(B, {}, {Entry}) /\ EntryStands(B, {Entry})
         /\ BranchesOK(B, {Entry}) /\ Flow(B, K) /\ PathOK(B, T, {}, {Entry})
<1>1. /\ B \in Blocks /\ Len(B) = 1 /\ DOMAIN B = {1} /\ B[1] = P
  BY DEF Prologued, Blocks
<1>2. Entry = 1 /\ DOMAIN B = {Entry} /\ B[Entry] = P
  BY <1>1 DEF Entry
<1>3. K \in Seq(SUBSET Nat) /\ Len(K) = 1 /\ K[Entry] = {}
  BY DEF Entry
<1>4. \A i \in DOMAIN P :
        /\ P[i].op \notin Terminators /\ P[i].op \notin Written /\ P[i].op \notin {"phi", "br", "condbr", "ret"}
        /\ P[i].id = i /\ P[i].place = 1 /\ Range(P[i].to) = {} /\ Len(P[i].to) = 0
        /\ Range(P[i].uses) \subseteq 1 .. i - 1
  BY DEF Prologued, Prepares, Terminators, Written
<1>5. PICK n \in Nat : n = Len(P) /\ DOMAIN P = 1 .. n
  BY DEF Prologued
<1>6. Stands(B, {}, {Entry}) /\ EntryStands(B, {Entry})
  BY <1>2, <1>4 DEF Stands, EntryStands, Open
<1>7. \A ins \in Code(B) : \E i \in DOMAIN P : ins = P[i]
  BY <1>1, <1>2, CodeFacts
<1>8. BranchesOK(B, {Entry})
  <2>1. ASSUME NEW ins \in Code(B)
        PROVE  BranchOK(ins, Len(B))
    <3>1. PICK i \in DOMAIN P : ins = P[i]
      BY <1>7
    <3>2. ins.op # "br" /\ ins.op # "condbr" /\ Range(ins.to) = {} /\ Len(ins.to) = 0
      BY <1>4, <3>1
    <3>3. (CASE ins.op = "br" -> 1 [] ins.op = "condbr" -> 2 [] OTHER -> 0) = 0
      BY <3>2
    <3> QED
      BY <3>2, <3>3 DEF BranchOK
  <2> QED
    BY <1>2, <1>4, <2>1 DEF BranchesOK
<1>9. Flow(B, K)
  <2>1. ASSUME NEW i \in DOMAIN P
        PROVE  UsesKnown(B, K, Entry, i)
    <3>1. \A j \in 1 .. i - 1 : j \in DOMAIN P /\ P[j].id = j
      BY <1>4, <1>5
    <3>2. 1 .. i - 1 \subseteq {P[j].id : j \in 1 .. i - 1}
      BY <3>1
    <3>3. Range(B[Entry][i].uses) \subseteq Before(B, K, Entry, i) /\ B[Entry][i].op # "phi"
      BY <1>2, <1>4, <3>2 DEF Before
    <3> QED
      BY <3>3 DEF UsesKnown
  <2>2. \A i \in DOMAIN B[Entry] : \A c \in Range(B[Entry][i].to) : K[c] \subseteq Before(B, K, Entry, i)
    BY <1>2, <1>4
  <2> QED
    BY <1>2, <1>3, <2>1, <2>2 DEF Flow
<1>10. PathOK(B, T, {}, {Entry})
  <2>1. Len(T) + 1 = 1
    OBVIOUS
  <2>2. First(B, T, Entry) = 1
    <3>1. CASE P = << >>
      BY <1>2, <2>1, <3>1 DEF First
    <3>2. CASE P # << >>
      <4>1. 1 \in DOMAIN P
        BY <1>5, <3>2 DEF Prologued
      <4> QED
        BY <1>2, <1>4, <3>2, <4>1 DEF First
    <3> QED
      BY <3>1, <3>2
  <2>3. \A ins \in Code(B) : Said(ins, T) /\ LeadsOn(ins, B, T, {}) /\ ins.op # "ret"
    BY <1>4, <1>7 DEF Said, LeadsOn
  <2>4. \A b \in DOMAIN B : \A i \in 1 .. Len(B[b]) - 1 : B[b][i + 1].place = Next1(B[b][i])
    <3>1. \A i \in 1 .. n - 1 : i \in DOMAIN P /\ i + 1 \in DOMAIN P
      BY <1>5
    <3>2. \A i \in 1 .. n - 1 : P[i + 1].place = Next1(P[i])
      BY <1>4, <3>1 DEF Next1
    <3> QED
      BY <1>2, <1>5, <3>2
  <2>5. P # << >> => Next1(Last(P)) = 1
    <3>1. P # << >> => n \in DOMAIN P /\ Last(P) = P[n]
      BY <1>5 DEF Prologued, Last
    <3> QED
      BY <1>4, <3>1 DEF Next1
  <2> QED
    BY <1>2, <2>1, <2>2, <2>3, <2>4, <2>5 DEF PathOK
<1> QED
  BY <1>1, <1>2, <1>3, <1>6, <1>8, <1>9, <1>10

\* The invariant holds when the compilation of the body begins.
LEMMA InitInv == Init => IInv
<1> SUFFICES ASSUME Init PROVE IInv
  OBVIOUS
<1> DEFINE Own(arity) == [form |-> "function", stage |-> "body", base |-> 0, anchor |-> AtEnd,
                          locals |-> {2 * k - 1 : k \in 1 .. arity}, blocks |-> << >>, test |-> 0,
                          mark |-> 0]
<1>1. /\ phase = "emit" /\ tokens = << >> /\ placed = {Entry} /\ insert = Entry
      /\ results = << >> /\ size = 0 /\ anchored = TRUE /\ known = <<{}>>
      /\ at = [block |-> Entry, i |-> 1, from |-> Entry] /\ ran = {} /\ place = 1
  BY DEF Init
<1>2. PICK arity \in Nat : blocks = <<Prologue(arity)>> /\ frames = <<Own(arity)>>
  BY BoundsAssumption DEF Init
<1>3. PICK P : P = Prologue(arity)
  OBVIOUS
<1>4. PICK f : f = Own(arity)
  OBVIOUS
<1>5. /\ P \in Seq(Instructions) /\ DOMAIN P = 1 .. 2 * arity
      /\ Prologued(blocks, P)
  <2>1. /\ P \in Seq(Instructions) /\ DOMAIN P = 1 .. 2 * arity
    BY <1>1, <1>3, PrologueFacts
  <2>2. Prepares(P)
    BY <1>1, <1>3, PrologueFacts
  <2> QED
    BY <1>2, <1>3, <2>1, <2>2 DEF Prologued
<1>6. /\ blocks \in Blocks /\ Len(blocks) = 1 /\ DOMAIN blocks = {Entry} /\ blocks[Entry] = P
      /\ known \in Seq(SUBSET Nat) /\ Len(known) = 1
      /\ Stands(blocks, {}, {Entry}) /\ EntryStands(blocks, {Entry})
      /\ BranchesOK(blocks, {Entry}) /\ Flow(blocks, known) /\ PathOK(blocks, tokens, {}, {Entry})
  BY <1>1, <1>5, InitGraph
<1>7. /\ f \in Frames /\ f.form = "function" /\ f.stage = "body" /\ f.base = 0 /\ f.anchor = AtEnd
      /\ f.locals = {2 * k - 1 : k \in 1 .. arity} /\ f.locals \subseteq 1 .. 2 * arity
  <2>1. {2 * k - 1 : k \in 1 .. arity} \subseteq 1 .. 2 * arity
    OBVIOUS
  <2>2. {2 * k - 1 : k \in 1 .. arity} \in SUBSET Nat
    BY <2>1
  <2>3. << >> \in Seq(Nat) /\ AtEnd \in Nat
    BY DEF AtEnd
  <2> QED
    BY <1>4, <2>1, <2>2, <2>3 DEF Frames
<1>8. frames = <<f>>
  BY <1>2, <1>4
<1> HIDE DEF Own
<1>9. frames \in Seq(Frames) /\ DOMAIN frames = {1} /\ frames[1] = f /\ frames # << >>
  BY <1>7, <1>8
<1>10. ~ HasBlocks(f) /\ Waiting(f) = {}
  <2>1. ~ HasBlocks(f)
    BY <1>7 DEF HasBlocks, Looping
  <2> QED
    BY <2>1, NoBlocks
<1>11. Pending(frames) = {} /\ Unplaced(frames) = {} /\ Filling(frames, insert) = {Entry}
  BY <1>1, <1>9, <1>10 DEF Pending, Unplaced, Filling
<1>12. TypeOK
  <2>1. Entry \in DOMAIN blocks /\ Entry \in Nat
    BY <1>6 DEF Entry
  <2>2. results \in Seq(Int) /\ tokens \in Seq(Tokens)
    BY <1>1
  <2> QED
    BY <1>1, <1>6, <1>9, <2>1, <2>2 DEF TypeOK
<1>13. Layout
  <2>1. FrameOK(f, results, blocks)
    BY <1>1, <1>7, <1>10 DEF FrameOK, FormOK
  <2>2. FramesNest(frames, results, blocks)
    BY <1>7, <1>9, <2>1 DEF FramesNest
  <2>3. placed = DOMAIN blocks \ Unplaced(frames)
    BY <1>1, <1>6, <1>11
  <2> QED
    BY <1>6, <1>11, <2>2, <2>3 DEF Layout
<1>14. Edges
  <2>1. \A k \in DOMAIN frames : BlocksOK(frames[k], blocks, Pending(frames), insert)
    BY <1>9, <1>10, NoBlocks
  <2> QED
    BY <1>6, <1>11, <2>1 DEF Edges
<1>15. Knowledge
  <2>1. f.locals \subseteq MadeIn(blocks, known, Entry)
    <3>1. \A i \in DOMAIN P : P[i].id = i /\ P[i].op \notin Terminators
      BY <1>5 DEF Prologued, Prepares, Terminators
    <3>2. \A i \in DOMAIN P : i \in Computed(P)
      BY <3>1 DEF Computed
    <3> QED
      BY <1>5, <1>6, <1>7, <3>2 DEF MadeIn
  <2>2. LevelOK(f, frames, results, blocks, known, insert)
    BY <1>10, NoBlocks
  <2>3. DOMAIN results = {}
    BY <1>1
  <2>4. FramesKnow(frames, results, blocks, known, insert)
    BY <1>6, <1>9, <2>1, <2>2, <2>3 DEF FramesKnow
  <2> QED
    BY <1>6, <2>4 DEF Knowledge
<1>16. Places
  <2>1. FramePlace(f, blocks, tokens)
    BY <1>10, NoBlocks
  <2> QED
    BY <1>6, <1>9, <1>11, <2>1 DEF Places
<1>17. RunOK
  BY <1>1, <1>9 DEF RunOK
<1> QED
  BY <1>12, <1>13, <1>14, <1>15, <1>16, <1>17 DEF IInv

-----------------------------------------------------------------------------
(* The invariant.                                                           *)

\* Every action of code generation preserves the invariant.
LEMMA EmitStep == ASSUME IInv, Emit PROVE IInv'
<1>1. CASE EmitConstant
  BY <1>1, EmitConstantStep
<1>2. CASE \E k \in DOMAIN frames : \E local \in frames[k].locals : EmitLoad(local)
  BY <1>2, EmitLoadStep
<1>3. CASE \E form \in {"call", "set", "let", "for", "if"} : Enter(form)
  BY <1>3, EnterStep
<1>4. CASE \E target \in {ModuleVariable} \union UNION {frames[k].locals : k \in DOMAIN frames} :
             CloseSet(target)
  <2>1. PICK target \in {ModuleVariable} \union UNION {frames[k].locals : k \in DOMAIN frames} :
          CloseSet(target)
    BY <1>4
  <2>2. target = ModuleVariable \/ \E k \in DOMAIN frames : target \in frames[k].locals
    OBVIOUS
  <2> QED
    BY <2>1, <2>2, CloseSetStep
<1>5. CASE \E valued \in BOOLEAN : CloseCall(valued)
  BY <1>5, CloseCallStep
<1>6. CASE Bind
  BY <1>6, BindStep
<1>7. CASE EndBindings
  BY <1>7, EndBindingsStep
<1>8. CASE CloseLet
  BY <1>8, CloseLetStep
<1>9. CASE BeginLoop
  BY <1>9, BeginLoopStep
<1>10. CASE BranchLoop
  BY <1>10, BranchLoopStep
<1>11. CASE CloseLoop
  BY <1>11, CloseLoopStep
<1>12. CASE BranchIf
  BY <1>12, BranchIfStep
<1>13. CASE BeginElse
  BY <1>13, BeginElseStep
<1>14. CASE CloseIf
  BY <1>14, CloseIfStep
<1>15. CASE EndFunction
  BY <1>15, EndFunctionStep
<1> QED
  BY <1>1, <1>2, <1>3, <1>4, <1>5, <1>6, <1>7, <1>8, <1>9, <1>10, <1>11, <1>12, <1>13, <1>14,
     <1>15 DEF Emit

\* So does a step that changes nothing.
LEMMA StutterStep == ASSUME IInv, UNCHANGED vars PROVE IInv'
<1>1. /\ phase' = phase /\ blocks' = blocks /\ placed' = placed /\ insert' = insert
      /\ known' = known /\ frames' = frames /\ results' = results /\ size' = size
      /\ anchored' = anchored /\ tokens' = tokens /\ at' = at /\ ran' = ran /\ place' = place
  BY DEF vars, emit, graph, shape, run
<1>2. TypeOK'
  BY <1>1 DEF IInv, TypeOK
<1>3. Layout' /\ Edges'
  BY <1>1 DEF IInv, Layout, Edges
<1>4. anchored' => Knowledge' /\ Places'
  BY <1>1 DEF IInv, Knowledge, Places
<1>5. RunOK'
  BY <1>1 DEF IInv, RunOK, Current
<1> QED
  BY <1>2, <1>3, <1>4, <1>5 DEF IInv

\* Every step of code generation and of the run preserves the invariant.
LEMMA NextInv == IInv /\ [Next]_vars => IInv'
<1> SUFFICES ASSUME IInv, [Next]_vars PROVE IInv'
  OBVIOUS
<1>1. CASE Emit
  BY <1>1, EmitStep
<1>2. CASE Step
  BY <1>2, StepStep
<1>3. CASE StepBranch
  BY <1>3, StepBranchStep
<1>4. CASE \E holds \in BOOLEAN : StepCondition(holds)
  BY <1>4, StepConditionStep
<1>5. CASE StepReturn
  BY <1>5, StepReturnStep
<1>6. CASE UNCHANGED vars
  BY <1>6, StutterStep
<1> QED
  BY <1>1, <1>2, <1>3, <1>4, <1>5, <1>6 DEF Next, Run

\* The invariant of code generation holds in every state.
THEOREM CodeGenInvariance == Spec => []IInv
<1> QED
  BY InitInv, NextInv, PTL DEF Spec

\* Every variable has its type, whatever the function and its body.
THEOREM CodeGenTypes == Spec => []TypeOK
<1>1. IInv => TypeOK
  BY DEF IInv
<1> QED
  BY <1>1, CodeGenInvariance, PTL

\* BlocksWellFormed: verifyFunction accepts the blocks of every function compiled,
\* unless an alloca went behind the branch that ends the entry block.
THEOREM BlocksAlwaysWellFormed == Spec => []BlocksWellFormed
<1>1. IInv => BlocksWellFormed
  <2> SUFFICES ASSUME IInv, phase # "emit", anchored PROVE WellTerminated
    BY DEF BlocksWellFormed, Complete
  <2>1. /\ placed = DOMAIN blocks /\ Entry \in DOMAIN blocks
        /\ Stands(blocks, {}, {}) /\ EntryStands(blocks, {})
    BY Running1
  <2>2. \A b \in DOMAIN blocks : Closed(blocks[b])
    BY <2>1 DEF Stands, EntryStands
  <2> QED
    BY <2>1, <2>2 DEF WellTerminated, Closed
<1> QED
  BY <1>1, CodeGenInvariance, PTL

\* PhisNamePredecessors: a phi of a compiled function names the two blocks that branch
\* to its block, and no other.
THEOREM PhisAlwaysNamePredecessors == Spec => []PhisNamePredecessors
<1>1. IInv => PhisNamePredecessors
  <2> SUFFICES ASSUME IInv, phase # "emit", NEW b \in DOMAIN blocks, NEW i \in DOMAIN blocks[b],
                      blocks[b][i].op = "phi"
               PROVE  /\ Range(blocks[b][i].from) = Predecessors(b)
                      /\ Cardinality(Predecessors(b)) = 2
    BY DEF PhisNamePredecessors, Complete
  <2>1. BranchesOK(blocks, {})
    BY Running1
  <2>2. PhiOK(blocks, {}, b, i)
    BY <2>1 DEF BranchesOK
  <2>3. PICK from : from = blocks[b][i].from
    OBVIOUS
  <2>4. /\ DOMAIN from = 1 .. 2 /\ from[1] # from[2]
        /\ Range(from) = Sources(blocks, b)
    BY <2>2, <2>3 DEF PhiOK
  <2>5. Sources(blocks, b) = Predecessors(b)
    BY DEF Sources, Predecessors
  <2>6. Range(from) = {from[1]} \union {from[2]}
    <3>1. 1 .. 2 = {1, 2}
      OBVIOUS
    <3> QED
      BY <2>4, <3>1 DEF Range
  <2>7. Cardinality({from[1]} \union {from[2]}) = 2
    <3>1. PICK x, y, S : x = from[1] /\ y = from[2] /\ S = {x}
      OBVIOUS
    <3>2. IsFiniteSet(S) /\ Cardinality(S) = 1
      BY <3>1, FS_Singleton
    <3>3. y \notin S
      BY <2>4, <3>1
    <3>4. Cardinality(S \union {y}) = Cardinality(S) + 1
      BY <3>2, <3>3, FS_AddElement
    <3> QED
      BY <3>1, <3>2, <3>4
  <2> QED
    BY <2>3, <2>4, <2>5, <2>6, <2>7
<1> QED
  BY <1>1, CodeGenInvariance, PTL

\* RunsAsWritten: on every path through every body the graph does what the body says,
\* in its order, and returns at its end.
THEOREM AlwaysRunsAsWritten == Spec => []RunsAsWritten
<1>1. IInv => RunsAsWritten
  <2> SUFFICES ASSUME IInv, phase = "run", anchored PROVE RunsAsWritten
    BY DEF RunsAsWritten
  <2>1. /\ blocks \in Blocks
        /\ PathOK(blocks, tokens, {}, {}) /\ Arrived(blocks, known, at, ran, place)
    BY Running1
  <2>2. at.block \in DOMAIN blocks /\ at.i \in DOMAIN blocks[at.block] /\ place = Current.place
    BY <2>1 DEF Arrived, Current
  <2>3. Current \in Code(blocks)
    BY <2>1, <2>2, CodeFacts DEF Current
  <2>4. Said(Current, tokens) /\ (Current.op = "ret" => Current.place = Len(tokens) + 1)
    BY <2>1, <2>3 DEF PathOK
  <2> QED
    BY <2>2, <2>4 DEF RunsAsWritten, Said
<1> QED
  BY <1>1, CodeGenInvariance, PTL

\* UsesAreDefined: on every path a value is computed, and a local has its place, before
\* the instruction that uses it.
THEOREM UsesAlwaysDefined == Spec => []UsesAreDefined
<1>1. IInv => UsesAreDefined
  <2> SUFFICES ASSUME IInv, phase = "run", anchored PROVE UsesAreDefined
    BY DEF UsesAreDefined
  <2>1. /\ BranchesOK(blocks, {}) /\ Flow(blocks, known)
        /\ Arrived(blocks, known, at, ran, place)
    BY Running1
  <2>2. /\ at.block \in DOMAIN blocks /\ at.i \in DOMAIN blocks[at.block]
        /\ Before(blocks, known, at.block, at.i) \subseteq ran
    BY <2>1 DEF Arrived
  <2>3. UsesKnown(blocks, known, at.block, at.i)
    BY <2>1, <2>2 DEF Flow
  <2>4. CASE Current.op = "phi"
    <3>1. PhiOK(blocks, {}, at.block, at.i)
      BY <2>1, <2>2, <2>4 DEF BranchesOK, Current
    <3>2. DOMAIN Current.from = 1 .. 2 /\ Range(Current.from) = Sources(blocks, at.block)
      BY <3>1 DEF PhiOK, Current
    <3>3. /\ at.from \in Sources(blocks, at.block)
          /\ MadeIn(blocks, known, at.from) \subseteq ran
      BY <2>1, <2>4 DEF Arrived, Current
    <3>4. PICK k \in DOMAIN Current.from : Current.from[k] = at.from
      BY <3>2, <3>3 DEF Range
    <3>5. Current.uses[k] \in MadeIn(blocks, known, Current.from[k]) \union {Constant}
      BY <2>3, <2>4, <3>2, <3>4 DEF UsesKnown, Current
    <3>6. Current.uses[k] \in ran \union {Constant}
      BY <3>3, <3>4, <3>5
    <3> QED
      BY <2>4, <3>4, <3>6 DEF UsesAreDefined
  <2>5. CASE Current.op # "phi"
    <3>1. Range(Current.uses) \subseteq Before(blocks, known, at.block, at.i) \union {Constant}
      BY <2>3, <2>5 DEF UsesKnown, Current
    <3>2. Range(Current.uses) \subseteq ran \union {Constant}
      BY <2>2, <3>1
    <3> QED
      BY <2>5, <3>2 DEF UsesAreDefined
  <2> QED
    BY <2>4, <2>5
<1> QED
  BY <1>1, CodeGenInvariance, PTL
=============================================================================
