------------------------ MODULE ScopeResolution_proofs ------------------------
(***************************************************************************)
(* Proofs about ScopeResolution, for every set of names, types, symbols    *)
(* and special forms, and with no bound on the units but the one Room      *)
(* names.  IInv (module ScopeInvariant) is shown to hold initially and to  *)
(* be preserved by each action; the properties follow from it.             *)
(***************************************************************************)
EXTENDS ScopeInvariant, StackLemmas

-----------------------------------------------------------------------------
(* Lookups.                                                                 *)

\* What it is to be a position of Entries.
LEMMA EntriesFacts ==
  ASSUME NEW scopes, NEW x, NEW p
  PROVE  p \in Entries(scopes, x) <=>
           \E i \in DOMAIN scopes : \E j \in DOMAIN scopes[i] :
             p = <<i, j>> /\ scopes[i][j].name = x
<1>1. p \in UNION {{i} \X DOMAIN scopes[i] : i \in DOMAIN scopes} <=>
        \E i \in DOMAIN scopes : \E j \in DOMAIN scopes[i] : p = <<i, j>>
  OBVIOUS
<1> QED
  BY <1>1 DEF Entries, Entry

\* P holds positions of scopes, and p is the last of them.
PositionsOf(scopes, P) ==
  \A p \in P : \E i \in DOMAIN scopes : \E j \in DOMAIN scopes[i] : p = <<i, j>>
LastPosition(p, P) ==
  /\ p \in P
  /\ \A q \in P : q[1] < p[1] \/ (q[1] = p[1] /\ q[2] <= p[2])

\* The position a backward scan meets first is one of those looked for, and no
\* other one lies further in.
LEMMA InnermostFacts ==
  ASSUME NEW T, NEW scopes \in Seq(Seq(T)), NEW P, P # {}, PositionsOf(scopes, P)
  PROVE  LastPosition(Innermost(P), P)
<1> DEFINE A == {p[1] : p \in P}
           i == Max(A)
           B == {p[2] : p \in {q \in P : q[1] = i}}
           j == Max(B)
<1>1. Len(scopes) \in Nat /\ DOMAIN scopes = 1 .. Len(scopes)
  BY LenProperties
<1>2. \A k \in DOMAIN scopes : /\ Len(scopes[k]) \in Nat
                               /\ DOMAIN scopes[k] = 1 .. Len(scopes[k])
  BY <1>1, ElementOfSeq, LenProperties
<1>3. \A p \in P : /\ p = <<p[1], p[2]>> /\ p[1] \in 1 .. Len(scopes)
                   /\ p[2] \in 1 .. Len(scopes[p[1]])
  BY <1>1, <1>2 DEF PositionsOf
<1>4. A \in SUBSET Nat /\ A # {} /\ \A y \in A : y <= Len(scopes)
  BY <1>1, <1>3
<1>5. i \in A /\ \A y \in A : y <= i
  BY <1>1, <1>4, MaxFacts
<1> HIDE DEF i
<1>6. PICK top \in P : top[1] = i
  BY <1>5
<1>7. i \in 1 .. Len(scopes) /\ Len(scopes[i]) \in Nat
  BY <1>1, <1>2, <1>3, <1>6
<1>8. \A y \in B : y \in 1 .. Len(scopes[i])
  BY <1>3
<1>9. top[2] \in B
  BY <1>6
<1>10. B \in SUBSET Nat /\ B # {} /\ \A y \in B : y <= Len(scopes[i])
  <2> HIDE DEF B
  <2> QED
    BY <1>7, <1>8, <1>9
<1>11. j \in B /\ \A y \in B : y <= j
  BY <1>7, <1>10, MaxFacts
<1>12. Innermost(P) = <<i, j>>
  BY DEF Innermost, i
<1> HIDE DEF j
<1>13. PICK p \in P : p[1] = i /\ p[2] = j
  BY <1>11
<1>14. <<i, j>> \in P
  BY <1>3, <1>13
<1>15. ASSUME NEW q \in P
       PROVE  q[1] < i \/ (q[1] = i /\ q[2] <= j)
  <2>1. q[1] \in A
    OBVIOUS
  <2>2. q[1] = i => q[2] \in B
    OBVIOUS
  <2> HIDE DEF A, B
  <2>3. q[1] <= i
    BY <1>5, <2>1
  <2>4. q[1] \in Nat /\ i \in Nat
    BY <1>4, <1>5, <2>1
  <2> QED
    BY <1>11, <2>2, <2>3, <2>4
<1> HIDE DEF A, B
<1>16. Innermost(P)[1] = i /\ Innermost(P)[2] = j
  BY <1>12
<1> QED
  BY <1>12, <1>14, <1>15, <1>16 DEF LastPosition

\* A name that is resolved has a type.
LEMMA AccessType ==
  ASSUME NEW scopes \in Seq(Seq(Local)), NEW x \in Names,
         TypeCheckAccess(scopes, x).at # Unresolved
  PROVE  TypeCheckAccess(scopes, x) \in [type : Types, at : Int]
<1> DEFINE found == Entries(scopes, x)
<1>1. CASE found # {}
  <2>1. ASSUME NEW p \in found
        PROVE  \E i \in DOMAIN scopes : \E j \in DOMAIN scopes[i] : p = <<i, j>>
    <3>1. p \in Entries(scopes, x)
      OBVIOUS
    <3> QED
      BY <3>1, EntriesFacts
  <2>2. Innermost(found) \in found
    BY <1>1, <2>1, InnermostFacts DEF LastPosition, PositionsOf
  <2>3. PICK i \in DOMAIN scopes : \E j \in DOMAIN scopes[i] : Innermost(found) = <<i, j>>
    BY <2>1, <2>2
  <2>4. PICK j \in DOMAIN scopes[i] : Innermost(found) = <<i, j>>
    BY <2>3
  <2>5. scopes[i] \in Seq(Local)
    BY <2>3, ElementOfSeq, LenProperties
  <2>6. scopes[i][j] \in Local
    BY <2>4, <2>5, ElementOfSeq, LenProperties
  <2> HIDE DEF found
  <2>7. Innermost(found)[1] = i /\ Innermost(found)[2] = j
    BY <2>4
  <2>8. Entry(scopes, Innermost(found)) \in Local
    BY <2>6, <2>7 DEF Entry
  <2>9. TypeCheckAccess(scopes, x) =
          [type |-> Entry(scopes, Innermost(found)).type, at |-> Entry(scopes, Innermost(found)).at]
    BY <1>1 DEF TypeCheckAccess, found
  <2> QED
    BY <2>8, <2>9 DEF Local
<1>2. CASE found = {}
  <2>1. x \in DOMAIN Symbols
    BY <1>2 DEF TypeCheckAccess
  <2>2. Symbols[x].type \in Types
    BY <2>1, SymbolsAssumption
  <2>3. TypeCheckAccess(scopes, x) \in {[type |-> Symbols[x].type, at |-> ModuleVariable],
                                       [type |-> Symbols[x].type, at |-> FunctionRef]}
    BY <1>2, <2>1 DEF TypeCheckAccess
  <2> QED
    BY <2>2, <2>3 DEF ModuleVariable, FunctionRef
<1> QED
  BY <1>1, <1>2

-----------------------------------------------------------------------------
(* The chain of instructions.                                               *)

\* An instruction that begins where the chain ends makes it longer.
LEMMA ChainExtends ==
  ASSUME TypeOK, CodeChained, SitesKnown,
         NEW c \in Instruction, InstrOK(c),
         c.env = EnvAt(Len(code) + 1), c.stk = StkAt(Len(code) + 1),
         SitesPositive(EnvAfter(c)),
         code' = Append(code, c), unit' = unit
  PROVE  /\ code' \in Seq(Instruction) /\ Len(code') = Len(code) + 1
         /\ CodeChained' /\ SitesKnown'
         /\ EnvAt(Len(code) + 1)' = EnvAfter(c)
         /\ StkAt(Len(code) + 1)' = StkAfter(c)
<1>1. code \in Seq(Instruction) /\ Len(code) \in Nat /\ DOMAIN code = 1 .. Len(code)
  BY LenProperties DEF TypeOK
<1>2. /\ code' \in Seq(Instruction) /\ Len(code') = Len(code) + 1
      /\ \A k \in 1 .. Len(code) : code'[k] = code[k]
      /\ code'[Len(code) + 1] = c
  BY <1>1, AppendProperties
<1>3. DOMAIN code' = 1 .. Len(code) + 1
  BY <1>2, LenProperties
<1>4. UnitEnv' = UnitEnv
  BY DEF UnitEnv
<1>5. \A k \in 1 .. Len(code) + 1 : EnvAt(k)' = EnvAt(k) /\ StkAt(k)' = StkAt(k)
  BY <1>1, <1>2, <1>4 DEF EnvAt, StkAt
<1>6. EnvAt(Len(code) + 1)' = EnvAfter(c) /\ StkAt(Len(code) + 1)' = StkAfter(c)
  BY <1>1, <1>2 DEF EnvAt, StkAt
<1>7. CodeChained'
  <2>1. ASSUME NEW k \in 1 .. Len(code)
        PROVE  code'[k].env = EnvAt(k)' /\ code'[k].stk = StkAt(k)' /\ InstrOK(code'[k])
    BY <1>1, <1>2, <1>5 DEF CodeChained
  <2>2. ASSUME NEW k \in 1 .. Len(code) + 1, k = Len(code) + 1
        PROVE  code'[k].env = EnvAt(k)' /\ code'[k].stk = StkAt(k)' /\ InstrOK(code'[k])
    BY <1>1, <1>2, <1>5, <2>2
  <2>3. ASSUME NEW k \in 1 .. Len(code) + 1
        PROVE  code'[k].env = EnvAt(k)' /\ code'[k].stk = StkAt(k)' /\ InstrOK(code'[k])
    BY <1>1, <2>1, <2>2
  <2>4. ASSUME NEW k \in DOMAIN code'
        PROVE  (code[k].env = EnvAt(k) /\ code[k].stk = StkAt(k) /\ InstrOK(code[k]))'
    <3>1. InstrOK(code[k])' <=> InstrOK(code'[k])
      BY DEF InstrOK, TypeCheckAccess
    <3> QED
      BY <1>3, <2>3, <3>1
  <2> QED
    BY <2>4 DEF CodeChained
<1>8. SitesKnown'
  <2>1. \A k \in 1 .. Len(code) + 1 : SitesPositive(EnvAt(k)')
    BY <1>5 DEF SitesKnown
  <2>2. SitesPositive(EnvAt(Len(code) + 1)')
    BY <1>6
  <2> QED
    BY <1>1, <1>2, <2>1, <2>2 DEF SitesKnown
<1> QED
  BY <1>2, <1>6, <1>7, <1>8

-----------------------------------------------------------------------------
(* The plugins on the C++ stack.                                            *)

LEMMA FramesTyped ==
  ASSUME TypeOK
  PROVE  /\ Len(frames) \in Nat /\ DOMAIN frames = 1 .. Len(frames)
         /\ frames # << >> => Len(frames) >= 1 /\ Top = frames[Len(frames)] /\ Top \in Plugin
         /\ \A k \in 1 .. Len(frames) : frames[k] \in Plugin
         /\ Len(nodes) \in Nat /\ Len(tscopes) \in Nat
         /\ IsFiniteSet(ScopedFrames)
<1>1. Len(frames) \in Nat /\ DOMAIN frames = 1 .. Len(frames)
  BY LenProperties DEF TypeOK
<1>2. \A k \in 1 .. Len(frames) : frames[k] \in Plugin
  BY ElementOfSeq DEF TypeOK
<1>3. frames # << >> => Len(frames) >= 1 /\ Top = frames[Len(frames)] /\ Top \in Plugin
  BY FrontFacts DEF TypeOK, Top
<1>4. Len(nodes) \in Nat /\ Len(tscopes) \in Nat
  BY LenProperties DEF TypeOK
<1>5. IsFiniteSet(ScopedFrames)
  <2>1. IsFiniteSet(1 .. Len(frames)) /\ ScopedFrames \in SUBSET (1 .. Len(frames))
    BY <1>1, FS_Interval DEF ScopedFrames
  <2> QED
    BY <2>1, FS_Subset
<1> QED
  BY <1>1, <1>2, <1>3, <1>4, <1>5

\* A plugin is called: it opens a scope or none.
LEMMA PluginCalled ==
  ASSUME TypeOK, PluginsNest,
         NEW f \in Plugin, f.form # "unit", f.base = Len(nodes), f.env = tscopes,
         f.stage \in {"bind", "cond"} => f.form \in {"let", "for"},
         f.form = "set" => /\ [type |-> f.type, at |-> f.at] = TypeCheckAccess(f.env, f.name)
                           /\ f.at # Unresolved,
         f.form = "call" => f.name \in DOMAIN Symbols /\ Symbols[f.name].kind = "function",
         frames' = Append(frames, f), unit' = unit, nodes' = nodes,
         tscopes' = IF f.form \in {"let", "for"} THEN Append(tscopes, << >>) ELSE tscopes
  PROVE  PluginsNest'
<1> DEFINE n == Len(frames)
<1>1. /\ n \in Nat /\ DOMAIN frames = 1 .. n /\ n >= 1
      /\ \A k \in 1 .. n : frames[k] \in Plugin
      /\ Len(nodes) \in Nat /\ Len(tscopes) \in Nat /\ IsFiniteSet(ScopedFrames)
  BY FramesTyped DEF PluginsNest
<1> PICK m \in Nat : m = n
  BY <1>1
<1>2. /\ frames' \in Seq(Plugin) /\ frames' # << >> /\ Len(frames') = m + 1
      /\ \A k \in 1 .. m : frames'[k] = frames[k]
      /\ frames'[m + 1] = f
  <2>1. frames \in Seq(Plugin)
    BY DEF TypeOK
  <2> QED
    BY <2>1, AppendProperties
<1>3. DOMAIN frames' = 1 .. m + 1
  BY <1>2, LenProperties
<1>4. << >> \in Seq(Local)
  BY EmptySeq
<1>5. f.form \in {"let", "for"} =>
        tscopes' # << >> /\ Front(tscopes') = tscopes /\ Len(tscopes') = Len(tscopes) + 1
  <2>1. tscopes \in Seq(Seq(Local))
    BY DEF TypeOK
  <2>2. PICK e \in Seq(Local) : e = << >>
    BY <1>4
  <2>3. Append(tscopes, e) # << >> /\ Len(Append(tscopes, e)) = Len(tscopes) + 1
    BY <2>1, AppendProperties
  <2>4. Front(Append(tscopes, e)) = tscopes
    BY <2>1, FrontOfAppend
  <2> QED
    BY <2>2, <2>3, <2>4
<1>6. \A k \in 1 .. m : Inside(k)' = Inside(k)
  BY <1>1, <1>2 DEF Inside
<1>7. Inside(m + 1)' = tscopes'
  BY <1>2 DEF Inside
<1>8. UnitEnv' = UnitEnv
  BY DEF UnitEnv
<1>9. frames'[1].env = << >> /\ Inside(1)' = UnitEnv'
  BY <1>1, <1>2, <1>6, <1>8 DEF PluginsNest
<1>10. ASSUME NEW k \in 1 .. m PROVE FrameOK(k)'
  <2>1. FrameOK(k)
    BY <1>1 DEF PluginsNest
  <2>2. \A j \in 1 .. k : frames'[j] = frames[j]
    BY <1>2
  <2> QED
    BY <1>2, <1>6, <2>1, <2>2 DEF FrameOK, Scoped
<1>11. ASSUME NEW k \in 1 .. m + 1, k = m + 1 PROVE FrameOK(k)'
  <2>1. \A j \in 1 .. m : frames[j].base <= f.base
    BY <1>1 DEF PluginsNest, FrameOK
  <2>2. \A j \in 1 .. k : frames'[j].base <= f.base
    <3>1. f.base \in Nat
      BY DEF Plugin
    <3>2. ASSUME NEW j \in 1 .. k PROVE frames'[j].base <= f.base
      <4>1. CASE j = m + 1
        BY <1>2, <3>1, <4>1
      <4>2. CASE j \in 1 .. m
        BY <1>2, <2>1, <4>2
      <4> QED
        BY <1>11, <4>1, <4>2
    <3> QED
      BY <3>2
  <2>3. k # 1
    BY <1>1, <1>11
  <2> QED
    BY <1>1, <1>2, <1>5, <1>7, <1>11, <2>2, <2>3 DEF FrameOK, Scoped
<1>12. \A k \in DOMAIN frames' : FrameOK(k)'
  BY <1>3, <1>10, <1>11
<1>13. Len(tscopes') = Cardinality(ScopedFrames')
  <2>1. ScopedFrames' = IF f.form \in {"let", "for"} THEN ScopedFrames \union {m + 1}
                        ELSE ScopedFrames
    <3>1. \A k \in 1 .. m : k \in ScopedFrames' <=> k \in ScopedFrames
      BY <1>1, <1>2, <1>3 DEF ScopedFrames, Scoped
    <3>2. m + 1 \in ScopedFrames' <=> f.form \in {"let", "for"}
      BY <1>2, <1>3 DEF ScopedFrames, Scoped
    <3>3. ScopedFrames' \subseteq 1 .. m + 1 /\ ScopedFrames \subseteq 1 .. m
      BY <1>1, <1>3 DEF ScopedFrames
    <3>4. \A k : k \in 1 .. m + 1 <=> k \in 1 .. m \/ k = m + 1
      OBVIOUS
    <3>5. m + 1 \notin ScopedFrames
      BY <3>3
    <3>6. \A k : k \in ScopedFrames' <=>
                   k \in ScopedFrames \/ (f.form \in {"let", "for"} /\ k = m + 1)
      BY <3>1, <3>2, <3>3, <3>4, <3>5
    <3> QED
      BY <3>6
  <2>2. m + 1 \notin ScopedFrames
    BY <1>1 DEF ScopedFrames
  <2>3. Cardinality(ScopedFrames \union {m + 1}) = Cardinality(ScopedFrames) + 1
    BY <1>1, <2>2, FS_AddElement
  <2> QED
    BY <1>5, <2>1, <2>3 DEF PluginsNest
<1> QED
  BY <1>2, <1>9, <1>12, <1>13 DEF PluginsNest

\* A plugin returns: its scope ends, and the one below is handed a node.
LEMMA PluginReturns ==
  ASSUME TypeOK, PluginsNest, Top.form # "unit",
         frames' = Front(frames), unit' = unit,
         Len(nodes') \in Nat, Top.base <= Len(nodes'),
         tscopes' = IF Top.form \in {"let", "for"} THEN Front(tscopes) ELSE tscopes
  PROVE  PluginsNest' /\ tscopes' = Top.env
<1>1. /\ Len(frames) \in Nat /\ DOMAIN frames = 1 .. Len(frames) /\ Len(frames) >= 1
      /\ \A k \in 1 .. Len(frames) : frames[k] \in Plugin
      /\ Top = frames[Len(frames)] /\ Top \in Plugin
      /\ Len(tscopes) \in Nat /\ IsFiniteSet(ScopedFrames)
  BY FramesTyped DEF PluginsNest
<1>2. FrameOK(Len(frames))
  BY <1>1 DEF PluginsNest
<1>3. Len(frames) # 1
  BY <1>1, <1>2 DEF FrameOK
<1> PICK m \in Nat : m >= 1 /\ Len(frames) = m + 1
  <2>1. Len(frames) - 1 \in Nat /\ Len(frames) - 1 >= 1 /\ Len(frames) = (Len(frames) - 1) + 1
    BY <1>1, <1>3
  <2> QED
    BY <2>1
<1>4. /\ frames' \in Seq(Plugin) /\ Len(frames') = m
      /\ \A k \in 1 .. m : frames'[k] = frames[k]
  <2>1. frames \in Seq(Plugin) /\ frames # << >>
    BY DEF TypeOK, PluginsNest
  <2> QED
    BY <2>1, FrontFacts
<1>5. DOMAIN frames' = 1 .. m /\ frames' # << >>
  BY <1>4, LenProperties, EmptySeq
<1>6. Scoped(Top) <=> Top.form \in {"let", "for"}
  BY DEF Scoped
<1>7. Inside(m + 1) = tscopes
  BY DEF Inside
<1>8. /\ Scoped(Top) => tscopes # << >> /\ Front(tscopes) = Top.env
      /\ ~ Scoped(Top) => tscopes = Top.env
  BY <1>1, <1>2, <1>7 DEF FrameOK
<1>9. tscopes' = Top.env
  BY <1>6, <1>8
<1>10. \A k \in 1 .. m : Inside(k)' = Inside(k)
  <2>1. \A k \in 1 .. m : k # m => Inside(k)' = Inside(k)
    BY <1>4 DEF Inside
  <2>2. Inside(m) = frames[m + 1].env /\ frames[m + 1] = Top
    BY <1>1 DEF Inside
  <2>3. \A k \in 1 .. m : k = m => Inside(k)' = tscopes'
    BY <1>4 DEF Inside
  <2> QED
    BY <1>9, <2>1, <2>2, <2>3
<1>11. UnitEnv' = UnitEnv
  BY DEF UnitEnv
<1>12. frames'[1].env = << >> /\ Inside(1)' = UnitEnv'
  BY <1>4, <1>10, <1>11 DEF PluginsNest
<1>13. ASSUME NEW k \in 1 .. m PROVE FrameOK(k)'
  <2>1. FrameOK(k)
    BY <1>1 DEF PluginsNest
  <2>2. \A j \in 1 .. k : frames'[j] = frames[j]
    BY <1>4
  <2>3. frames[k].base <= Top.base
    BY <1>1, <1>2 DEF FrameOK
  <2>4. frames[k].base <= Len(nodes')
    <3>1. frames[k] \in Plugin
      BY <1>1
    <3>2. frames[k].base \in Nat /\ Top.base \in Nat
      BY <1>1, <3>1 DEF Plugin
    <3> QED
      BY <2>3, <3>2
  <2> QED
    BY <1>4, <1>10, <2>1, <2>2, <2>4 DEF FrameOK, Scoped
<1>14. Len(tscopes') = Cardinality(ScopedFrames')
  <2>1. \A k \in 1 .. m : k \in ScopedFrames' <=> k \in ScopedFrames
    BY <1>1, <1>4, <1>5 DEF ScopedFrames, Scoped
  <2>2. m + 1 \in ScopedFrames <=> Scoped(Top)
    BY <1>1 DEF ScopedFrames
  <2>3. ScopedFrames' \subseteq 1 .. m /\ ScopedFrames \subseteq 1 .. m + 1
    BY <1>1, <1>5 DEF ScopedFrames
  <2>4. \A k : k \in 1 .. m + 1 <=> k \in 1 .. m \/ k = m + 1
    OBVIOUS
  <2>5. m + 1 \notin 1 .. m
    OBVIOUS
  <2>6. \A k : k \in ScopedFrames' <=> k \in ScopedFrames /\ k # m + 1
    BY <2>1, <2>3, <2>4, <2>5
  <2>7. ScopedFrames' = ScopedFrames \ {m + 1}
    BY <2>6
  <2>8. Cardinality(ScopedFrames') = IF Scoped(Top) THEN Cardinality(ScopedFrames) - 1
                                     ELSE Cardinality(ScopedFrames)
    BY <1>1, <2>2, <2>7, FS_RemoveElement
  <2>9. Scoped(Top) => Len(tscopes') = Len(tscopes) - 1
    BY <1>6, <1>8, FrontFacts DEF TypeOK
  <2> QED
    BY <1>6, <2>8, <2>9 DEF PluginsNest
<1>15. \A k \in DOMAIN frames' : FrameOK(k)'
  BY <1>5, <1>13
<1> QED
  BY <1>5, <1>9, <1>12, <1>14, <1>15 DEF PluginsNest

\* The plugin on top goes on: it may reach another stage, or declare a local in
\* the scope it opened.
LEMMA PluginGoesOn ==
  ASSUME TypeOK, PluginsNest, NEW stage \in {"bind", "cond", "body", "args"},
         stage \in {"bind", "cond"} => Top.form \in {"let", "for"},
         frames' = [frames EXCEPT ![Len(frames)].stage = stage], unit' = unit,
         Len(nodes') \in Nat, Top.base <= Len(nodes'),
         \/ tscopes' = tscopes
         \/ /\ Top.form \in {"let", "for"} /\ tscopes' # << >>
            /\ Front(tscopes') = Front(tscopes) /\ Len(tscopes') = Len(tscopes)
  PROVE  PluginsNest' /\ frames' \in Seq(Plugin)
<1>1. /\ Len(frames) \in Nat /\ DOMAIN frames = 1 .. Len(frames) /\ Len(frames) >= 1
      /\ \A k \in 1 .. Len(frames) : frames[k] \in Plugin
      /\ Top = frames[Len(frames)] /\ Top \in Plugin
  BY FramesTyped DEF PluginsNest
<1> PICK n \in Nat : n = Len(frames)
  BY <1>1
<1>2. PICK f \in Plugin : f = [Top EXCEPT !.stage = stage]
  BY <1>1 DEF Plugin
<1>3. /\ f.form = Top.form /\ f.base = Top.base /\ f.env = Top.env /\ f.stage = stage
      /\ f.name = Top.name /\ f.type = Top.type /\ f.at = Top.at
  BY <1>1, <1>2 DEF Plugin
<1>4. frames' = [frames EXCEPT ![n] = f]
  BY <1>1, <1>2
<1>5. /\ frames' \in Seq(Plugin) /\ Len(frames') = n
      /\ \A k \in 1 .. n : frames'[k] = IF k = n THEN f ELSE frames[k]
  <2>1. frames \in Seq(Plugin) /\ n \in 1 .. Len(frames)
    BY <1>1 DEF TypeOK
  <2> QED
    BY <1>4, <2>1, ExceptSeq
<1>6. DOMAIN frames' = 1 .. n /\ frames' # << >>
  BY <1>1, <1>5, LenProperties, EmptySeq
<1>7. \A k \in 1 .. n : k # n => Inside(k)' = Inside(k)
  BY <1>3, <1>5, <1>1 DEF Inside
<1>8. Inside(n) = tscopes /\ \A k \in 1 .. n : k = n => Inside(k)' = tscopes'
  BY <1>5 DEF Inside
<1>9. UnitEnv' = UnitEnv
  BY DEF UnitEnv
<1>10. FrameOK(n)
  BY <1>1 DEF PluginsNest
<1>11. frames'[1].env = << >>
  BY <1>1, <1>3, <1>5 DEF PluginsNest
<1>12. Inside(1)' = UnitEnv'
  <2>1. CASE n = 1
    <3>1. Top.form = "unit"
      BY <1>1, <1>10, <2>1 DEF FrameOK
    <3>2. tscopes' = tscopes
      BY <3>1
    <3> QED
      BY <1>8, <1>9, <2>1, <3>2 DEF PluginsNest
  <2>2. CASE n # 1
    BY <1>1, <1>7, <1>9, <2>2 DEF PluginsNest
  <2> QED
    BY <2>1, <2>2
<1>13. ASSUME NEW k \in 1 .. n, k # n PROVE FrameOK(k)'
  <2>1. FrameOK(k)
    BY <1>1 DEF PluginsNest
  <2>2. \A j \in 1 .. k : frames'[j] = frames[j]
    BY <1>5, <1>13
  <2>3. frames[k].base <= Top.base
    BY <1>1, <1>10 DEF FrameOK
  <2>4. frames[k].base <= Len(nodes')
    BY <1>1, <2>3 DEF Plugin
  <2> QED
    BY <1>7, <1>13, <2>1, <2>2, <2>4 DEF FrameOK, Scoped
<1>14. ASSUME NEW k \in 1 .. n, k = n PROVE FrameOK(k)'
  <2>1. \A j \in 1 .. k : frames'[j].base <= f.base
    BY <1>1, <1>3, <1>5, <1>10, <1>14 DEF FrameOK, Plugin
  <2>2. frames'[k] = f
    BY <1>5, <1>14
  <2>3. IF Scoped(Top) THEN tscopes' # << >> /\ Front(tscopes') = Top.env
                       ELSE tscopes' = Top.env
    BY <1>1, <1>8, <1>10 DEF FrameOK, Scoped
  <2> QED
    BY <1>1, <1>3, <1>8, <1>10, <1>14, <2>1, <2>2, <2>3 DEF FrameOK, Scoped
<1>15. ScopedFrames' = ScopedFrames
  <2>1. \A k \in 1 .. n : k \in ScopedFrames' <=> k \in ScopedFrames
    BY <1>1, <1>3, <1>5, <1>6 DEF ScopedFrames, Scoped
  <2>2. ScopedFrames' \subseteq 1 .. n /\ ScopedFrames \subseteq 1 .. n
    BY <1>1, <1>6 DEF ScopedFrames
  <2> QED
    BY <2>1, <2>2
<1>16. Len(tscopes') = Cardinality(ScopedFrames')
  BY <1>15 DEF PluginsNest
<1>17. \A k \in DOMAIN frames' : FrameOK(k)'
  BY <1>6, <1>13, <1>14
<1> QED
  BY <1>5, <1>6, <1>11, <1>12, <1>16, <1>17 DEF PluginsNest

-----------------------------------------------------------------------------
(* The first walk preserves the invariant.                                  *)

\* The invariant, for a step that stays in the first walk.
LEMMA CheckGoesOn ==
  ASSUME IInv, phase = "check", phase' = phase, unit' = unit, UNCHANGED compileVars,
         frames' \in Seq(Plugin), tscopes' \in Seq(Seq(Local)),
         nodes' \in Seq(Types), code' \in Seq(Instruction),
         CodeChained', SitesKnown', PluginsNest',
         tscopes' = EnvAt(Len(code) + 1)', nodes' = StkAt(Len(code) + 1)'
  PROVE  IInv'
<1>1. TypeOK'
  BY DEF IInv, TypeOK, compileVars
<1>2. PhaseShape'
  BY DEF IInv, PhaseShape, compileVars
<1>3. FirstPassAtEnd' /\ SecondPassMirrors'
  BY DEF FirstPassAtEnd, SecondPassMirrors
<1> QED
  BY <1>1, <1>2, <1>3 DEF IInv

\* A step that makes no instruction.
LEMMA NoNode ==
  ASSUME IInv, phase = "check", phase' = phase, unit' = unit, code' = code,
         UNCHANGED compileVars, tscopes' = tscopes, nodes' = nodes,
         frames' \in Seq(Plugin), PluginsNest'
  PROVE  IInv'
<1>1. \A k \in Nat : EnvAt(k)' = EnvAt(k) /\ StkAt(k)' = StkAt(k)
  BY DEF EnvAt, StkAt, UnitEnv
<1>2. EnvAt(Len(code) + 1)' = EnvAt(Len(code) + 1) /\ StkAt(Len(code) + 1)' = StkAt(Len(code) + 1)
  BY DEF EnvAt, StkAt, UnitEnv
<1>3. CodeChained' /\ SitesKnown'
  BY DEF IInv, CodeChained, SitesKnown, EnvAt, StkAt, UnitEnv
<1>4. tscopes = EnvAt(Len(code) + 1) /\ nodes = StkAt(Len(code) + 1)
  BY DEF IInv, FirstPassAtEnd
<1>5. /\ tscopes' \in Seq(Seq(Local)) /\ nodes' \in Seq(Types) /\ code' \in Seq(Instruction)
  BY DEF IInv, TypeOK
<1> QED
  BY <1>2, <1>3, <1>4, <1>5, CheckGoesOn

\* A step that makes instruction c.
LEMMA NodeMade ==
  ASSUME IInv, phase = "check", phase' = phase, unit' = unit, UNCHANGED compileVars,
         NEW c \in Instruction, c.env = tscopes, c.stk = nodes, InstrOK(c),
         code' = Append(code, c),
         tscopes' = EnvAfter(c), tscopes' \in Seq(Seq(Local)), SitesPositive(tscopes'),
         nodes' = StkAfter(c), nodes' \in Seq(Types),
         frames' \in Seq(Plugin), PluginsNest'
  PROVE  IInv'
<1>1. TypeOK /\ CodeChained /\ SitesKnown
  BY DEF IInv
<1>2. c.env = EnvAt(Len(code) + 1) /\ c.stk = StkAt(Len(code) + 1)
  BY DEF IInv, FirstPassAtEnd
<1>3. /\ code' \in Seq(Instruction) /\ CodeChained' /\ SitesKnown'
      /\ EnvAt(Len(code) + 1)' = EnvAfter(c) /\ StkAt(Len(code) + 1)' = StkAfter(c)
  BY <1>1, <1>2, ChainExtends
<1> QED
  BY <1>3, CheckGoesOn

\* The scopes of the first walk hold no local without a site.
LEMMA SitesInForce ==
  ASSUME IInv, phase = "check"
  PROVE  SitesPositive(tscopes)
<1>1. Len(code) + 1 \in 1 .. Len(code) + 1
  BY LenProperties DEF IInv, TypeOK
<1> QED
  BY <1>1 DEF IInv, SitesKnown, FirstPassAtEnd

\* Entering and leaving a scope bring in no local without a site.
LEMMA SitesOfFront ==
  ASSUME NEW s \in Seq(Seq(Local)), s # << >>, SitesPositive(s)
  PROVE  SitesPositive(Front(s))
<1>1. /\ Front(s) \in Seq(Seq(Local)) /\ Len(Front(s)) = Len(s) - 1
      /\ \A i \in 1 .. Len(s) - 1 : Front(s)[i] = s[i]
  BY FrontFacts
<1>2. DOMAIN s = 1 .. Len(s) /\ Len(s) \in Nat /\ DOMAIN Front(s) = 1 .. Len(s) - 1
  BY <1>1, LenProperties
<1>3. ASSUME NEW i \in DOMAIN Front(s), NEW j \in DOMAIN Front(s)[i]
      PROVE  Front(s)[i][j].at >= 1
  <2>1. i \in DOMAIN s /\ Front(s)[i] = s[i]
    BY SMTT(30), <1>1, <1>2
  <2> QED
    BY <2>1 DEF SitesPositive
<1> QED
  BY <1>3 DEF SitesPositive

LEMMA SitesOfAppend ==
  ASSUME NEW s \in Seq(Seq(Local)), SitesPositive(s)
  PROVE  SitesPositive(Append(s, << >>)) /\ Append(s, << >>) \in Seq(Seq(Local))
<1>1. PICK e \in Seq(Local) : e = << >>
  BY EmptySeq
<1> DEFINE t == Append(s, e)
<1>2. /\ t \in Seq(Seq(Local)) /\ Len(t) = Len(s) + 1
      /\ \A i \in 1 .. Len(s) : t[i] = s[i]
      /\ t[Len(s) + 1] = e
  BY AppendProperties
<1>3. DOMAIN s = 1 .. Len(s) /\ Len(s) \in Nat /\ DOMAIN t = 1 .. Len(s) + 1
  BY <1>2, LenProperties
<1>4. DOMAIN e = {}
  BY <1>1
<1> HIDE DEF t
<1>5. ASSUME NEW i \in DOMAIN t, NEW j \in DOMAIN t[i]
      PROVE  t[i][j].at >= 1
  <2>1. i # Len(s) + 1
    BY <1>2, <1>4
  <2>2. i \in DOMAIN s /\ t[i] = s[i]
    BY <1>2, <1>3, <2>1
  <2> QED
    BY <2>2 DEF SitesPositive
<1>6. SitesPositive(t)
  BY <1>5 DEF SitesPositive
<1> QED
  BY <1>1, <1>2, <1>6 DEF t

\* The nodes after a plugin returns one in place of n others.
LEMMA NodeReturned ==
  ASSUME TypeOK, NEW n \in Nat, n <= Len(nodes), NEW t \in Types
  PROVE  /\ Append(DropLast(nodes, n), t) \in Seq(Types)
         /\ Len(Append(DropLast(nodes, n), t)) = Len(nodes) - n + 1
<1>1. nodes \in Seq(Types) /\ Len(nodes) \in Nat
  BY LenProperties DEF TypeOK
<1>2. PICK m \in Nat : m = Len(nodes) - n
  BY <1>1
<1>3. SubSeq(nodes, 1, m) \in Seq(Types) /\ Len(SubSeq(nodes, 1, m)) = m
  BY <1>1, <1>2, PrefixFacts
<1>4. DropLast(nodes, n) = SubSeq(nodes, 1, m)
  BY <1>2 DEF DropLast
<1> QED
  BY <1>2, <1>3, <1>4, AppendProperties

\* An exception ends the unit and every scope it had opened.
LEMMA RejectStep ==
  ASSUME IInv, phase = "check", Reject
  PROVE  IInv'
<1>1. Len(tscopes) \in Nat /\ tscopes \in Seq(Seq(Local))
  BY LenProperties DEF IInv, TypeOK
<1>2. Cardinality({k \in DOMAIN frames : Scoped(frames[k])}) = Len(tscopes)
  BY DEF IInv, FirstPassAtEnd, PluginsNest, ScopedFrames
<1>3. tscopes' = SubSeq(tscopes, 1, 0)
  <2>1. tscopes' = SubSeq(tscopes, 1,
                     Len(tscopes) - Cardinality({k \in DOMAIN frames : Scoped(frames[k])}))
    BY DEF Reject, DropLast
  <2>2. Len(tscopes) - Len(tscopes) = 0
    BY <1>1
  <2> QED
    BY <1>2, <2>1, <2>2
<1>4. tscopes' = << >>
  BY <1>3, SubSeqEmpty
<1>5. /\ phase' = "idle" /\ frames' = << >> /\ nodes' = << >> /\ code' = << >>
      /\ unit' = unit /\ UNCHANGED compileVars
  BY DEF Reject
<1>6. TypeOK'
  BY <1>4, <1>5, EmptySeq DEF IInv, TypeOK, compileVars
<1>7. PhaseShape'
  BY <1>4, <1>5 DEF IInv, PhaseShape, compileVars
<1>8. Len(code') = 0 /\ DOMAIN code' = {}
  BY <1>5, EmptySeq, LenProperties
<1>9. CodeChained'
  BY <1>8 DEF CodeChained
<1>10. SitesKnown'
  <2>1. \A k \in 1 .. Len(code') + 1 : k = 1
    BY <1>8
  <2>2. SitesPositive(UnitEnv')
    <3>1. UnitEnv' = EnvAt(1)
      BY <1>5 DEF EnvAt, UnitEnv
    <3>2. 1 \in 1 .. Len(code) + 1
      BY LenProperties DEF IInv, TypeOK
    <3> QED
      BY <3>1, <3>2 DEF IInv, SitesKnown
  <2>3. \A k \in 1 .. Len(code') + 1 : EnvAt(k)' = UnitEnv'
    BY <2>1 DEF EnvAt
  <2> QED
    BY <2>2, <2>3 DEF SitesKnown
<1> QED
  BY <1>5, <1>6, <1>7, <1>9, <1>10 DEF IInv, FirstPassAtEnd, SecondPassMirrors

\* The plugin on top, as the actions' guards see it.
LEMMA TopFacts ==
  ASSUME IInv, phase = "check"
  PROVE  /\ TypeOK /\ PluginsNest /\ frames # << >>
         /\ frames \in Seq(Plugin) /\ tscopes \in Seq(Seq(Local)) /\ nodes \in Seq(Types)
         /\ Len(frames) \in Nat /\ Len(nodes) \in Nat /\ Top \in Plugin
         /\ Top.base \in Nat /\ Top.base <= Len(nodes)
         /\ Delivered \in Nat /\ Delivered <= Len(nodes) /\ Top.base = Len(nodes) - Delivered
         /\ Delivered >= 1 => nodes # << >> /\ Last(nodes) \in Types
         /\ Top.stage \in {"bind", "cond"} => Top.form \in {"let", "for"}
         /\ Top.form \in {"let", "for"} => tscopes # << >>
         /\ [frames EXCEPT ![Len(frames)].stage = Top.stage] = frames
<1>1. TypeOK /\ PluginsNest
  BY DEF IInv, FirstPassAtEnd
<1>2. /\ frames \in Seq(Plugin) /\ tscopes \in Seq(Seq(Local)) /\ nodes \in Seq(Types)
      /\ frames # << >>
  BY <1>1 DEF TypeOK, PluginsNest
<1>3. /\ Len(frames) \in Nat /\ DOMAIN frames = 1 .. Len(frames) /\ Len(frames) >= 1
      /\ Top = frames[Len(frames)] /\ Top \in Plugin /\ Len(nodes) \in Nat
  BY <1>1, <1>2, FramesTyped
<1>4. FrameOK(Len(frames)) /\ Inside(Len(frames)) = tscopes
  BY <1>1, <1>3 DEF PluginsNest, Inside
<1>5. /\ Top.base \in Nat /\ Top.base <= Len(nodes)
      /\ Top.stage \in {"bind", "cond"} => Top.form \in {"let", "for"}
      /\ Top.form \in {"let", "for"} => tscopes # << >>
  BY <1>3, <1>4 DEF FrameOK, Plugin, Scoped
<1>6. /\ Delivered \in Nat /\ Delivered <= Len(nodes) /\ Top.base = Len(nodes) - Delivered
  BY <1>3, <1>5 DEF Delivered
<1>7. Delivered >= 1 => nodes # << >> /\ Last(nodes) \in Types
  <2>1. Delivered >= 1 => nodes # << >>
    BY <1>3, <1>6, EmptySeq
  <2> QED
    BY <1>2, <2>1, FrontFacts
<1>8. [frames EXCEPT ![Len(frames)].stage = Top.stage] = frames
  BY <1>2, <1>3 DEF Plugin
<1> QED
  BY <1>1, <1>2, <1>3, <1>5, <1>6, <1>7, <1>8

\* A leaf of the ast: the plugin on top is handed one more node.
LEMMA LeafMade ==
  ASSUME IInv, phase = "check", phase' = phase, unit' = unit, UNCHANGED compileVars,
         frames' = frames, tscopes' = tscopes,
         NEW c \in Instruction, c.op \in {"const", "ref"}, c.n = 0,
         c.env = tscopes, c.stk = nodes, InstrOK(c),
         code' = Append(code, c), nodes' = Append(DropLast(nodes, 0), c.type)
  PROVE  IInv'
<1>1. /\ TypeOK /\ PluginsNest /\ frames \in Seq(Plugin) /\ tscopes \in Seq(Seq(Local))
      /\ nodes \in Seq(Types) /\ Len(nodes) \in Nat /\ Top.base <= Len(nodes)
      /\ [frames EXCEPT ![Len(frames)].stage = Top.stage] = frames /\ Top \in Plugin
      /\ Top.stage \in {"bind", "cond"} => Top.form \in {"let", "for"}
  BY TopFacts
<1>2. EnvAfter(c) = tscopes /\ StkAfter(c) = Append(DropLast(nodes, 0), c.type)
  BY DEF EnvAfter, StkAfter
<1>3. nodes' \in Seq(Types) /\ Len(nodes') = Len(nodes) + 1
  <2>1. c.type \in Types
    BY DEF Instruction
  <2>2. 0 \in Nat /\ 0 <= Len(nodes) /\ Len(nodes) - 0 + 1 = Len(nodes) + 1
    BY <1>1
  <2> QED
    BY <1>1, <2>1, <2>2, NodeReturned
<1>4. PluginsNest'
  <2>1. Len(nodes') \in Nat /\ Top.base <= Len(nodes')
    BY SMTT(30), <1>1, <1>3 DEF Plugin
  <2>2. Top.stage \in {"bind", "cond", "body", "args"}
    BY <1>1 DEF Plugin
  <2> QED
    BY <1>1, <2>1, <2>2, PluginGoesOn
<1>5. SitesPositive(tscopes')
  BY SitesInForce
<1> QED
  BY <1>1, <1>2, <1>3, <1>4, <1>5, NodeMade

LEMMA CheckConstantStep ==
  ASSUME IInv, NEW t \in Numeric, CheckConstant(t)
  PROVE  IInv'
<1> DEFINE c == Instr("const", AnyName, t, 0, NoValue)
<1>1. /\ phase = "check" /\ phase' = phase /\ unit' = unit /\ UNCHANGED compileVars
      /\ code' = Append(code, c) /\ nodes' = Append(DropLast(nodes, 0), t)
      /\ frames' = frames /\ tscopes' = tscopes
  BY DEF CheckConstant, WantsExpression, Return
<1>2. t \in Types /\ t # Void /\ AnyName \in Names
  BY TypesAssumption, NamesAssumption DEF AnyName
<1>3. tscopes \in Seq(Seq(Local)) /\ nodes \in Seq(Types) /\ Len(nodes) \in Nat
  BY <1>1, TopFacts
<1>4. c \in Instruction
  BY <1>2, <1>3 DEF Instr, Instruction, NoValue
<1>5. /\ c.op = "const" /\ c.env = tscopes /\ c.stk = nodes /\ c.n = 0 /\ c.type = t
  BY DEF Instr
<1> HIDE DEF c
<1>6. InstrOK(c)
  BY <1>2, <1>3, <1>5 DEF InstrOK
<1> QED
  BY <1>1, <1>4, <1>5, <1>6, LeafMade

LEMMA CheckSymbolStep ==
  ASSUME IInv, NEW x \in Names, CheckSymbol(x)
  PROVE  IInv'
<1> DEFINE r == TypeCheckAccess(tscopes, x)
           c == Instr("ref", x, r.type, 0, r.at)
<1>1. phase = "check"
  BY DEF CheckSymbol, WantsExpression
<1>2. CASE r.at = Unresolved
  BY <1>1, <1>2, RejectStep DEF CheckSymbol
<1>3. CASE r.at # Unresolved
  <2>1. /\ phase' = phase /\ unit' = unit /\ UNCHANGED compileVars
        /\ code' = Append(code, c) /\ nodes' = Append(DropLast(nodes, 0), r.type)
        /\ frames' = frames /\ tscopes' = tscopes
    BY <1>3 DEF CheckSymbol, Return
  <2>2. tscopes \in Seq(Seq(Local)) /\ nodes \in Seq(Types) /\ Len(nodes) \in Nat
    BY <1>1, TopFacts
  <2>3. r \in [type : Types, at : Int]
    BY <1>3, <2>2, AccessType
  <2> HIDE DEF r
  <2>4. c \in Instruction
    BY <2>2, <2>3 DEF Instr, Instruction
  <2>5. /\ c.op = "ref" /\ c.env = tscopes /\ c.stk = nodes /\ c.n = 0 /\ c.type = r.type
        /\ c.at = r.at /\ c.name = x
    BY DEF Instr
  <2>6. r = [type |-> r.type, at |-> r.at]
    BY <2>3
  <2> HIDE DEF c
  <2>7. [type |-> c.type, at |-> c.at] = TypeCheckAccess(c.env, c.name) /\ c.at # Unresolved
    BY <1>3, <2>5, <2>6 DEF r
  <2>8. InstrOK(c)
    BY <2>2, <2>5, <2>7 DEF InstrOK
  <2> QED
    BY <1>1, <2>1, <2>4, <2>5, <2>8, LeafMade
<1> QED
  BY <1>2, <1>3

\* A plugin that returns: its node stands for those it was handed.
LEMMA PluginMakesNode ==
  ASSUME IInv, phase = "check", phase' = phase, unit' = unit, UNCHANGED compileVars,
         Top.form # "unit", frames' = Front(frames),
         tscopes' = IF Top.form \in {"let", "for"} THEN Front(tscopes) ELSE tscopes,
         NEW c \in Instruction, c.n = Delivered,
         \/ c.op \in {"endlet", "endfor"} /\ Top.form \in {"let", "for"}
         \/ c.op \in {"if", "set", "call"} /\ Top.form \notin {"let", "for"},
         c.env = tscopes, c.stk = nodes, InstrOK(c),
         code' = Append(code, c), nodes' = Append(DropLast(nodes, Delivered), c.type)
  PROVE  IInv'
<1>1. /\ TypeOK /\ PluginsNest /\ frames \in Seq(Plugin) /\ tscopes \in Seq(Seq(Local))
      /\ frames # << >> /\ Len(nodes) \in Nat /\ Top \in Plugin
      /\ Top.base \in Nat /\ Delivered \in Nat /\ Delivered <= Len(nodes)
      /\ Top.base = Len(nodes) - Delivered
      /\ Top.form \in {"let", "for"} => tscopes # << >>
  BY TopFacts
<1>2. tscopes' = EnvAfter(c) /\ nodes' = StkAfter(c)
  BY DEF EnvAfter, StkAfter
<1>3. nodes' \in Seq(Types) /\ Len(nodes') = Len(nodes) - Delivered + 1
  <2>1. c.type \in Types
    BY DEF Instruction
  <2> QED
    BY <1>1, <2>1, NodeReturned
<1>4. Len(nodes') \in Nat /\ Top.base <= Len(nodes')
  BY <1>1, <1>3
<1>5. PluginsNest'
  BY <1>1, <1>4, PluginReturns
<1>6. frames' \in Seq(Plugin)
  BY <1>1, FrontFacts
<1>7. tscopes' \in Seq(Seq(Local)) /\ SitesPositive(tscopes')
  <2>1. SitesPositive(tscopes)
    BY SitesInForce
  <2>2. CASE Top.form \notin {"let", "for"}
    BY <1>1, <2>1, <2>2
  <2>3. CASE Top.form \in {"let", "for"}
    <3>1. tscopes' = Front(tscopes)
      BY <2>3
    <3> QED
      BY <1>1, <2>1, <2>3, <3>1, FrontFacts, SitesOfFront
  <2> QED
    BY <2>2, <2>3
<1> QED
  BY <1>2, <1>3, <1>5, <1>6, <1>7, NodeMade

LEMMA OpenFormStep ==
  ASSUME IInv, NEW form \in SpecialForms \ {"set"}, OpenForm(form)
  PROVE  IInv'
<1> DEFINE stage == IF form = "if" THEN "body" ELSE "bind"
           f == Frame(form, stage, AnyName, Void, NoValue)
           c == Instr("enter", AnyName, Void, 0, NoValue)
<1>1. /\ phase = "check" /\ phase' = phase /\ unit' = unit /\ UNCHANGED compileVars
      /\ frames' = Append(frames, f) /\ nodes' = nodes
      /\ form = "if" => tscopes' = tscopes /\ code' = code
      /\ form # "if" => tscopes' = Append(tscopes, << >>) /\ code' = Append(code, c)
  BY DEF OpenForm, WantsExpression
<1>2. form \in {"if", "let", "for"} /\ Void \in Types /\ AnyName \in Names
  BY FormsAssumption, TypesAssumption, NamesAssumption DEF AnyName
<1>3. /\ TypeOK /\ PluginsNest /\ frames \in Seq(Plugin) /\ tscopes \in Seq(Seq(Local))
      /\ nodes \in Seq(Types) /\ Len(nodes) \in Nat
  BY <1>1, TopFacts
<1>4. f \in Plugin
  BY <1>2, <1>3 DEF Frame, Plugin, NoValue
<1>5. /\ f.form = form /\ f.stage = stage /\ f.base = Len(nodes) /\ f.env = tscopes
  BY DEF Frame
<1> HIDE DEF f
<1>6. PluginsNest'
  <2>1. tscopes' = IF f.form \in {"let", "for"} THEN Append(tscopes, << >>) ELSE tscopes
    BY <1>1, <1>2, <1>5
  <2>2. f.form \notin {"unit", "set", "call"}
    BY <1>2, <1>5
  <2>3. f.stage \in {"bind", "cond"} => f.form \in {"let", "for"}
    BY <1>2, <1>5
  <2> QED
    BY <1>1, <1>3, <1>4, <1>5, <2>1, <2>2, <2>3, PluginCalled
<1>7. frames' \in Seq(Plugin)
  BY <1>1, <1>3, <1>4, AppendProperties
<1>8. CASE form = "if"
  BY <1>1, <1>6, <1>7, <1>8, NoNode
<1>9. CASE form # "if"
  <2>1. c \in Instruction
    BY <1>2, <1>3 DEF Instr, Instruction, NoValue
  <2>2. c.op = "enter" /\ c.n = 0 /\ c.env = tscopes /\ c.stk = nodes
    BY DEF Instr
  <2> HIDE DEF c
  <2>3. InstrOK(c)
    BY <1>3, <2>2 DEF InstrOK
  <2>4. tscopes' = EnvAfter(c) /\ nodes' = StkAfter(c)
    BY <1>1, <1>9, <2>2 DEF EnvAfter, StkAfter
  <2>5. tscopes' \in Seq(Seq(Local)) /\ SitesPositive(tscopes') /\ nodes' \in Seq(Types)
    BY <1>1, <1>3, <1>9, SitesInForce, SitesOfAppend
  <2> QED
    BY <1>1, <1>6, <1>7, <1>9, <2>1, <2>2, <2>3, <2>4, <2>5, NodeMade
<1> QED
  BY <1>8, <1>9

LEMMA OpenSetStep ==
  ASSUME IInv, NEW x \in Names, OpenSet(x)
  PROVE  IInv'
<1> DEFINE r == TypeCheckAccess(tscopes, x)
           f == Frame("set", "body", x, r.type, r.at)
<1>1. phase = "check"
  BY DEF OpenSet, WantsExpression
<1>2. CASE r.at = Unresolved
  BY <1>1, <1>2, RejectStep DEF OpenSet
<1>3. CASE r.at # Unresolved
  <2>1. /\ phase' = phase /\ unit' = unit /\ UNCHANGED compileVars
        /\ frames' = Append(frames, f) /\ nodes' = nodes /\ tscopes' = tscopes /\ code' = code
    BY <1>3 DEF OpenSet
  <2>2. /\ TypeOK /\ PluginsNest /\ frames \in Seq(Plugin) /\ tscopes \in Seq(Seq(Local))
        /\ nodes \in Seq(Types) /\ Len(nodes) \in Nat
    BY <1>1, TopFacts
  <2>3. r \in [type : Types, at : Int]
    BY <1>3, <2>2, AccessType
  <2> HIDE DEF r
  <2>4. f \in Plugin
    BY <2>2, <2>3 DEF Frame, Plugin
  <2>5. /\ f.form = "set" /\ f.stage = "body" /\ f.base = Len(nodes) /\ f.env = tscopes
        /\ f.name = x /\ f.type = r.type /\ f.at = r.at
    BY DEF Frame
  <2>6. r = [type |-> r.type, at |-> r.at]
    BY <2>3
  <2> HIDE DEF f
  <2>7. [type |-> f.type, at |-> f.at] = TypeCheckAccess(f.env, f.name) /\ f.at # Unresolved
    BY <1>3, <2>5, <2>6 DEF r
  <2>8. frames' \in Seq(Plugin)
    BY <2>1, <2>2, <2>4, AppendProperties
  <2>9. PluginsNest'
    <3>1. /\ f.form # "unit" /\ f.form # "call" /\ f.form \notin {"let", "for"}
          /\ f.stage \notin {"bind", "cond"}
      BY <2>5
    <3> QED
      BY <2>1, <2>2, <2>4, <2>5, <2>7, <3>1, PluginCalled
  <2> QED
    BY <1>1, <2>1, <2>8, <2>9, NoNode
<1> QED
  BY <1>2, <1>3

LEMMA OpenCallStep ==
  ASSUME IInv, NEW x \in Names, OpenCall(x)
  PROVE  IInv'
<1> DEFINE f == Frame("call", "args", x, Void, NoValue)
<1>1. phase = "check"
  BY DEF OpenCall, WantsExpression
<1>2. CASE ~ (x \in DOMAIN Symbols /\ Symbols[x].kind = "function")
  BY <1>1, <1>2, RejectStep DEF OpenCall
<1>3. CASE x \in DOMAIN Symbols /\ Symbols[x].kind = "function"
  <2>1. /\ phase' = phase /\ unit' = unit /\ UNCHANGED compileVars
        /\ frames' = Append(frames, f) /\ nodes' = nodes /\ tscopes' = tscopes /\ code' = code
    BY <1>3 DEF OpenCall
  <2>2. /\ TypeOK /\ PluginsNest /\ frames \in Seq(Plugin) /\ tscopes \in Seq(Seq(Local))
        /\ nodes \in Seq(Types) /\ Len(nodes) \in Nat
    BY <1>1, TopFacts
  <2>3. f \in Plugin
    BY <2>2, TypesAssumption DEF Frame, Plugin, NoValue
  <2>4. /\ f.form = "call" /\ f.stage = "args" /\ f.base = Len(nodes) /\ f.env = tscopes
        /\ f.name = x
    BY DEF Frame
  <2> HIDE DEF f
  <2>5. frames' \in Seq(Plugin)
    BY <2>1, <2>2, <2>3, AppendProperties
  <2>6. PluginsNest'
    <3>1. /\ f.form # "unit" /\ f.form # "set" /\ f.form \notin {"let", "for"}
          /\ f.stage \notin {"bind", "cond"}
      BY <2>4
    <3> QED
      BY <1>3, <2>1, <2>2, <2>3, <2>4, <3>1, PluginCalled
  <2> QED
    BY <1>1, <2>1, <2>5, <2>6, NoNode
<1> QED
  BY <1>2, <1>3

\* A binding adds its local to the scope of the let or for on top.
LEMMA BindLocalStep ==
  ASSUME IInv, NEW x \in Names, BindLocal(x)
  PROVE  IInv'
<1> DEFINE site == Len(unit.args) + Len(code) + 1
           t == Last(nodes)
           c == Instr("bind", x, t, 0, site)
           e == [name |-> x, type |-> t, at |-> site]
<1>1. /\ phase = "check" /\ phase' = phase /\ unit' = unit /\ UNCHANGED compileVars
      /\ Top.stage = "bind" /\ Delivered = 1
      /\ frames' = frames /\ nodes' = Front(nodes) /\ code' = Append(code, c)
      /\ tscopes' = [tscopes EXCEPT ![Len(tscopes)] = Append(@, e)]
  BY DEF BindLocal
<1>2. /\ TypeOK /\ PluginsNest /\ frames \in Seq(Plugin) /\ tscopes \in Seq(Seq(Local))
      /\ nodes \in Seq(Types) /\ Len(nodes) \in Nat /\ Top \in Plugin
      /\ Top.base \in Nat /\ Top.base = Len(nodes) - Delivered
      /\ nodes # << >> /\ t \in Types
      /\ Top.form \in {"let", "for"} /\ tscopes # << >>
      /\ [frames EXCEPT ![Len(frames)].stage = Top.stage] = frames
  BY <1>1, TopFacts
<1>3. site \in Nat /\ site >= 1
  <2>1. Len(unit.args) \in Nat /\ Len(code) \in Nat
    BY <1>2, LenProperties DEF TypeOK
  <2> QED
    BY <2>1
<1> HIDE DEF site, t
<1>4. c \in Instruction /\ e \in Local
  BY <1>2, <1>3 DEF Instr, Instruction, Local
<1>5. /\ c.op = "bind" /\ c.n = 0 /\ c.env = tscopes /\ c.stk = nodes
      /\ c.name = x /\ c.type = t /\ c.at = site
  BY DEF Instr
<1> HIDE DEF c
<1>6. InstrOK(c)
  BY <1>2, <1>3, <1>5 DEF InstrOK, t
<1>7. tscopes' = EnvAfter(c) /\ nodes' = StkAfter(c)
  BY <1>1, <1>5 DEF EnvAfter, StkAfter
<1>8. nodes' \in Seq(Types) /\ Len(nodes') = Len(nodes) - 1
  BY <1>1, <1>2, FrontFacts
<1>9. PICK top \in Seq(Local) : top = Append(tscopes[Len(tscopes)], e)
  <2>1. tscopes[Len(tscopes)] \in Seq(Local)
    BY <1>2, FrontFacts
  <2> QED
    BY <1>4, <2>1, AppendProperties
<1>9a. tscopes' = WithTop(tscopes, top)
  BY <1>1, <1>9 DEF WithTop
<1>10. /\ tscopes' \in Seq(Seq(Local)) /\ tscopes' # << >>
       /\ Len(tscopes') = Len(tscopes) /\ Front(tscopes') = Front(tscopes)
       /\ \A i \in 1 .. Len(tscopes) - 1 : tscopes'[i] = tscopes[i]
       /\ tscopes'[Len(tscopes)] = top
  <2>1. tscopes \in Seq(Seq(Local)) /\ tscopes # << >>
    BY <1>2
  <2>2. /\ WithTop(tscopes, top) \in Seq(Seq(Local)) /\ WithTop(tscopes, top) # << >>
        /\ Len(WithTop(tscopes, top)) = Len(tscopes)
        /\ \A i \in 1 .. Len(tscopes) - 1 : WithTop(tscopes, top)[i] = tscopes[i]
        /\ WithTop(tscopes, top)[Len(tscopes)] = top
        /\ Front(WithTop(tscopes, top)) = Front(tscopes)
    BY <2>1, ReplaceTop
  <2> QED
    BY <1>9a, <2>2
<1>11. PluginsNest'
  <2>1. Len(nodes') \in Nat /\ Top.base <= Len(nodes')
    BY <1>1, <1>2, <1>8
  <2>2. "bind" \in {"bind", "cond", "body", "args"}
    OBVIOUS
  <2> QED
    BY <1>1, <1>2, <1>10, <2>1, <2>2, PluginGoesOn
<1>12. SitesPositive(tscopes')
  <2>1. SitesPositive(tscopes)
    BY <1>1, SitesInForce
  <2>2. Len(tscopes) \in Nat \ {0} /\ DOMAIN tscopes = 1 .. Len(tscopes)
        /\ DOMAIN tscopes' = 1 .. Len(tscopes)
    BY <1>2, <1>10, EmptySeq, LenProperties
  <2>3. ASSUME NEW j \in DOMAIN top PROVE top[j].at >= 1
    <3> DEFINE old == tscopes[Len(tscopes)]
    <3>1. old \in Seq(Local) /\ Len(tscopes) \in DOMAIN tscopes
      BY <1>2, <2>2, FrontFacts
    <3>2. /\ top = Append(old, e) /\ Len(top) = Len(old) + 1
          /\ \A i \in 1 .. Len(old) : top[i] = old[i]
          /\ top[Len(old) + 1] = e
      BY <1>4, <1>9, <3>1, AppendProperties
    <3>3. DOMAIN old = 1 .. Len(old) /\ Len(old) \in Nat /\ DOMAIN top = 1 .. Len(old) + 1
      BY <3>1, <3>2, LenProperties
    <3>4. CASE j = Len(old) + 1
      BY <1>3, <3>2, <3>4
    <3>5. CASE j \in 1 .. Len(old)
      <4>1. old[j].at >= 1
        BY <2>1, <3>1, <3>3, <3>5 DEF SitesPositive
      <4> QED
        BY <3>2, <3>5, <4>1
    <3> QED
      BY <3>3, <3>4, <3>5
  <2>4. ASSUME NEW i \in DOMAIN tscopes', NEW j \in DOMAIN tscopes'[i]
        PROVE  tscopes'[i][j].at >= 1
    <3>1. CASE i = Len(tscopes)
      BY <1>10, <2>3, <3>1
    <3>2. CASE i # Len(tscopes)
      <4>1. i \in DOMAIN tscopes /\ tscopes'[i] = tscopes[i]
        <5>1. i \in 1 .. Len(tscopes) - 1
          BY <2>2, <3>2
        <5> QED
          BY <1>10, <2>2, <5>1
      <4> QED
        BY <2>1, <4>1 DEF SitesPositive
    <3> QED
      BY <3>1, <3>2
  <2> QED
    BY <2>4 DEF SitesPositive
<1> QED
  BY <1>1, <1>2, <1>4, <1>5, <1>6, <1>7, <1>8, <1>10, <1>11, <1>12, NodeMade

LEMMA EndBindingsStep ==
  ASSUME IInv, EndBindings
  PROVE  IInv'
<1> DEFINE stage == IF Top.form = "let" THEN "body" ELSE "cond"
<1>1. /\ phase = "check" /\ phase' = phase /\ unit' = unit /\ UNCHANGED compileVars
      /\ Top.stage = "bind" /\ frames' = [frames EXCEPT ![Len(frames)].stage = stage]
      /\ tscopes' = tscopes /\ nodes' = nodes /\ code' = code
  BY DEF EndBindings
<1>2. /\ TypeOK /\ PluginsNest /\ Len(nodes) \in Nat /\ Top.base <= Len(nodes)
      /\ Top.form \in {"let", "for"}
  BY <1>1, TopFacts
<1>3. PluginsNest' /\ frames' \in Seq(Plugin)
  BY <1>1, <1>2, PluginGoesOn
<1> QED
  BY <1>1, <1>3, NoNode

LEMMA CloseConditionStep ==
  ASSUME IInv, CloseCondition
  PROVE  IInv'
<1> DEFINE c == Instr("branch", AnyName, Bool, 0, NoValue)
<1>1. phase = "check"
  BY DEF CloseCondition
<1>2. CASE Last(nodes) # Bool
  BY <1>1, <1>2, RejectStep DEF CloseCondition
<1>3. CASE Last(nodes) = Bool
  <2>1. /\ phase' = phase /\ unit' = unit /\ UNCHANGED compileVars
        /\ Top.stage = "cond" /\ Delivered = 1
        /\ frames' = [frames EXCEPT ![Len(frames)].stage = "body"]
        /\ code' = Append(code, c) /\ nodes' = Front(nodes) /\ tscopes' = tscopes
    BY <1>3 DEF CloseCondition
  <2>2. /\ TypeOK /\ PluginsNest /\ tscopes \in Seq(Seq(Local))
        /\ nodes \in Seq(Types) /\ nodes # << >> /\ Len(nodes) \in Nat
        /\ Top.base \in Nat /\ Top.base = Len(nodes) - Delivered
        /\ Top.form \in {"let", "for"}
    BY <1>1, <2>1, TopFacts
  <2>3. c \in Instruction
    BY <2>2, TypesAssumption, NamesAssumption DEF Instr, Instruction, NoValue, AnyName
  <2>4. c.op = "branch" /\ c.n = 0 /\ c.env = tscopes /\ c.stk = nodes
    BY DEF Instr
  <2> HIDE DEF c
  <2>5. InstrOK(c)
    BY <1>3, <2>2, <2>4 DEF InstrOK
  <2>6. tscopes' = EnvAfter(c) /\ nodes' = StkAfter(c)
    BY <2>1, <2>4 DEF EnvAfter, StkAfter
  <2>7. nodes' \in Seq(Types) /\ Len(nodes') = Len(nodes) - 1
    BY <2>1, <2>2, FrontFacts
  <2>8. PluginsNest' /\ frames' \in Seq(Plugin)
    <3>1. Len(nodes') \in Nat /\ Top.base <= Len(nodes')
      BY <2>1, <2>2, <2>7
    <3> QED
      BY <2>1, <2>2, <3>1, PluginGoesOn
  <2>9. SitesPositive(tscopes')
    BY <1>1, <2>1, SitesInForce
  <2> QED
    BY <1>1, <2>1, <2>2, <2>3, <2>4, <2>5, <2>6, <2>7, <2>8, <2>9, NodeMade
<1> QED
  BY <1>2, <1>3

LEMMA CloseScopeStep ==
  ASSUME IInv, CloseScope
  PROVE  IInv'
<1> DEFINE t  == IF Top.form = "let" THEN Last(nodes) ELSE Void
           op == IF Top.form = "let" THEN "endlet" ELSE "endfor"
           c  == Instr(op, AnyName, t, Delivered, NoValue)
<1>1. /\ phase = "check" /\ phase' = phase /\ unit' = unit /\ UNCHANGED compileVars
      /\ Top.form \in {"let", "for"} /\ Delivered >= 1
      /\ code' = Append(code, c) /\ nodes' = Append(DropLast(nodes, Delivered), t)
      /\ tscopes' = Front(tscopes) /\ frames' = Front(frames)
  BY DEF CloseScope, Return
<1>2. /\ tscopes \in Seq(Seq(Local)) /\ tscopes # << >>
      /\ nodes \in Seq(Types) /\ nodes # << >> /\ Last(nodes) \in Types
      /\ Delivered \in Nat /\ Delivered <= Len(nodes)
  BY <1>1, TopFacts
<1>3. t \in Types /\ op \in {"endlet", "endfor"} /\ AnyName \in Names
  BY <1>2, TypesAssumption, NamesAssumption DEF AnyName
<1>4. (op = "endlet" => t = Last(nodes)) /\ (op = "endfor" => t = Void)
  BY <1>1
<1> HIDE DEF t, op
<1>5. c \in Instruction
  BY <1>2, <1>3 DEF Instr, Instruction, NoValue
<1>6. /\ c.op = op /\ c.n = Delivered /\ c.type = t /\ c.env = tscopes /\ c.stk = nodes
  BY DEF Instr
<1> HIDE DEF c
<1>7. InstrOK(c)
  BY <1>1, <1>2, <1>3, <1>4, <1>6 DEF InstrOK
<1> QED
  BY <1>1, <1>3, <1>5, <1>6, <1>7, PluginMakesNode

LEMMA CloseIfStep ==
  ASSUME IInv, CloseIf
  PROVE  IInv'
<1> DEFINE n == Len(nodes)
           c == Instr("if", AnyName, nodes[n], 3, NoValue)
<1>1. phase = "check" /\ Top.form = "if" /\ Delivered = 3
  BY DEF CloseIf
<1>2. CASE nodes[n - 2] # Bool \/ nodes[n - 1] # nodes[n]
  BY <1>1, <1>2, RejectStep DEF CloseIf
<1>3. CASE ~ (nodes[n - 2] # Bool \/ nodes[n - 1] # nodes[n])
  <2>1. /\ phase' = phase /\ unit' = unit /\ UNCHANGED compileVars
        /\ code' = Append(code, c) /\ nodes' = Append(DropLast(nodes, 3), nodes[n])
        /\ tscopes' = tscopes /\ frames' = Front(frames)
    BY <1>3 DEF CloseIf, Return
  <2>2. /\ tscopes \in Seq(Seq(Local)) /\ nodes \in Seq(Types) /\ nodes # << >>
        /\ Last(nodes) \in Types /\ Len(nodes) \in Nat /\ Len(nodes) >= 3
    BY <1>1, TopFacts
  <2>3. Last(nodes) = nodes[n]
    BY DEF Last
  <2>4. c \in Instruction
    BY <2>2, <2>3, NamesAssumption DEF Instr, Instruction, NoValue, AnyName
  <2>5. /\ c.op = "if" /\ c.n = 3 /\ c.type = nodes[n] /\ c.env = tscopes /\ c.stk = nodes
    BY DEF Instr
  <2> HIDE DEF c
  <2>6. InstrOK(c)
    BY <1>3, <2>2, <2>3, <2>5 DEF InstrOK
  <2> QED
    BY <1>1, <2>1, <2>4, <2>5, <2>6, PluginMakesNode
<1> QED
  BY <1>2, <1>3

LEMMA CloseSetStep ==
  ASSUME IInv, CloseSet
  PROVE  IInv'
<1> DEFINE c == Instr("set", Top.name, Top.type, 1, Top.at)
<1>1. phase = "check" /\ Top.form = "set" /\ Delivered = 1
  BY DEF CloseSet
<1>2. CASE Last(nodes) # Top.type
  BY <1>1, <1>2, RejectStep DEF CloseSet
<1>3. CASE Last(nodes) = Top.type
  <2>1. /\ phase' = phase /\ unit' = unit /\ UNCHANGED compileVars
        /\ code' = Append(code, c) /\ nodes' = Append(DropLast(nodes, 1), Top.type)
        /\ tscopes' = tscopes /\ frames' = Front(frames)
    BY <1>3 DEF CloseSet, Return
  <2>2. /\ TypeOK /\ PluginsNest /\ Top \in Plugin
        /\ tscopes \in Seq(Seq(Local)) /\ nodes \in Seq(Types) /\ nodes # << >>
        /\ Len(nodes) \in Nat /\ Delivered <= Len(nodes)
    BY <1>1, TopFacts
  <2>3. FrameOK(Len(frames)) /\ Top = frames[Len(frames)] /\ Inside(Len(frames)) = tscopes
    BY <2>2, FramesTyped DEF PluginsNest, Inside
  <2>4. /\ Top.env = tscopes /\ Top.at # Unresolved
        /\ [type |-> Top.type, at |-> Top.at] = TypeCheckAccess(Top.env, Top.name)
    BY <1>1, <2>3 DEF FrameOK, Scoped
  <2>5. c \in Instruction
    BY <2>2 DEF Instr, Instruction, Plugin
  <2>6. /\ c.op = "set" /\ c.n = 1 /\ c.type = Top.type /\ c.at = Top.at /\ c.name = Top.name
        /\ c.env = tscopes /\ c.stk = nodes
    BY DEF Instr
  <2> HIDE DEF c
  <2>7. InstrOK(c)
    BY <1>1, <1>3, <2>2, <2>4, <2>6 DEF InstrOK
  <2> QED
    BY <1>1, <2>1, <2>5, <2>6, <2>7, PluginMakesNode
<1> QED
  BY <1>2, <1>3

\* A call resolves to one of the overloads, whatever its arguments.
LEMMA OverloadExists ==
  ASSUME NEW x \in DOMAIN Symbols, Symbols[x].kind = "function", NEW args
  PROVE  /\ ResolveOverload(Symbols[x].overloads, args) \in DOMAIN Symbols[x].overloads
         /\ ResolveOverload(Symbols[x].overloads, args) \in Nat
         /\ Symbols[x].overloads[ResolveOverload(Symbols[x].overloads, args)].ret \in Types
<1> DEFINE o == Symbols[x].overloads
           matching == {i \in DOMAIN o : o[i].args = args}
           k == ResolveOverload(o, args)
<1>1. o \in Seq([args : Seq(Types), ret : Types]) /\ o # << >>
  BY SymbolsAssumption
<1> HIDE DEF o
<1>2. DOMAIN o = 1 .. Len(o) /\ Len(o) \in Nat \ {0}
  BY <1>1, EmptySeq, LenProperties
<1>3. k = IF matching = {} THEN Len(o) ELSE Min(matching)
  BY DEF ResolveOverload
<1>4. matching \in SUBSET Nat
  BY <1>2
<1>5. matching # {} => Min(matching) \in matching
  BY <1>4, MinFacts
<1>6. k \in 1 .. Len(o)
  BY <1>2, <1>3, <1>5
<1> HIDE DEF k
<1>7. o[k] \in [args : Seq(Types), ret : Types]
  BY <1>1, <1>6, ElementOfSeq
<1> QED
  BY <1>2, <1>6, <1>7 DEF o, k

LEMMA CloseCallStep ==
  ASSUME IInv, CloseCall
  PROVE  IInv'
<1> DEFINE k == ResolveOverload(Symbols[Top.name].overloads,
                                SubSeq(nodes, Top.base + 1, Len(nodes)))
           t == Symbols[Top.name].overloads[k].ret
           c == Instr("call", Top.name, t, Delivered, k)
<1>1. /\ phase = "check" /\ Top.form = "call"
      /\ phase' = phase /\ unit' = unit /\ UNCHANGED compileVars
      /\ code' = Append(code, c) /\ nodes' = Append(DropLast(nodes, Delivered), t)
      /\ tscopes' = tscopes /\ frames' = Front(frames)
  BY DEF CloseCall, Return
<1>2. /\ TypeOK /\ PluginsNest /\ Top \in Plugin
      /\ tscopes \in Seq(Seq(Local)) /\ nodes \in Seq(Types)
      /\ Delivered \in Nat /\ Delivered <= Len(nodes)
  BY <1>1, TopFacts
<1>3. FrameOK(Len(frames)) /\ Top = frames[Len(frames)]
  BY <1>2, FramesTyped DEF PluginsNest
<1>4. Top.name \in DOMAIN Symbols /\ Symbols[Top.name].kind = "function"
  BY <1>1, <1>3 DEF FrameOK
<1>5. k \in Nat /\ t \in Types
  BY <1>4, OverloadExists
<1> HIDE DEF k, t
<1>6. c \in Instruction
  BY <1>2, <1>5 DEF Instr, Instruction, Plugin
<1>7. /\ c.op = "call" /\ c.n = Delivered /\ c.type = t /\ c.env = tscopes /\ c.stk = nodes
  BY DEF Instr
<1> HIDE DEF c
<1>8. InstrOK(c)
  BY <1>2, <1>7 DEF InstrOK
<1> QED
  BY <1>1, <1>6, <1>7, <1>8, PluginMakesNode

\* Every step of the first walk within a unit preserves the invariant.
LEMMA CheckStepPreserves ==
  ASSUME IInv, CheckStep
  PROVE  IInv'
<1>1. ASSUME NEW t \in Numeric, CheckConstant(t) PROVE IInv'
  BY <1>1, CheckConstantStep
<1>2. ASSUME NEW x \in Names, CheckSymbol(x) PROVE IInv'
  BY <1>2, CheckSymbolStep
<1>3. ASSUME NEW x \in Names, OpenSet(x) PROVE IInv'
  BY <1>3, OpenSetStep
<1>4. ASSUME NEW x \in Names, OpenCall(x) PROVE IInv'
  BY <1>4, OpenCallStep
<1>5. ASSUME NEW x \in Names, BindLocal(x) PROVE IInv'
  BY <1>5, BindLocalStep
<1>6. ASSUME NEW form \in SpecialForms \ {"set"}, OpenForm(form) PROVE IInv'
  BY <1>6, OpenFormStep
<1>7. CASE EndBindings
  BY <1>7, EndBindingsStep
<1>8. CASE CloseCondition
  BY <1>8, CloseConditionStep
<1>9. CASE CloseScope
  BY <1>9, CloseScopeStep
<1>10. CASE CloseIf
  BY <1>10, CloseIfStep
<1>11. CASE CloseSet
  BY <1>11, CloseSetStep
<1>12. CASE CloseCall
  BY <1>12, CloseCallStep
<1>13. CASE Malformed
  BY <1>13, RejectStep DEF Malformed
<1> QED
  BY <1>1, <1>2, <1>3, <1>4, <1>5, <1>6, <1>7, <1>8, <1>9, <1>10, <1>11, <1>12, <1>13
     DEF CheckStep

-----------------------------------------------------------------------------
(* Beginning a unit, and handing it to the second walk.                     *)

\* The scope of the arguments: no argument is void, each has a site.
LEMMA ArgumentScopeFacts ==
  ASSUME NEW args \in Seq([name : Names, type : Types \ {Void}])
  PROVE  /\ ArgumentScope(args) \in Seq(Local) /\ ArgumentScope(args) \in Seq(CompiledLocal)
         /\ Len(ArgumentScope(args)) = Len(args)
         /\ \A j \in DOMAIN ArgumentScope(args) :
              /\ ArgumentScope(args)[j].at >= 1
              /\ ArgumentScope(args)[j].type # Void
         /\ args = << >> => ArgumentScope(args) = << >>
<1> DEFINE a == ArgumentScope(args)
<1>1. DOMAIN args = 1 .. Len(args) /\ Len(args) \in Nat
  BY LenProperties
<1>2. \A j \in 1 .. Len(args) : args[j] \in [name : Names, type : Types \ {Void}]
  BY ElementOfSeq
<1>3. /\ DOMAIN a = 1 .. Len(args)
      /\ \A j \in 1 .. Len(args) : a[j] = [name |-> args[j].name, type |-> args[j].type, at |-> j]
  BY <1>1 DEF ArgumentScope
<1>4. \A j \in 1 .. Len(args) : /\ a[j] \in Local /\ a[j] \in CompiledLocal
                                /\ a[j].at = j /\ a[j].type # Void
  BY <1>2, <1>3 DEF Local, CompiledLocal
<1>5. a \in [1 .. Len(args) -> Local] /\ a \in [1 .. Len(args) -> CompiledLocal]
  BY <1>3, <1>4 DEF ArgumentScope
<1> HIDE DEF a
<1>6. a \in Seq(Local) /\ a \in Seq(CompiledLocal)
  BY <1>1, <1>5, SeqDef
<1>7. Len(a) = Len(args)
  BY <1>1, <1>3, <1>6, LenProperties
<1>8. args = << >> => a = << >>
  BY <1>6, <1>7, EmptySeq
<1> QED
  BY <1>3, <1>4, <1>6, <1>7, <1>8 DEF a

\* The one-scope environment of a function, and the empty one of a statement.
LEMMA OneScope ==
  ASSUME NEW a \in Seq(Local), \A j \in DOMAIN a : a[j].at >= 1
  PROVE  /\ << a >> \in Seq(Seq(Local)) /\ SitesPositive(<< a >>) /\ SitesPositive(<< >>)
         /\ Len(<< a >>) = 1 /\ << a >>[1] = a /\ Front(<< a >>) = << >>
<1>1. << a >> \in Seq(Seq(Local)) /\ Len(<< a >>) = 1 /\ << a >>[1] = a /\ DOMAIN << a >> = {1}
  OBVIOUS
<1>2. SitesPositive(<< a >>) /\ SitesPositive(<< >>)
  BY <1>1 DEF SitesPositive
<1>3. Front(<< a >>) = << >>
  BY <1>1, SubSeqEmpty DEF Front
<1> QED
  BY <1>1, <1>2, <1>3

LEMMA UnitEnvFacts ==
  ASSUME TypeOK
  PROVE  /\ UnitEnv \in Seq(Seq(Local)) /\ SitesPositive(UnitEnv)
         /\ Len(UnitEnv) = (IF unit.defn THEN 1 ELSE 0)
         /\ unit.defn => UnitEnv[1] = ArgumentScope(unit.args) /\ Front(UnitEnv) = << >>
<1>1. unit.args \in Seq([name : Names, type : Types \ {Void}]) /\ unit.defn \in BOOLEAN
  BY DEF TypeOK
<1>2. PICK a \in Seq(Local) : /\ a = ArgumentScope(unit.args)
                              /\ \A j \in DOMAIN a : a[j].at >= 1
  BY <1>1, ArgumentScopeFacts
<1>3. UnitEnv = IF unit.defn THEN << a >> ELSE << >>
  BY <1>2 DEF UnitEnv
<1> QED
  BY <1>1, <1>2, <1>3, OneScope, EmptySeq

LEMMA BeginUnitStep ==
  ASSUME IInv, NEW defn \in BOOLEAN, NEW args \in Signatures \union {<< >>}, BeginUnit(defn, args)
  PROVE  IInv'
<1> DEFINE f == Frame("unit", "body", AnyName, Void, NoValue)
<1>1. /\ phase = "idle" /\ phase' = "check" /\ unit' = [defn |-> defn, args |-> args]
      /\ (~ defn => args = << >>)
      /\ frames' = << f >> /\ nodes' = nodes /\ code' = code /\ UNCHANGED compileVars
      /\ tscopes' = IF defn THEN Append(tscopes, ArgumentScope(args)) ELSE tscopes
  BY DEF BeginUnit
<1>2. /\ tscopes = << >> /\ nodes = << >> /\ code = << >> /\ cscopes = << >> /\ results = << >>
  BY <1>1 DEF IInv, PhaseShape
<1>3. /\ f.form = "unit" /\ f.stage = "body" /\ f.base = 0 /\ f.env = << >> /\ f \in Plugin
  <2>1. Len(nodes) = 0 /\ << >> \in Seq(Seq(Local))
    BY <1>2, EmptySeq
  <2> QED
    BY <1>2, <2>1, NamesAssumption, TypesAssumption DEF Frame, Plugin, AnyName, NoValue
<1> HIDE DEF f
<1>4. args \in Seq([name : Names, type : Types \ {Void}])
  BY SignaturesAssumption, EmptySeq
<1>5. PICK a \in Seq(Local) : /\ a = ArgumentScope(args)
                              /\ \A j \in DOMAIN a : a[j].at >= 1
  BY <1>4, ArgumentScopeFacts
<1>6. unit'.defn = defn /\ unit'.args = args
  BY <1>1
<1>7. tscopes' = UnitEnv'
  <2>1. Append(<< >>, a) = << a >>
    OBVIOUS
  <2> QED
    BY <1>1, <1>2, <1>5, <1>6, <2>1 DEF UnitEnv
<1>8. TypeOK'
  <2>1. frames' \in Seq(Plugin) /\ nodes' \in Seq(Types) /\ code' \in Seq(Instruction)
    BY <1>1, <1>3 DEF IInv, TypeOK
  <2>2. unit' \in [defn : BOOLEAN, args : Seq([name : Names, type : Types \ {Void}])]
    BY <1>1, <1>4
  <2>3. tscopes' \in Seq(Seq(Local))
    BY <1>1, <1>2, <1>5, EmptySeq, AppendProperties
  <2> QED
    BY <1>1, <2>1, <2>2, <2>3 DEF IInv, TypeOK, compileVars
<1>9. PhaseShape'
  BY <1>1, <1>2, <1>6 DEF PhaseShape, compileVars
<1>10. Len(code') = 0 /\ DOMAIN code' = {}
  BY <1>1, <1>2, EmptySeq, LenProperties
<1>11. CodeChained'
  BY <1>10 DEF CodeChained
<1>12. /\ UnitEnv' \in Seq(Seq(Local)) /\ SitesPositive(UnitEnv')
       /\ Len(UnitEnv') = (IF defn THEN 1 ELSE 0)
       /\ defn => Front(UnitEnv') = << >>
  <2>1. UnitEnv' = IF defn THEN << a >> ELSE << >>
    BY <1>5, <1>6 DEF UnitEnv
  <2> QED
    BY <1>5, <2>1, OneScope, EmptySeq
<1>13. SitesKnown'
  <2>1. ASSUME NEW k \in 1 .. Len(code') + 1 PROVE SitesPositive(EnvAt(k)')
    <3>1. k = 1
      BY <1>10
    <3> QED
      BY <1>12, <3>1 DEF EnvAt
  <2> QED
    BY <2>1 DEF SitesKnown
<1>14. EnvAt(Len(code) + 1)' = UnitEnv' /\ StkAt(Len(code) + 1)' = << >>
  BY <1>10 DEF EnvAt, StkAt
<1>15. Len(frames') = 1 /\ frames'[1] = f /\ DOMAIN frames' = {1} /\ frames' # << >>
  BY <1>1
<1>16. FrameOK(1)'
  <2>1. Inside(1)' = UnitEnv'
    BY <1>7, <1>15 DEF Inside
  <2>2. Len(nodes') = 0
    BY <1>1, <1>2, EmptySeq
  <2>3. defn => UnitEnv' # << >>
    BY <1>12, EmptySeq
  <2>4. ~ defn => UnitEnv' = << >>
    BY <1>6 DEF UnitEnv
  <2>5. \A j \in 1 .. 1 : j = 1
    OBVIOUS
  <2> QED
    BY <1>3, <1>6, <1>12, <1>15, <2>1, <2>2, <2>3, <2>4, <2>5 DEF FrameOK, Scoped
<1>17. Len(tscopes') = Cardinality(ScopedFrames')
  <2>1. ScopedFrames' = IF defn THEN {1} ELSE {}
    BY <1>3, <1>6, <1>15 DEF ScopedFrames, Scoped
  <2> QED
    BY <1>7, <1>12, <2>1, FS_EmptySet, FS_Singleton
<1>18. PluginsNest'
  <2>1. Inside(1)' = UnitEnv'
    BY <1>7, <1>15 DEF Inside
  <2> QED
    BY <1>3, <1>15, <1>16, <1>17, <2>1 DEF PluginsNest
<1>19. FirstPassAtEnd'
  BY <1>1, <1>2, <1>7, <1>14, <1>18 DEF FirstPassAtEnd
<1>20. SecondPassMirrors'
  BY <1>1 DEF SecondPassMirrors
<1> QED
  BY <1>8, <1>9, <1>11, <1>13, <1>19, <1>20 DEF IInv

LEMMA BeginCompileStep ==
  ASSUME IInv, BeginCompile
  PROVE  IInv'
<1> DEFINE a == ArgumentScope(unit.args)
<1>1. /\ phase = "check" /\ phase' = "compile" /\ Top.form = "unit"
      /\ unit' = unit /\ code' = code /\ results' = results
      /\ frames' = << >> /\ nodes' = << >> /\ pc' = 1
      /\ tscopes' = IF unit.defn THEN Front(tscopes) ELSE tscopes
      /\ cscopes' = Append(cscopes, a)
  BY DEF BeginCompile
<1>2. TypeOK /\ PluginsNest
  BY <1>1, TopFacts
<1>3. /\ FrameOK(Len(frames)) /\ Top = frames[Len(frames)]
      /\ Len(code) \in Nat /\ DOMAIN code = 1 .. Len(code)
  BY <1>2, FramesTyped, LenProperties DEF PluginsNest, TypeOK
<1>4. Len(frames) = 1
  BY <1>1, <1>3 DEF FrameOK
<1>5. tscopes = UnitEnv
  BY <1>2, <1>4 DEF PluginsNest, Inside
<1>6. EnvAt(Len(code) + 1) = UnitEnv /\ cscopes = << >> /\ results = << >>
  BY <1>1, <1>5 DEF IInv, FirstPassAtEnd, PhaseShape
<1>7. /\ UnitEnv \in Seq(Seq(Local)) /\ Len(UnitEnv) = (IF unit.defn THEN 1 ELSE 0)
      /\ unit.defn => UnitEnv[1] = a /\ Front(UnitEnv) = << >>
  BY <1>2, UnitEnvFacts
<1>8. tscopes' = << >>
  BY <1>1, <1>5, <1>7 DEF UnitEnv
<1>9. /\ a \in Seq(Local) /\ a \in Seq(CompiledLocal)
      /\ \A j \in DOMAIN a : a[j].type # Void
      /\ ~ unit.defn => a = << >>
  <2>1. unit.args \in Seq([name : Names, type : Types \ {Void}])
    BY <1>2 DEF TypeOK
  <2>2. ~ unit.defn => unit.args = << >>
    BY DEF IInv, PhaseShape
  <2> QED
    BY <2>1, <2>2, ArgumentScopeFacts
<1> HIDE DEF a
<1>10. cscopes' = << a >> /\ << a >> \in Seq(Seq(CompiledLocal))
  BY <1>1, <1>6, <1>9
<1>11. TypeOK'
  BY <1>1, <1>2, <1>8, <1>10, EmptySeq DEF TypeOK
<1>12. CodeChained' /\ SitesKnown'
  BY <1>1 DEF IInv, CodeChained, SitesKnown, EnvAt, StkAt, UnitEnv
<1>13. UnitEnv' = UnitEnv /\ EnvAt(Len(code) + 1)' = EnvAt(Len(code) + 1)
  BY <1>1 DEF EnvAt, UnitEnv
<1>14. PhaseShape'
  <2>1. ~ unit'.defn => unit'.args = << >>
    BY <1>1 DEF IInv, PhaseShape
  <2> QED
    BY <1>1, <1>3, <1>6, <1>8, <1>13, <2>1 DEF PhaseShape
<1>15. EnvAt(pc)' = UnitEnv /\ StkAt(pc)' = << >>
  BY <1>1, <1>13 DEF EnvAt, StkAt
<1>16. ScopesMirror(EnvAt(pc))'
  <2>1. Len(cscopes') = 1 /\ cscopes'[1] = a
    BY <1>10
  <2>2. CASE ~ unit.defn
    <3>1. Len(UnitEnv) = 0 /\ DOMAIN UnitEnv = {}
      BY <1>7, <2>2, LenProperties
    <3> QED
      BY <1>1, <1>9, <1>15, <2>1, <2>2, <3>1 DEF ScopesMirror, Offset
  <2>3. CASE unit.defn
    <3>1. Len(UnitEnv) = 1 /\ DOMAIN UnitEnv = {1} /\ UnitEnv[1] = a
      BY <1>7, <2>3, LenProperties
    <3>2. Offset' = 0 /\ \A i \in {1} : i + 0 = 1
      BY <1>1, <2>3 DEF Offset
    <3>3. \A j \in DOMAIN a : Compiled(a[j]) = a[j]
      BY <1>9 DEF Compiled
    <3>4. \A i \in DOMAIN UnitEnv : i = 1 /\ i + Offset' = 1
      BY <3>1, <3>2
    <3> QED
      BY <1>1, <1>15, <2>1, <2>3, <3>1, <3>2, <3>3, <3>4 DEF ScopesMirror
  <2> QED
    BY <2>2, <2>3
<1>17. ResultsMirror(StkAt(pc))'
  BY <1>1, <1>6, <1>15, EmptySeq DEF ResultsMirror
<1>18. Len(cscopes') = OpenScopes'
  <2>1. \A ops : {k \in 1 .. pc' - 1 : code'[k].op \in ops} = {}
    BY <1>1
  <2>2. OpenScopes' = 1 + Cardinality({}) - Cardinality({})
    BY <2>1 DEF OpenScopes
  <2> QED
    BY <1>10, <2>2, FS_EmptySet
<1>19. FirstPassAtEnd' /\ SecondPassMirrors'
  BY <1>1, <1>16, <1>17, <1>18 DEF FirstPassAtEnd, SecondPassMirrors
<1> QED
  BY <1>11, <1>12, <1>14, <1>19 DEF IInv

-----------------------------------------------------------------------------
(* The second walk finds what the first one found.                          *)

\* A name is in the scopes of the second walk only where the first had it.
LEMMA MirroredEntries ==
  ASSUME TypeOK, NEW env \in Seq(Seq(Local)), ScopesMirror(env), NEW x,
         NEW q \in Entries(cscopes, x)
  PROVE  \E i \in DOMAIN env : \E j \in DOMAIN env[i] :
           q = <<i + Offset, j>> /\ env[i][j].name = x
<1>1. cscopes \in Seq(Seq(CompiledLocal)) /\ unit.defn \in BOOLEAN
  BY DEF TypeOK
<1>2. /\ DOMAIN cscopes = 1 .. Len(cscopes) /\ DOMAIN env = 1 .. Len(env)
      /\ Len(cscopes) \in Nat /\ Len(env) \in Nat /\ Len(cscopes) = Len(env) + Offset
  BY <1>1, LenProperties DEF ScopesMirror
<1>3. PICK a \in DOMAIN cscopes : \E b \in DOMAIN cscopes[a] : q = <<a, b>> /\ cscopes[a][b].name = x
  BY EntriesFacts
<1>4. PICK b \in DOMAIN cscopes[a] : q = <<a, b>> /\ cscopes[a][b].name = x
  BY <1>3
<1>5. Offset \in {0, 1} /\ (unit.defn <=> Offset = 0)
  BY <1>1 DEF Offset
<1>6. a > Offset
  <2>1. CASE unit.defn
    BY <1>2, <1>5, <2>1
  <2>2. CASE ~ unit.defn
    <3>1. cscopes[1] = << >>
      BY <2>2 DEF ScopesMirror
    <3>2. DOMAIN << >> = {}
      OBVIOUS
    <3>3. a # 1
      BY <1>4, <3>1, <3>2
    <3> QED
      BY <1>2, <1>5, <3>3
  <2> QED
    BY <2>1, <2>2
<1>7. PICK i \in DOMAIN env : a = i + Offset
  <2>1. a - Offset \in 1 .. Len(env) /\ a = (a - Offset) + Offset
    BY <1>2, <1>5, <1>6
  <2> QED
    BY <1>2, <2>1
<1>8. /\ Len(cscopes[a]) = Len(env[i])
      /\ \A j \in DOMAIN env[i] : cscopes[a][j].name = env[i][j].name
  BY <1>7 DEF ScopesMirror
<1>9. DOMAIN cscopes[a] = DOMAIN env[i]
  <2>1. cscopes[a] \in Seq(CompiledLocal) /\ env[i] \in Seq(Local)
    BY <1>1, <1>2, ElementOfSeq
  <2> QED
    BY <1>8, <2>1, LenProperties
<1> QED
  BY <1>4, <1>7, <1>8, <1>9

\* A unit that reads only values reads, in the second walk, what type checking
\* resolved; and it writes the local that type checking resolved.
LEMMA LookupsAgree ==
  ASSUME TypeOK, NEW env \in Seq(Seq(Local)), SitesPositive(env), ScopesMirror(env),
         ReadsOnlyValues, NEW x, NEW r, r = TypeCheckAccess(env, x),
         r.at # Unresolved, r.at # FunctionRef, r.type # Void
  PROVE  /\ CompileAccess(cscopes, x) = r
         /\ r.at \in Nat
         /\ r.at > 0 => StoreTarget(cscopes, x) = r.at
<1> DEFINE found == Entries(env, x)
           live  == ValuedEntries(cscopes, x)
<1>1. /\ cscopes \in Seq(Seq(CompiledLocal)) /\ Offset \in {0, 1}
      /\ DOMAIN cscopes = 1 .. Len(cscopes) /\ DOMAIN env = 1 .. Len(env)
      /\ Len(cscopes) \in Nat /\ Len(env) \in Nat /\ Len(cscopes) = Len(env) + Offset
  BY LenProperties DEF TypeOK, Offset, ScopesMirror
<1>2. ASSUME NEW q \in live
      PROVE  \E p \in found : q = <<p[1] + Offset, p[2]>>
  <2>1. q \in Entries(cscopes, x)
    BY DEF ValuedEntries
  <2>2. PICK i \in DOMAIN env : \E j \in DOMAIN env[i] :
               q = <<i + Offset, j>> /\ env[i][j].name = x
    BY <2>1, MirroredEntries
  <2>3. PICK j \in DOMAIN env[i] : q = <<i + Offset, j>> /\ env[i][j].name = x
    BY <2>2
  <2>4. <<i, j>> \in found
    BY <2>3, EntriesFacts
  <2> QED
    BY <2>3, <2>4
<1>3. CASE found # {}
  <2> DEFINE p == Innermost(found)
  <2>1. PositionsOf(env, found)
    BY EntriesFacts DEF PositionsOf
  <2>2. LastPosition(p, found)
    BY <1>3, <2>1, InnermostFacts
  <2> HIDE DEF p
  <2>3. PICK i \in DOMAIN env : \E j \in DOMAIN env[i] : p = <<i, j>> /\ env[i][j].name = x
    BY <2>2, EntriesFacts DEF LastPosition
  <2>4. PICK j \in DOMAIN env[i] : p = <<i, j>> /\ env[i][j].name = x
    BY <2>3
  <2> DEFINE e == env[i][j]
  <2>5. e \in Local /\ e.at >= 1
    <3>1. env[i] \in Seq(Local)
      BY <1>1, ElementOfSeq
    <3>2. env[i][j] \in Local
      BY <3>1, ElementOfSeq, LenProperties
    <3> QED
      BY <3>2 DEF SitesPositive
  <2>6. r = [type |-> e.type, at |-> e.at]
    <3>1. Entry(env, p) = e
      BY <2>4 DEF Entry
    <3> QED
      BY <1>3, <3>1 DEF TypeCheckAccess, p
  <2> HIDE DEF e
  <2>7. e.type # Void
    BY <2>6
  <2>8. i + Offset \in DOMAIN cscopes /\ j \in DOMAIN cscopes[i + Offset]
        /\ cscopes[i + Offset][j] = e /\ e.name = x
    <3>1. i + Offset \in DOMAIN cscopes
      BY SMTT(30), <1>1
    <3>2. Len(cscopes[i + Offset]) = Len(env[i]) /\ cscopes[i + Offset][j] = Compiled(env[i][j])
      BY DEF ScopesMirror
    <3>3. cscopes[i + Offset] \in Seq(CompiledLocal) /\ env[i] \in Seq(Local)
      BY <1>1, <3>1, ElementOfSeq
    <3>4. j \in DOMAIN cscopes[i + Offset]
      BY <3>2, <3>3, LenProperties
    <3>5. Compiled(env[i][j]) = e
      BY <2>7 DEF Compiled, e
    <3> QED
      BY <2>4, <3>1, <3>2, <3>4, <3>5 DEF e
  <2>9. <<i + Offset, j>> \in live
    <3>1. <<i + Offset, j>> \in Entries(cscopes, x)
      BY <2>8, EntriesFacts
    <3>2. Entry(cscopes, <<i + Offset, j>>) = e
      BY <2>8 DEF Entry
    <3>3. e.at # NoValue
      BY <2>5 DEF NoValue
    <3> QED
      BY <3>1, <3>2, <3>3 DEF ValuedEntries
  <2>10. PositionsOf(cscopes, live)
    BY EntriesFacts DEF ValuedEntries, PositionsOf
  <2>11. LastPosition(Innermost(live), live)
    BY <1>1, <2>9, <2>10, InnermostFacts
  <2>12. Innermost(live) = <<i + Offset, j>>
    <3>1. PICK q \in found : Innermost(live) = <<q[1] + Offset, q[2]>>
      BY <1>2, <2>11 DEF LastPosition
    <3>2. PICK a \in DOMAIN env : \E b \in DOMAIN env[a] : q = <<a, b>>
      BY <2>1 DEF PositionsOf
    <3>3. PICK b \in DOMAIN env[a] : q = <<a, b>>
      BY <3>2
    <3>4. a \in Nat /\ b \in Nat /\ i \in Nat /\ j \in Nat
      <4>1. env[a] \in Seq(Local) /\ env[i] \in Seq(Local)
        BY <1>1, ElementOfSeq
      <4> QED
        BY SMTT(30), <1>1, <4>1, LenProperties
    <3>5. a < i \/ (a = i /\ b <= j)
      BY <2>2, <2>4, <3>3 DEF LastPosition
    <3>6. Innermost(live) = <<a + Offset, b>>
      BY <3>1, <3>3
    <3>7. i + Offset < a + Offset \/ (i + Offset = a + Offset /\ j <= b)
      BY SMTT(30), <2>9, <2>11, <3>6 DEF LastPosition
    <3> QED
      BY SMTT(30), <1>1, <3>4, <3>5, <3>6, <3>7
  <2>13. Entry(cscopes, Innermost(live)) = e
    BY <2>8, <2>12 DEF Entry
  <2>14. CompileAccess(cscopes, x) = r
    BY <2>6, <2>9, <2>13 DEF CompileAccess
  <2> QED
    BY <2>5, <2>6, <2>14 DEF StoreTarget, ModuleVariable, Local
<1>4. CASE found = {}
  <2>1. live = {}
    BY <1>2, <1>4
  <2>2. x \in DOMAIN Symbols /\ Symbols[x].kind = "variable"
        /\ r = [type |-> Symbols[x].type, at |-> ModuleVariable]
    <3>1. x \in DOMAIN Symbols
      BY <1>4 DEF TypeCheckAccess
    <3>2. Symbols[x].kind = "variable"
      BY <1>4, <3>1 DEF TypeCheckAccess
    <3> QED
      BY <1>4, <3>1, <3>2 DEF TypeCheckAccess
  <2> QED
    BY <2>1, <2>2 DEF CompileAccess, ModuleVariable
<1> QED
  BY <1>3, <1>4

-----------------------------------------------------------------------------
(* The second walk preserves the invariant.                                 *)

\* What the invariant says at instruction pc.
LEMMA AtInstruction ==
  ASSUME IInv, phase = "compile", pc <= Len(code)
  PROVE  /\ TypeOK /\ pc \in Nat /\ pc \in DOMAIN code /\ pc >= 1
         /\ I \in Instruction /\ InstrOK(I)
         /\ ScopesMirror(I.env) /\ ResultsMirror(I.stk) /\ SitesPositive(I.env)
         /\ I.env \in Seq(Seq(Local)) /\ I.stk \in Seq(Types)
         /\ results \in Seq(Value) /\ cscopes \in Seq(Seq(CompiledLocal))
         /\ Len(I.stk) \in Nat /\ Len(results) = Len(I.stk)
         /\ EnvAt(pc + 1) = EnvAfter(I) /\ StkAt(pc + 1) = StkAfter(I)
         /\ Len(cscopes) = OpenScopes /\ Len(cscopes) = Len(I.env) + Offset
<1>1. /\ TypeOK /\ CodeChained /\ SitesKnown /\ pc \in 1 .. Len(code) + 1
      /\ ScopesMirror(EnvAt(pc)) /\ ResultsMirror(StkAt(pc)) /\ Len(cscopes) = OpenScopes
  BY DEF IInv, PhaseShape, SecondPassMirrors
<1>2. code \in Seq(Instruction) /\ Len(code) \in Nat /\ DOMAIN code = 1 .. Len(code)
  BY <1>1, LenProperties DEF TypeOK
<1>3. pc \in 1 .. Len(code) /\ pc \in Nat /\ pc >= 1
  BY <1>1, <1>2
<1>4. I \in Instruction
  BY <1>2, <1>3, ElementOfSeq DEF I
<1>5. InstrOK(I) /\ I.env = EnvAt(pc) /\ I.stk = StkAt(pc)
  BY <1>1, <1>2, <1>3 DEF CodeChained, I
<1>6. SitesPositive(I.env)
  BY <1>1, <1>5 DEF SitesKnown
<1>7. EnvAt(pc + 1) = EnvAfter(I) /\ StkAt(pc + 1) = StkAfter(I)
  BY <1>3 DEF EnvAt, StkAt, I
<1>8. I.env \in Seq(Seq(Local)) /\ I.stk \in Seq(Types)
  BY <1>4 DEF Instruction
<1>9. Len(I.stk) \in Nat
  BY <1>8, LenProperties
<1> QED
  BY <1>1, <1>2, <1>3, <1>4, <1>5, <1>6, <1>7, <1>8, <1>9 DEF ScopesMirror, ResultsMirror, TypeOK

\* Passing an instruction changes the count of open scopes as it should.
LEMMA OpenScopesAfter ==
  ASSUME TypeOK, pc \in DOMAIN code, pc >= 1, pc' = pc + 1, code' = code
  PROVE  OpenScopes' = IF I.op = "enter" THEN OpenScopes + 1
                       ELSE IF I.op \in {"endlet", "endfor"} THEN OpenScopes - 1
                       ELSE OpenScopes
<1> DEFINE Before(ops) == {k \in 1 .. pc - 1 : code[k].op \in ops}
           E == Before({"enter"})
           L == Before({"endlet", "endfor"})
<1>1. pc \in Nat
  BY DEF TypeOK
<1>2. IsFiniteSet(E) /\ IsFiniteSet(L) /\ Cardinality(E) \in Nat /\ Cardinality(L) \in Nat
  <2>1. IsFiniteSet(1 .. pc - 1)
    BY <1>1, FS_Interval
  <2>2. E \in SUBSET (1 .. pc - 1) /\ L \in SUBSET (1 .. pc - 1)
    OBVIOUS
  <2> HIDE DEF E, L
  <2>3. IsFiniteSet(E) /\ IsFiniteSet(L)
    BY <2>1, <2>2, FS_Subset
  <2> QED
    BY <2>3, FS_CardinalityType
<1>3. OpenScopes = 1 + Cardinality(E) - Cardinality(L)
  BY DEF OpenScopes
<1>4. /\ E' = IF I.op = "enter" THEN E \union {pc} ELSE E
      /\ L' = IF I.op \in {"endlet", "endfor"} THEN L \union {pc} ELSE L
  <2>1. \A k : k \in 1 .. pc' - 1 <=> k \in 1 .. pc - 1 \/ k = pc
    BY <1>1
  <2>2. \A k : k \in E' <=> k \in E \/ (k = pc /\ I.op = "enter")
    BY <2>1 DEF I
  <2>3. \A k : k \in L' <=> k \in L \/ (k = pc /\ I.op \in {"endlet", "endfor"})
    BY <2>1 DEF I
  <2> HIDE DEF E, L
  <2> QED
    BY <2>2, <2>3
<1>5. pc \notin E /\ pc \notin L
  BY <1>1
<1>6. OpenScopes' = 1 + Cardinality(E') - Cardinality(L')
  BY DEF OpenScopes
<1> HIDE DEF E, L
<1>7. Cardinality(E') = IF I.op = "enter" THEN Cardinality(E) + 1 ELSE Cardinality(E)
  BY <1>2, <1>4, <1>5, FS_AddElement
<1>8. Cardinality(L') = IF I.op \in {"endlet", "endfor"} THEN Cardinality(L) + 1 ELSE Cardinality(L)
  BY <1>2, <1>4, <1>5, FS_AddElement
<1> QED
  BY <1>2, <1>3, <1>6, <1>7, <1>8

\* The invariant, for a step that passes an instruction of the second walk.
LEMMA CompileGoesOn ==
  ASSUME IInv, phase = "compile", pc <= Len(code), phase' = phase, unit' = unit,
         UNCHANGED checkVars, pc' = pc + 1,
         cscopes' \in Seq(Seq(CompiledLocal)), results' \in Seq(Value),
         NEW env, env = EnvAfter(I), ScopesMirror(env)',
         NEW stk, stk = StkAfter(I), ResultsMirror(stk)',
         Len(cscopes') = IF I.op = "enter" THEN Len(cscopes) + 1
                         ELSE IF I.op \in {"endlet", "endfor"} THEN Len(cscopes) - 1
                         ELSE Len(cscopes)
  PROVE  IInv'
<1>1. /\ TypeOK /\ pc \in Nat /\ pc \in DOMAIN code /\ pc >= 1
      /\ EnvAt(pc + 1) = env /\ StkAt(pc + 1) = stk /\ Len(cscopes) = OpenScopes
  BY AtInstruction
<1>2. TypeOK'
  BY <1>1 DEF TypeOK, checkVars
<1>3. code' = code /\ unit' = unit /\ UnitEnv' = UnitEnv
  BY DEF checkVars, UnitEnv
<1>4. EnvAt(pc)' = env /\ StkAt(pc)' = stk
  BY <1>1, <1>3 DEF EnvAt, StkAt
<1>5. EnvAt(Len(code) + 1)' = EnvAt(Len(code) + 1)
  BY <1>3 DEF EnvAt
<1>6. PhaseShape'
  <2>1. Len(code) \in Nat
    BY <1>1, LenProperties DEF TypeOK
  <2>2. pc' \in 1 .. Len(code') + 1
    BY <1>1, <1>3, <2>1
  <2> QED
    BY <1>3, <1>5, <2>2 DEF IInv, PhaseShape, checkVars
<1>7. CodeChained' /\ SitesKnown'
  BY <1>3 DEF IInv, CodeChained, SitesKnown, EnvAt, StkAt, UnitEnv
<1>8. Len(cscopes') = OpenScopes'
  BY <1>1, <1>3, OpenScopesAfter
<1>9. ScopesMirror(EnvAt(pc))' /\ ResultsMirror(StkAt(pc))'
  <2>1. ScopesMirror(EnvAt(pc))'
    BY <1>4 DEF ScopesMirror
  <2>2. ResultsMirror(StkAt(pc))'
    BY <1>4 DEF ResultsMirror
  <2> QED
    BY <2>1, <2>2
<1>10. SecondPassMirrors' /\ FirstPassAtEnd'
  BY <1>8, <1>9 DEF SecondPassMirrors, FirstPassAtEnd
<1> QED
  BY <1>2, <1>6, <1>7, <1>10 DEF IInv

\* The scopes are left alone.
LEMMA ScopesKept ==
  ASSUME NEW env, ScopesMirror(env), cscopes' = cscopes, unit' = unit, code' = code
  PROVE  ScopesMirror(env)'
BY DEF ScopesMirror, Offset, ReadsOnlyValues

\* A result takes the place of n others.
LEMMA ResultReturned ==
  ASSUME TypeOK, NEW stk \in Seq(Types), ResultsMirror(stk), code' = code,
         NEW n \in Nat, n <= Len(stk), NEW t \in Types, NEW r \in Value,
         ReadsOnlyValues => r = Result(t, t # Void),
         results' = Append(DropLast(results, n), r),
         NEW after, after = Append(DropLast(stk, n), t)
  PROVE  results' \in Seq(Value) /\ ResultsMirror(after)'
<1>1. results \in Seq(Value) /\ Len(results) = Len(stk) /\ Len(stk) \in Nat
  BY LenProperties DEF TypeOK, ResultsMirror
<1>2. PICK m \in Nat : m = Len(stk) - n /\ m <= Len(stk)
  <2>1. Len(stk) - n \in Nat /\ Len(stk) - n <= Len(stk)
    BY <1>1
  <2> QED
    BY <2>1
<1>8. /\ results' \in Seq(Value) /\ Len(results') = m + 1 /\ results'[m + 1] = r
      /\ \A i \in 1 .. m : results'[i] = results[i]
  BY <1>1, <1>2, ReplaceSome DEF DropLast
<1>9. /\ after \in Seq(Types) /\ Len(after) = m + 1 /\ after[m + 1] = t
      /\ \A i \in 1 .. m : after[i] = stk[i]
  BY <1>1, <1>2, ReplaceSome DEF DropLast
<1>10. DOMAIN after = 1 .. m + 1 /\ DOMAIN stk = 1 .. Len(stk)
  BY <1>9, LenProperties
<1>11. ASSUME ReadsOnlyValues, NEW k \in 1 .. m + 1
       PROVE  results'[k] = Result(after[k], after[k] # Void)
  <2>1. CASE k = m + 1
    BY <1>8, <1>9, <1>11, <2>1
  <2>2. CASE k \in 1 .. m
    <3>1. k \in DOMAIN stk
      BY <1>1, <1>2, <1>10, <2>2
    <3>2. results[k] = Result(stk[k], stk[k] # Void)
      BY <1>11, <3>1 DEF ResultsMirror
    <3>3. results'[k] = results[k] /\ after[k] = stk[k]
      BY <1>8, <1>9, <2>2
    <3> QED
      BY <3>2, <3>3
  <2>3. \A i \in 1 .. m + 1 : i = m + 1 \/ i \in 1 .. m
    OBVIOUS
  <2> QED
    BY <1>11, <2>1, <2>2, <2>3
<1>12. ReadsOnlyValues' <=> ReadsOnlyValues
  BY DEF ReadsOnlyValues
<1>13. Len(results') = Len(after)
  BY <1>8, <1>9
<1>14. ReadsOnlyValues' => \A k \in DOMAIN after : results'[k] = Result(after[k], after[k] # Void)
  BY <1>10, <1>11, <1>12
<1> QED
  BY <1>8, <1>13, <1>14 DEF ResultsMirror

\* The last result is used up.
LEMMA ResultPopped ==
  ASSUME TypeOK, NEW stk \in Seq(Types), stk # << >>, ResultsMirror(stk), code' = code,
         results' = Front(results),
         NEW after, after = Front(stk)
  PROVE  results' \in Seq(Value) /\ ResultsMirror(after)'
<1>1. results \in Seq(Value) /\ Len(results) = Len(stk) /\ Len(stk) \in Nat
  BY LenProperties DEF TypeOK, ResultsMirror
<1>2. results # << >>
  BY <1>1, EmptySeq
<1>3. /\ results' \in Seq(Value) /\ Len(results') = Len(stk) - 1
      /\ \A i \in 1 .. Len(stk) - 1 : results'[i] = results[i]
  BY <1>1, <1>2, FrontFacts
<1>4. /\ after \in Seq(Types) /\ Len(after) = Len(stk) - 1
      /\ \A i \in 1 .. Len(stk) - 1 : after[i] = stk[i]
  BY FrontFacts
<1>5. DOMAIN after = 1 .. Len(stk) - 1 /\ DOMAIN stk = 1 .. Len(stk)
  BY <1>4, LenProperties
<1>6. ReadsOnlyValues' <=> ReadsOnlyValues
  BY DEF ReadsOnlyValues
<1> QED
  BY <1>1, <1>3, <1>4, <1>5, <1>6 DEF ResultsMirror

\* The results a node finds are those of the nodes below it.
LEMMA ResultsFound ==
  ASSUME TypeOK, NEW stk \in Seq(Types), ResultsMirror(stk), NEW k \in Nat, k < Len(stk)
  PROVE  /\ R(k) \in Value
         /\ ReadsOnlyValues => R(k) = Result(stk[Len(stk) - k], stk[Len(stk) - k] # Void)
<1>1. results \in Seq(Value) /\ Len(results) = Len(stk) /\ Len(stk) \in Nat
  BY LenProperties DEF TypeOK, ResultsMirror
<1>2. Len(stk) - k \in 1 .. Len(stk) /\ DOMAIN stk = 1 .. Len(stk)
  BY <1>1, LenProperties
<1> QED
  BY <1>1, <1>2, ElementOfSeq DEF ResultsMirror, R

\* A scope is entered.
LEMMA ScopeEntered ==
  ASSUME TypeOK, NEW env \in Seq(Seq(Local)), ScopesMirror(env), unit' = unit, code' = code,
         cscopes' = Append(cscopes, << >>),
         NEW after, after = Append(env, << >>)
  PROVE  /\ cscopes' \in Seq(Seq(CompiledLocal)) /\ Len(cscopes') = Len(cscopes) + 1
         /\ ScopesMirror(after)'
<1>1. /\ cscopes \in Seq(Seq(CompiledLocal)) /\ Len(cscopes) = Len(env) + Offset
      /\ Len(env) \in Nat /\ Offset \in {0, 1} /\ (unit.defn <=> Offset = 0)
      /\ DOMAIN env = 1 .. Len(env)
  BY LenProperties DEF TypeOK, ScopesMirror, Offset
<1>2. PICK e1 \in Seq(CompiledLocal) : e1 = << >>
  BY EmptySeq
<1>3. /\ cscopes' \in Seq(Seq(CompiledLocal)) /\ Len(cscopes') = Len(cscopes) + 1
      /\ \A i \in 1 .. Len(cscopes) : cscopes'[i] = cscopes[i]
      /\ cscopes'[Len(cscopes) + 1] = << >>
  BY <1>1, <1>2, AppendProperties
<1>4. PICK e2 \in Seq(Local) : e2 = << >>
  BY EmptySeq
<1>5. /\ after \in Seq(Seq(Local)) /\ Len(after) = Len(env) + 1
      /\ \A i \in 1 .. Len(env) : after[i] = env[i]
      /\ after[Len(env) + 1] = << >>
  BY <1>4, AppendProperties
<1>6. DOMAIN after = 1 .. Len(env) + 1
  BY <1>5, LenProperties
<1>7. Offset' = Offset /\ (ReadsOnlyValues' <=> ReadsOnlyValues)
  BY DEF Offset, ReadsOnlyValues
<1>8. ~ unit'.defn => cscopes'[1] = << >>
  BY <1>1, <1>3 DEF ScopesMirror
<1>9. ASSUME NEW i \in 1 .. Len(env) + 1
      PROVE  /\ Len(cscopes'[i + Offset]) = Len(after[i])
             /\ \A j \in DOMAIN after[i] :
                  /\ cscopes'[i + Offset][j].name = after[i][j].name
                  /\ ReadsOnlyValues => cscopes'[i + Offset][j] = Compiled(after[i][j])
  <2>1. CASE i = Len(env) + 1
    <3>1. i + Offset = Len(cscopes) + 1
      BY <1>1, <2>1
    <3>2. cscopes'[i + Offset] = e1 /\ after[i] = e2
      BY <1>2, <1>3, <1>4, <1>5, <2>1, <3>1
    <3>3. Len(e1) = 0 /\ Len(e2) = 0 /\ DOMAIN e2 = {}
      BY <1>2, <1>4, EmptySeq, LenProperties
    <3> QED
      BY <3>2, <3>3
  <2>2. CASE i \in 1 .. Len(env)
    <3>1. i + Offset \in 1 .. Len(cscopes) /\ i \in DOMAIN env
      BY <1>1, <2>2
    <3>2. cscopes'[i + Offset] = cscopes[i + Offset] /\ after[i] = env[i]
      BY <1>3, <1>5, <2>2, <3>1
    <3> QED
      BY <3>1, <3>2 DEF ScopesMirror
  <2>3. i = Len(env) + 1 \/ i \in 1 .. Len(env)
    BY <1>1
  <2> QED
    BY <2>1, <2>2, <2>3
<1>10. Len(cscopes') = Len(after) + Offset
  BY <1>1, <1>3, <1>5
<1> QED
  BY <1>3, <1>6, <1>7, <1>8, <1>9, <1>10 DEF ScopesMirror

\* A scope is left.
LEMMA ScopeLeft ==
  ASSUME TypeOK, NEW env \in Seq(Seq(Local)), env # << >>, ScopesMirror(env),
         unit' = unit, code' = code, cscopes' = Front(cscopes),
         NEW after, after = Front(env)
  PROVE  /\ cscopes' \in Seq(Seq(CompiledLocal)) /\ Len(cscopes') = Len(cscopes) - 1
         /\ ScopesMirror(after)'
<1>1. /\ cscopes \in Seq(Seq(CompiledLocal)) /\ Len(cscopes) = Len(env) + Offset
      /\ Len(env) \in Nat /\ Len(env) >= 1
      /\ Offset \in {0, 1} /\ (unit.defn <=> Offset = 0)
      /\ DOMAIN env = 1 .. Len(env)
  BY LenProperties, FrontFacts DEF TypeOK, ScopesMirror, Offset
<1>2. cscopes # << >>
  BY <1>1, EmptySeq
<1>3. /\ cscopes' \in Seq(Seq(CompiledLocal)) /\ Len(cscopes') = Len(cscopes) - 1
      /\ \A i \in 1 .. Len(cscopes) - 1 : cscopes'[i] = cscopes[i]
  BY <1>1, <1>2, FrontFacts
<1>4. /\ after \in Seq(Seq(Local)) /\ Len(after) = Len(env) - 1
      /\ \A i \in 1 .. Len(env) - 1 : after[i] = env[i]
  BY FrontFacts
<1>5. DOMAIN after = 1 .. Len(env) - 1
  BY <1>4, LenProperties
<1>6. Offset' = Offset /\ (ReadsOnlyValues' <=> ReadsOnlyValues)
  BY DEF Offset, ReadsOnlyValues
<1>7. ~ unit'.defn => cscopes'[1] = << >>
  BY <1>1, <1>3 DEF ScopesMirror
<1>8. ASSUME NEW i \in 1 .. Len(env) - 1
      PROVE  /\ Len(cscopes'[i + Offset]) = Len(after[i])
             /\ \A j \in DOMAIN after[i] :
                  /\ cscopes'[i + Offset][j].name = after[i][j].name
                  /\ ReadsOnlyValues => cscopes'[i + Offset][j] = Compiled(after[i][j])
  <2>1. i + Offset \in 1 .. Len(cscopes) - 1 /\ i \in DOMAIN env
    BY <1>1
  <2>2. cscopes'[i + Offset] = cscopes[i + Offset] /\ after[i] = env[i]
    BY <1>3, <1>4, <2>1
  <2> QED
    BY <2>1, <2>2 DEF ScopesMirror
<1>9. Len(cscopes') = Len(after) + Offset
  BY <1>1, <1>3, <1>4
<1> QED
  BY ZenonT(30), <1>3, <1>5, <1>6, <1>7, <1>8, <1>9 DEF ScopesMirror

\* A local is entered in the innermost scope.
LEMMA LocalBound ==
  ASSUME TypeOK, NEW env \in Seq(Seq(Local)), env # << >>, ScopesMirror(env),
         unit' = unit, code' = code, NEW e \in Local, NEW local \in CompiledLocal,
         local.name = e.name, ReadsOnlyValues => local = Compiled(e),
         cscopes' = BoundIn(cscopes, local),
         NEW after, after = BoundIn(env, e)
  PROVE  /\ cscopes' \in Seq(Seq(CompiledLocal)) /\ Len(cscopes') = Len(cscopes)
         /\ ScopesMirror(after)'
<1>1. /\ cscopes \in Seq(Seq(CompiledLocal)) /\ Len(cscopes) = Len(env) + Offset
      /\ Len(env) \in Nat /\ Len(env) >= 1 /\ env[Len(env)] \in Seq(Local)
      /\ Offset \in {0, 1} /\ (unit.defn <=> Offset = 0)
      /\ DOMAIN env = 1 .. Len(env)
  BY LenProperties, FrontFacts DEF TypeOK, ScopesMirror, Offset
<1>2. cscopes # << >>
  BY <1>1, EmptySeq
<1>3. PICK old1 \in Seq(CompiledLocal) : old1 = cscopes[Len(cscopes)]
  BY <1>1, <1>2, FrontFacts
<1>4. PICK old2 \in Seq(Local) : old2 = env[Len(env)]
  BY <1>1
<1>5. PICK top1 \in Seq(CompiledLocal) :
        /\ top1 = Append(old1, local) /\ Len(top1) = Len(old1) + 1
        /\ \A j \in 1 .. Len(old1) : top1[j] = old1[j]
        /\ top1[Len(old1) + 1] = local
  BY ZenonT(30), AppendProperties
<1>6. PICK top2 \in Seq(Local) :
        /\ top2 = Append(old2, e) /\ Len(top2) = Len(old2) + 1
        /\ \A j \in 1 .. Len(old2) : top2[j] = old2[j]
        /\ top2[Len(old2) + 1] = e
  BY AppendProperties
<1>7. /\ cscopes' \in Seq(Seq(CompiledLocal)) /\ Len(cscopes') = Len(cscopes)
      /\ \A i \in 1 .. Len(cscopes) - 1 : cscopes'[i] = cscopes[i]
      /\ cscopes'[Len(cscopes)] = top1
  <2>1. PICK t : t = BoundIn(cscopes, local)
    OBVIOUS
  <2>2. /\ t \in Seq(Seq(CompiledLocal)) /\ Len(t) = Len(cscopes)
        /\ \A i \in 1 .. Len(cscopes) - 1 : t[i] = cscopes[i]
        /\ t[Len(cscopes)] = Append(cscopes[Len(cscopes)], local)
    <3>1. cscopes \in Seq(Seq(CompiledLocal))
      BY <1>1
    <3> QED
      BY <1>2, <2>1, <3>1, BoundInTop
  <2> QED
    BY <1>3, <1>5, <2>1, <2>2
<1>8. /\ after \in Seq(Seq(Local)) /\ Len(after) = Len(env)
      /\ \A i \in 1 .. Len(env) - 1 : after[i] = env[i]
      /\ after[Len(env)] = top2
  BY <1>4, <1>6, BoundInTop
<1>9. DOMAIN after = 1 .. Len(env)
  BY <1>8, LenProperties
<1>10. Offset' = Offset /\ (ReadsOnlyValues' <=> ReadsOnlyValues)
  BY DEF Offset, ReadsOnlyValues
<1>11. ~ unit'.defn => cscopes'[1] = << >>
  <2>1. ASSUME ~ unit.defn PROVE cscopes'[1] = cscopes[1]
    <3>1. 1 \in 1 .. Len(cscopes) - 1
      BY <1>1, <2>1
    <3> QED
      BY <1>7, <3>1
  <2> QED
    BY <2>1 DEF ScopesMirror
<1>12. /\ Len(old1) = Len(old2)
       /\ \A j \in DOMAIN old2 : /\ old1[j].name = old2[j].name
                                 /\ ReadsOnlyValues => old1[j] = Compiled(old2[j])
  <2>1. Len(env) \in DOMAIN env /\ Len(env) + Offset = Len(cscopes)
    BY <1>1
  <2> QED
    BY <1>3, <1>4, <2>1 DEF ScopesMirror
<1>13. ASSUME NEW j \in DOMAIN top2
       PROVE  /\ top1[j].name = top2[j].name
              /\ ReadsOnlyValues => top1[j] = Compiled(top2[j])
  <2>1. /\ Len(old2) \in Nat /\ DOMAIN old2 = 1 .. Len(old2)
        /\ DOMAIN top2 = 1 .. Len(top2)
    BY LenProperties
  <2>2. j = Len(old2) + 1 \/ j \in 1 .. Len(old2)
    BY <1>6, <2>1, TopOrBelow
  <2>3. CASE j = Len(old2) + 1
    BY <1>5, <1>6, <1>12, <2>3
  <2>4. CASE j \in 1 .. Len(old2)
    <3>1. top1[j] = old1[j] /\ top2[j] = old2[j] /\ j \in DOMAIN old2
      BY <1>5, <1>6, <1>12, <2>1, <2>4
    <3> QED
      BY <1>12, <3>1
  <2> QED
    BY <2>2, <2>3, <2>4
<1>14. ASSUME NEW i \in 1 .. Len(env)
       PROVE  /\ Len(cscopes'[i + Offset]) = Len(after[i])
              /\ \A j \in DOMAIN after[i] :
                   /\ cscopes'[i + Offset][j].name = after[i][j].name
                   /\ ReadsOnlyValues => cscopes'[i + Offset][j] = Compiled(after[i][j])
  <2>1. i = Len(env) \/ i \in 1 .. Len(env) - 1
    BY <1>1, TopOrBelow
  <2>2. CASE i = Len(env)
    <3>1. i + Offset = Len(cscopes)
      BY <1>1, <2>2
    <3>2. cscopes'[i + Offset] = top1 /\ after[i] = top2
      BY <1>7, <1>8, <2>2, <3>1
    <3>3. Len(top1) = Len(top2)
      BY <1>5, <1>6, <1>12
    <3> QED
      BY <1>13, <3>2, <3>3
  <2>3. CASE i \in 1 .. Len(env) - 1
    <3>1. i + Offset \in 1 .. Len(cscopes) - 1 /\ i \in DOMAIN env
      BY <1>1, <2>3
    <3>2. cscopes'[i + Offset] = cscopes[i + Offset] /\ after[i] = env[i]
      BY <1>7, <1>8, <2>3, <3>1
    <3> QED
      BY <3>1, <3>2 DEF ScopesMirror
  <2> QED
    BY <2>1, <2>2, <2>3
<1>15. Len(cscopes') = Len(after) + Offset
  BY <1>1, <1>7, <1>8
<1> QED
  BY SMTT(30), <1>7, <1>9, <1>10, <1>11, <1>14, <1>15 DEF ScopesMirror

\* What a lookup of the second walk gives, if anything.
LEMMA CompileAccessType ==
  ASSUME NEW scopes \in Seq(Seq(CompiledLocal)), NEW x
  PROVE  CompileAccess(scopes, x) \in [type : Types \union {NoType}, at : Int]
<1> DEFINE found == ValuedEntries(scopes, x)
<1>1. CASE found # {}
  <2>1. PositionsOf(scopes, found)
    BY EntriesFacts DEF ValuedEntries, PositionsOf
  <2>2. Innermost(found) \in found
    BY <1>1, <2>1, InnermostFacts DEF LastPosition
  <2>3. PICK i \in DOMAIN scopes : \E j \in DOMAIN scopes[i] : Innermost(found) = <<i, j>>
    BY <2>1, <2>2 DEF PositionsOf
  <2>4. PICK j \in DOMAIN scopes[i] : Innermost(found) = <<i, j>>
    BY <2>3
  <2>5. scopes[i] \in Seq(CompiledLocal)
    BY <2>3, ElementOfSeq, LenProperties
  <2>6. scopes[i][j] \in CompiledLocal
    BY <2>4, <2>5, ElementOfSeq, LenProperties
  <2> HIDE DEF found
  <2>7. Innermost(found)[1] = i /\ Innermost(found)[2] = j
    BY <2>4
  <2>8. Entry(scopes, Innermost(found)) \in CompiledLocal
    BY <2>6, <2>7 DEF Entry
  <2>9. CompileAccess(scopes, x) =
          [type |-> Entry(scopes, Innermost(found)).type, at |-> Entry(scopes, Innermost(found)).at]
    BY <1>1 DEF CompileAccess, found
  <2> QED
    BY <2>8, <2>9 DEF CompiledLocal
<1>2. CASE found = {}
  <2>1. x \in DOMAIN Symbols => Symbols[x].type \in Types
    BY SymbolsAssumption
  <2> QED
    BY <1>2, <2>1 DEF CompileAccess, ModuleVariable, NoValue
<1> QED
  BY <1>1, <1>2

\* A node of the second walk yields a result of its type, and may leave a scope.
LEMMA NodeYields ==
  ASSUME IInv, phase = "compile", pc <= Len(code), NEW r \in Value, Yield(I.n, r),
         I.op \in {"const", "ref", "endlet", "endfor", "if", "set", "call"},
         cscopes' = IF I.op \in {"endlet", "endfor"} THEN Front(cscopes) ELSE cscopes,
         ReadsOnlyValues => r = Result(I.type, I.type # Void)
  PROVE  IInv'
<1>1. /\ TypeOK /\ I \in Instruction /\ InstrOK(I)
      /\ ScopesMirror(I.env) /\ ResultsMirror(I.stk)
      /\ I.env \in Seq(Seq(Local)) /\ I.stk \in Seq(Types)
      /\ cscopes \in Seq(Seq(CompiledLocal))
  BY AtInstruction
<1>2. /\ results' = Append(DropLast(results, I.n), r) /\ pc' = pc + 1
      /\ phase' = phase /\ unit' = unit /\ UNCHANGED checkVars /\ code' = code
  BY DEF Yield, checkVars
<1>3. I.n \in Nat /\ I.n <= Len(I.stk) /\ I.type \in Types
  BY <1>1 DEF InstrOK, Instruction
<1>4. PICK stk : stk = Append(DropLast(I.stk, I.n), I.type)
  OBVIOUS
<1>5. stk = StkAfter(I)
  BY <1>4 DEF StkAfter
<1>6. results' \in Seq(Value) /\ ResultsMirror(stk)'
  BY <1>1, <1>2, <1>3, <1>4, ResultReturned
<1>7. CASE I.op \in {"endlet", "endfor"}
  <2>1. PICK env : env = Front(I.env)
    OBVIOUS
  <2>2. env = EnvAfter(I)
    BY <1>7, <2>1 DEF EnvAfter
  <2>3. I.env # << >>
    BY <1>1, <1>7 DEF InstrOK
  <2>4. /\ cscopes' \in Seq(Seq(CompiledLocal)) /\ Len(cscopes') = Len(cscopes) - 1
        /\ ScopesMirror(env)'
    BY <1>1, <1>2, <1>7, <2>1, <2>3, ScopeLeft
  <2>5. I.op # "enter"
    BY <1>7
  <2> QED
    BY <1>2, <1>5, <1>6, <1>7, <2>2, <2>4, <2>5, CompileGoesOn
<1>8. CASE I.op \notin {"endlet", "endfor"}
  <2>1. PICK env : env = I.env
    OBVIOUS
  <2>2. env = EnvAfter(I) /\ I.op # "enter"
    BY <1>8, <2>1 DEF EnvAfter
  <2>3. cscopes' = cscopes
    BY <1>8
  <2>4. ScopesMirror(env)'
    BY <1>1, <1>2, <2>1, <2>3, ScopesKept
  <2> QED
    BY <1>1, <1>2, <1>5, <1>6, <1>8, <2>2, <2>3, <2>4, CompileGoesOn
<1> QED
  BY <1>7, <1>8

\* A node throws: it is one whose unit reads a void local or a function.
LEMMA ThrowStep ==
  ASSUME IInv, phase = "compile", pc <= Len(code), Throw, ~ ReadsOnlyValues
  PROVE  IInv'
<1>1. phase' = "broken" /\ unit' = unit /\ UNCHANGED checkVars /\ UNCHANGED compileVars
  BY DEF Throw
<1>2. TypeOK'
  BY <1>1 DEF IInv, TypeOK, checkVars, compileVars
<1>3. PhaseShape'
  BY <1>1 DEF IInv, PhaseShape, EnvAt, UnitEnv, checkVars, compileVars
<1>4. CodeChained' /\ SitesKnown'
  BY <1>1 DEF IInv, CodeChained, SitesKnown, EnvAt, StkAt, UnitEnv, checkVars, compileVars
<1>5. FirstPassAtEnd'
  BY <1>1 DEF FirstPassAtEnd
<1>6. ~ ReadsOnlyValues'
  BY <1>1 DEF ReadsOnlyValues, checkVars
<1>7. /\ ScopesMirror(EnvAt(pc)) /\ ResultsMirror(StkAt(pc)) /\ Len(cscopes) = OpenScopes
  BY DEF IInv, SecondPassMirrors
<1>8. EnvAt(pc)' = EnvAt(pc) /\ StkAt(pc)' = StkAt(pc)
  BY <1>1 DEF EnvAt, StkAt, UnitEnv, checkVars, compileVars
<1>9. ScopesMirror(EnvAt(pc))'
  BY <1>1, <1>6, <1>7, <1>8 DEF ScopesMirror, Offset, compileVars
<1>10. ResultsMirror(StkAt(pc))'
  BY <1>1, <1>6, <1>7, <1>8 DEF ResultsMirror, compileVars
<1>11. Len(cscopes') = OpenScopes'
  BY <1>1, <1>7 DEF OpenScopes, checkVars, compileVars
<1> QED
  BY <1>2, <1>3, <1>4, <1>5, <1>6, <1>9, <1>10, <1>11 DEF IInv, SecondPassMirrors

\* A result of type t is a value unless t is void.
LEMMA ResultFields ==
  ASSUME NEW t
  PROVE  /\ Result(t, t # Void).type = t
         /\ Result(t, t # Void).valid = (t # Void)
BY Zenon DEF Result

LEMMA EmitConstantStep ==
  ASSUME IInv, EmitConstant
  PROVE  IInv'
<1>1. /\ phase = "compile" /\ pc <= Len(code) /\ I.op = "const"
      /\ Yield(0, Result(I.type, TRUE)) /\ cscopes' = cscopes
  BY DEF EmitConstant, Running, I
<1>2. I \in Instruction /\ InstrOK(I)
  BY <1>1, AtInstruction
<1>3. I.n = 0 /\ I.type # Void /\ I.type \in Types
  BY <1>1, <1>2 DEF InstrOK, Instruction
<1>4. Result(I.type, TRUE) \in Value /\ Result(I.type, TRUE) = Result(I.type, I.type # Void)
  BY <1>3 DEF Result, Value
<1> QED
  BY <1>1, <1>3, <1>4, NodeYields

LEMMA EmitLoadStep ==
  ASSUME IInv, EmitLoad
  PROVE  IInv'
<1> DEFINE a == CompileAccess(cscopes, I.name)
           r == Result(a.type, a.at # NoValue)
<1>1. /\ phase = "compile" /\ pc <= Len(code) /\ I.op = "ref"
      /\ Yield(0, r) /\ cscopes' = cscopes
  BY DEF EmitLoad, Running, I
<1>2. /\ TypeOK /\ I \in Instruction /\ InstrOK(I) /\ pc \in DOMAIN code
      /\ ScopesMirror(I.env) /\ SitesPositive(I.env) /\ I.env \in Seq(Seq(Local))
      /\ cscopes \in Seq(Seq(CompiledLocal))
  BY <1>1, AtInstruction
<1>3. /\ I.n = 0 /\ [type |-> I.type, at |-> I.at] = TypeCheckAccess(I.env, I.name)
      /\ I.at # Unresolved
  BY <1>1, <1>2 DEF InstrOK
<1>4. a \in [type : Types \union {NoType}, at : Int]
  BY <1>2, CompileAccessType
<1>5. r \in Value
  BY <1>4 DEF Result, Value
<1>6. ASSUME ReadsOnlyValues PROVE r = Result(I.type, I.type # Void)
  <2>1. I.type # Void /\ I.at # FunctionRef
    BY <1>1, <1>2, <1>6 DEF ReadsOnlyValues, I
  <2>2. PICK q : q = [type |-> I.type, at |-> I.at]
    OBVIOUS
  <2>3. a = q /\ q.at \in Nat
    BY <1>2, <1>3, <1>6, <2>1, <2>2, LookupsAgree
  <2>4. a.type = I.type /\ a.at # NoValue
    BY <2>2, <2>3 DEF NoValue
  <2> HIDE DEF a
  <2> QED
    BY <2>1, <2>4
<1> HIDE DEF r
<1> QED
  BY <1>1, <1>3, <1>5, <1>6, NodeYields

LEMMA EmitEnterStep ==
  ASSUME IInv, EmitEnter
  PROVE  IInv'
<1>1. /\ phase = "compile" /\ pc <= Len(code) /\ I.op = "enter" /\ phase' = phase
      /\ unit' = unit /\ code' = code /\ UNCHANGED checkVars /\ pc' = pc + 1
      /\ results' = results /\ cscopes' = Append(cscopes, << >>)
  BY DEF EmitEnter, Running, I, checkVars
<1>2. /\ TypeOK /\ ScopesMirror(I.env) /\ ResultsMirror(I.stk)
      /\ I.env \in Seq(Seq(Local)) /\ results \in Seq(Value)
  BY <1>1, AtInstruction
<1>3. PICK env : env = Append(I.env, << >>)
  OBVIOUS
<1>4. PICK stk : stk = I.stk
  OBVIOUS
<1>5. env = EnvAfter(I) /\ stk = StkAfter(I)
  BY <1>1, <1>3, <1>4 DEF EnvAfter, StkAfter
<1>6. /\ cscopes' \in Seq(Seq(CompiledLocal)) /\ Len(cscopes') = Len(cscopes) + 1
      /\ ScopesMirror(env)'
  BY <1>1, <1>2, <1>3, ScopeEntered
<1>7. results' \in Seq(Value) /\ ResultsMirror(stk)'
  BY <1>1, <1>2, <1>4 DEF ResultsMirror, ReadsOnlyValues
<1> QED
  BY <1>1, <1>5, <1>6, <1>7, CompileGoesOn

LEMMA EmitBindStep ==
  ASSUME IInv, EmitBind
  PROVE  IInv'
<1> DEFINE local == IF R(0).valid
                    THEN [name |-> I.name, type |-> R(0).type, at |-> I.at]
                    ELSE [name |-> I.name, type |-> Void, at |-> NoValue]
           e == [name |-> I.name, type |-> I.type, at |-> I.at]
<1>1. /\ phase = "compile" /\ pc <= Len(code) /\ I.op = "bind" /\ phase' = phase
      /\ unit' = unit /\ code' = code /\ UNCHANGED checkVars /\ pc' = pc + 1
      /\ results' = Front(results)
      /\ cscopes' = [cscopes EXCEPT ![Len(cscopes)] = Append(@, local)]
  BY DEF EmitBind, Running, I, checkVars
<1>2. /\ TypeOK /\ ScopesMirror(I.env) /\ ResultsMirror(I.stk)
      /\ I \in Instruction /\ InstrOK(I) /\ Len(I.stk) \in Nat
      /\ I.env \in Seq(Seq(Local)) /\ I.stk \in Seq(Types)
  BY <1>1, AtInstruction
<1>3. I.env # << >> /\ I.stk # << >> /\ I.type = Last(I.stk) /\ I.name \in Names /\ I.at \in Int
      /\ I.type \in Types
  BY <1>1, <1>2 DEF InstrOK, Instruction
<1>4. /\ R(0) \in Value
      /\ ReadsOnlyValues => R(0) = Result(I.type, I.type # Void)
  <2>1. Len(I.stk) >= 1 /\ Last(I.stk) = I.stk[Len(I.stk)]
    BY <1>2, <1>3, FrontFacts
  <2>2. 0 < Len(I.stk) /\ Len(I.stk) - 0 = Len(I.stk)
    BY <1>2, <2>1
  <2> QED
    BY <1>2, <1>3, <2>1, <2>2, ResultsFound
<1>5. local \in CompiledLocal /\ e \in Local /\ local.name = e.name
  BY <1>3, <1>4, TypesAssumption DEF CompiledLocal, Local, Value, NoValue
<1>6. ReadsOnlyValues => local = Compiled(e)
  <2>1. CASE I.type = Void
    <3>1. Compiled(e) = [name |-> I.name, type |-> Void, at |-> NoValue]
      BY <2>1 DEF Compiled
    <3>2. ReadsOnlyValues => ~ R(0).valid
      BY <1>4, <2>1, ResultFields
    <3> QED
      BY <3>1, <3>2
  <2>2. CASE I.type # Void
    <3>1. Compiled(e) = e
      BY <2>2 DEF Compiled
    <3>2. ReadsOnlyValues => R(0).valid /\ R(0).type = I.type
      BY <1>4, <2>2, ResultFields
    <3> QED
      BY <3>1, <3>2
  <2> QED
    BY <2>1, <2>2
<1>7. PICK l : l = local
  OBVIOUS
<1>8. PICK d : d = e
  OBVIOUS
<1>9. cscopes' = BoundIn(cscopes, l)
  BY <1>1, <1>7 DEF BoundIn, WithTop
<1>10. PICK env : env = BoundIn(I.env, d)
  OBVIOUS
<1>11. PICK stk : stk = Front(I.stk)
  OBVIOUS
<1>12. env = EnvAfter(I) /\ stk = StkAfter(I)
  BY <1>1, <1>8, <1>10, <1>11 DEF EnvAfter, StkAfter, BoundIn, WithTop
<1>13. /\ l \in CompiledLocal /\ d \in Local /\ l.name = d.name
       /\ ReadsOnlyValues => l = Compiled(d)
  BY <1>5, <1>6, <1>7, <1>8
<1>14. /\ cscopes' \in Seq(Seq(CompiledLocal)) /\ Len(cscopes') = Len(cscopes)
       /\ ScopesMirror(env)'
  BY <1>1, <1>2, <1>3, <1>9, <1>10, <1>13, LocalBound
<1>15. results' \in Seq(Value) /\ ResultsMirror(stk)'
  BY <1>1, <1>2, <1>3, <1>11, ResultPopped
<1>16. I.op # "enter" /\ I.op \notin {"endlet", "endfor"}
  BY <1>1
<1> HIDE DEF local, e
<1> QED
  BY <1>1, <1>12, <1>14, <1>15, <1>16, CompileGoesOn

LEMMA EmitBranchStep ==
  ASSUME IInv, EmitBranch
  PROVE  IInv'
<1>1. phase = "compile" /\ pc <= Len(code) /\ I.op = "branch"
  BY DEF EmitBranch, Running, I
<1>2. /\ TypeOK /\ ScopesMirror(I.env) /\ ResultsMirror(I.stk)
      /\ I \in Instruction /\ InstrOK(I) /\ Len(I.stk) \in Nat
      /\ I.stk \in Seq(Types) /\ cscopes \in Seq(Seq(CompiledLocal))
  BY <1>1, AtInstruction
<1>3. I.stk # << >> /\ Last(I.stk) = Bool
  BY <1>1, <1>2 DEF InstrOK
<1>4. ReadsOnlyValues => R(0).valid
  <2>1. Len(I.stk) >= 1 /\ Last(I.stk) = I.stk[Len(I.stk)]
    BY <1>2, <1>3, FrontFacts
  <2>2. 0 < Len(I.stk) /\ Len(I.stk) - 0 = Len(I.stk)
    BY <1>2, <2>1
  <2>3. ReadsOnlyValues => R(0) = Result(Bool, Bool # Void)
    BY <1>2, <1>3, <2>1, <2>2, ResultsFound
  <2> QED
    BY <2>3, ResultFields, TypesAssumption
<1>5. CASE Throw
  <2>1. CASE R(0).valid
    <3>1. phase' = phase
      BY <2>1 DEF EmitBranch
    <3> QED
      BY <1>1, <1>5, <3>1 DEF Throw
  <2>2. CASE ~ R(0).valid
    BY <1>1, <1>4, <1>5, <2>2, ThrowStep
  <2> QED
    BY <2>1, <2>2
<1>6. CASE ~ Throw
  <2>1. /\ phase' = phase /\ unit' = unit /\ code' = code /\ UNCHANGED checkVars
        /\ pc' = pc + 1 /\ results' = Front(results) /\ cscopes' = cscopes
    BY <1>6 DEF EmitBranch, checkVars
  <2>2. PICK env : env = I.env
    OBVIOUS
  <2>3. PICK stk : stk = Front(I.stk)
    OBVIOUS
  <2>4. env = EnvAfter(I) /\ stk = StkAfter(I)
    BY <1>1, <2>2, <2>3 DEF EnvAfter, StkAfter
  <2>5. ScopesMirror(env)'
    BY <1>2, <2>1, <2>2, ScopesKept
  <2>6. results' \in Seq(Value) /\ ResultsMirror(stk)'
    BY <1>2, <1>3, <2>1, <2>3, ResultPopped
  <2>7. I.op # "enter" /\ I.op \notin {"endlet", "endfor"}
    BY <1>1
  <2> QED
    BY <1>1, <1>2, <2>1, <2>4, <2>5, <2>6, <2>7, CompileGoesOn
<1> QED
  BY <1>5, <1>6

LEMMA EmitEndLetStep ==
  ASSUME IInv, EmitEndLet
  PROVE  IInv'
<1>1. /\ phase = "compile" /\ pc <= Len(code) /\ I.op = "endlet"
      /\ Yield(I.n, R(0)) /\ cscopes' = Front(cscopes)
  BY DEF EmitEndLet, Running, I
<1>2. /\ TypeOK /\ ResultsMirror(I.stk) /\ InstrOK(I) /\ Len(I.stk) \in Nat
      /\ I.stk \in Seq(Types)
  BY <1>1, AtInstruction
<1>3. I.stk # << >> /\ I.type = Last(I.stk)
  BY <1>1, <1>2 DEF InstrOK
<1>4. Len(I.stk) >= 1 /\ Last(I.stk) = I.stk[Len(I.stk)]
  BY <1>2, <1>3, FrontFacts
<1>5. 0 < Len(I.stk) /\ Len(I.stk) - 0 = Len(I.stk)
  BY <1>2, <1>4
<1>6. R(0) \in Value /\ (ReadsOnlyValues => R(0) = Result(I.type, I.type # Void))
  BY <1>2, <1>3, <1>4, <1>5, ResultsFound
<1> QED
  BY <1>1, <1>6, NodeYields

LEMMA EmitEndForStep ==
  ASSUME IInv, EmitEndFor
  PROVE  IInv'
<1>1. /\ phase = "compile" /\ pc <= Len(code) /\ I.op = "endfor"
      /\ Yield(I.n, Result(Void, FALSE)) /\ cscopes' = Front(cscopes)
  BY DEF EmitEndFor, Running, I
<1>2. InstrOK(I)
  BY <1>1, AtInstruction
<1>3. I.type = Void
  BY <1>1, <1>2 DEF InstrOK
<1>4. Result(Void, FALSE) \in Value /\ Result(Void, FALSE) = Result(I.type, I.type # Void)
  BY <1>3, TypesAssumption DEF Result, Value
<1> QED
  BY <1>1, <1>4, NodeYields

LEMMA EmitIfStep ==
  ASSUME IInv, EmitIf
  PROVE  IInv'
<1> DEFINE broken == \/ ~ R(2).valid
                     \/ R(1).type # R(0).type
                     \/ R(0).type = NoType
                     \/ R(0).type # Void /\ ~ (R(1).valid /\ R(0).valid)
           r == Result(R(0).type, R(0).type # Void)
<1>1. /\ phase = "compile" /\ pc <= Len(code) /\ I.op = "if"
      /\ IF broken THEN Throw ELSE Yield(3, r) /\ cscopes' = cscopes
  BY DEF EmitIf, Running, I
<1>2. /\ TypeOK /\ ResultsMirror(I.stk) /\ InstrOK(I) /\ Len(I.stk) \in Nat
      /\ I.stk \in Seq(Types) /\ I \in Instruction
  BY <1>1, AtInstruction
<1>3. /\ I.n = 3 /\ Len(I.stk) >= 3 /\ I.type = Last(I.stk) /\ I.type \in Types
      /\ I.stk[Len(I.stk) - 2] = Bool /\ I.stk[Len(I.stk) - 1] = Last(I.stk)
      /\ I.stk # << >>
  BY <1>1, <1>2 DEF InstrOK, Instruction
<1>4. Last(I.stk) = I.stk[Len(I.stk)]
  BY <1>2, <1>3, FrontFacts
<1>5. 0 < Len(I.stk) /\ 1 < Len(I.stk) /\ 2 < Len(I.stk) /\ Len(I.stk) - 0 = Len(I.stk)
  BY <1>2, <1>3
<1>6. R(0) \in Value /\ R(1) \in Value /\ R(2) \in Value
  BY <1>2, <1>5, ResultsFound
<1>7. ReadsOnlyValues => /\ R(0) = Result(I.type, I.type # Void)
                         /\ R(1) = Result(I.type, I.type # Void)
                         /\ R(2) = Result(Bool, Bool # Void)
  BY <1>2, <1>3, <1>4, <1>5, ResultsFound
<1>8. ReadsOnlyValues => R(0).type = I.type /\ ~ broken
  <2>1. I.type # NoType /\ Bool # Void
    BY <1>3, TypesAssumption
  <2>2. SUFFICES ASSUME ReadsOnlyValues PROVE R(0).type = I.type /\ ~ broken
    OBVIOUS
  <2>3. /\ R(0).type = I.type /\ R(0).valid = (I.type # Void)
        /\ R(1).type = I.type /\ R(1).valid = (I.type # Void)
        /\ R(2).valid
    BY <1>7, <2>1, <2>2, ResultFields
  <2> QED
    BY <2>1, <2>3
<1>9. r \in Value
  BY <1>6 DEF Result, Value
<1>10. ReadsOnlyValues => r = Result(I.type, I.type # Void)
  BY <1>8
<1> HIDE DEF broken, r
<1>11. CASE broken
  BY <1>1, <1>8, <1>11, ThrowStep
<1>12. CASE ~ broken
  BY <1>1, <1>3, <1>9, <1>10, <1>12, NodeYields
<1> QED
  BY <1>11, <1>12

LEMMA EmitStoreStep ==
  ASSUME IInv, EmitStore
  PROVE  IInv'
<1>1. /\ phase = "compile" /\ pc <= Len(code) /\ I.op = "set"
      /\ Yield(1, R(0)) /\ cscopes' = cscopes
  BY DEF EmitStore, Running, I
<1>2. /\ TypeOK /\ ResultsMirror(I.stk) /\ InstrOK(I) /\ Len(I.stk) \in Nat
      /\ I.stk \in Seq(Types)
  BY <1>1, AtInstruction
<1>3. I.stk # << >> /\ I.type = Last(I.stk) /\ I.n = 1
  BY <1>1, <1>2 DEF InstrOK
<1>4. Len(I.stk) >= 1 /\ Last(I.stk) = I.stk[Len(I.stk)]
  BY <1>2, <1>3, FrontFacts
<1>5. 0 < Len(I.stk) /\ Len(I.stk) - 0 = Len(I.stk)
  BY <1>2, <1>4
<1>6. R(0) \in Value /\ (ReadsOnlyValues => R(0) = Result(I.type, I.type # Void))
  BY <1>2, <1>3, <1>4, <1>5, ResultsFound
<1> QED
  BY <1>1, <1>3, <1>6, NodeYields

LEMMA EmitCallStep ==
  ASSUME IInv, EmitCall
  PROVE  IInv'
<1>1. /\ phase = "compile" /\ pc <= Len(code) /\ I.op = "call"
      /\ Yield(I.n, Result(I.type, I.type # Void)) /\ cscopes' = cscopes
  BY DEF EmitCall, Running, I
<1>2. I \in Instruction
  BY <1>1, AtInstruction
<1>3. Result(I.type, I.type # Void) \in Value
  BY <1>2 DEF Result, Value, Instruction
<1> QED
  BY <1>1, <1>3, NodeYields

LEMMA CompileStepPreserves ==
  ASSUME IInv, CompileStep
  PROVE  IInv'
BY EmitConstantStep, EmitLoadStep, EmitEnterStep, EmitBindStep, EmitBranchStep, EmitEndLetStep,
   EmitEndForStep, EmitIfStep, EmitStoreStep, EmitCallStep DEF CompileStep

-----------------------------------------------------------------------------
(* The end of a unit, and the theorems.                                     *)

\* Between units there is nothing left to be wrong.
LEMMA BackToIdle ==
  ASSUME IInv, phase \in {"compile", "broken"}, phase' = "idle", unit' = unit,
         frames' = frames, tscopes' = tscopes, nodes' = nodes,
         cscopes' = << >>, code' = << >>, results' = << >>, pc' = 0
  PROVE  IInv'
<1>1. /\ TypeOK /\ frames = << >> /\ nodes = << >> /\ tscopes = << >>
      /\ (~ unit.defn => unit.args = << >>)
  BY DEF IInv, PhaseShape
<1>2. /\ code' \in Seq(Instruction) /\ Len(code') = 0 /\ DOMAIN code' = {}
      /\ cscopes' \in Seq(Seq(CompiledLocal)) /\ results' \in Seq(Value)
  BY EmptySeq
<1>3. TypeOK'
  BY <1>1, <1>2 DEF TypeOK
<1>4. PhaseShape'
  BY <1>1 DEF PhaseShape
<1>5. CodeChained'
  BY <1>2 DEF CodeChained
<1>6. SitesKnown'
  <2>1. UnitEnv' = UnitEnv
    BY DEF UnitEnv
  <2>2. \A k \in 1 .. Len(code') + 1 : EnvAt(k)' = UnitEnv
    BY <1>2, <2>1 DEF EnvAt
  <2>3. SitesPositive(UnitEnv)
    <3>1. SitesPositive(EnvAt(1))
      BY <1>1, LenProperties DEF IInv, SitesKnown, TypeOK
    <3> QED
      BY <3>1 DEF EnvAt
  <2> QED
    BY <2>2, <2>3 DEF SitesKnown
<1>7. FirstPassAtEnd' /\ SecondPassMirrors'
  BY DEF FirstPassAtEnd, SecondPassMirrors
<1> QED
  BY <1>3, <1>4, <1>5, <1>6, <1>7 DEF IInv

\* At the end of a unit only the scope of its function is left.
LEMMA EndUnitStep ==
  ASSUME IInv, EndUnit
  PROVE  IInv'
<1>1. /\ phase = "compile" /\ pc > Len(code) /\ phase' = "idle" /\ cscopes' = Front(cscopes)
      /\ code' = << >> /\ results' = << >> /\ pc' = 0 /\ unit' = unit
      /\ frames' = frames /\ tscopes' = tscopes /\ nodes' = nodes
  BY DEF EndUnit
<1>2. /\ TypeOK /\ pc \in 1 .. Len(code) + 1 /\ EnvAt(Len(code) + 1) = UnitEnv
      /\ ScopesMirror(EnvAt(pc)) /\ Len(code) \in Nat
  BY <1>1, LenProperties DEF IInv, PhaseShape, SecondPassMirrors, TypeOK
<1>3. pc = Len(code) + 1
  BY <1>1, <1>2
<1>4. Len(UnitEnv) = IF unit.defn THEN 1 ELSE 0
  BY <1>2, UnitEnvFacts
<1>5. Len(cscopes) = 1
  <2>1. Len(cscopes) = Len(UnitEnv) + Offset
    BY <1>2, <1>3 DEF ScopesMirror
  <2>2. CASE unit.defn
    BY <1>4, <2>1, <2>2 DEF Offset
  <2>3. CASE ~ unit.defn
    BY <1>4, <2>1, <2>3 DEF Offset
  <2> QED
    BY <2>2, <2>3
<1>6. cscopes \in Seq(Seq(CompiledLocal)) /\ cscopes # << >>
  <2>1. cscopes \in Seq(Seq(CompiledLocal))
    BY <1>2 DEF TypeOK
  <2> QED
    BY <1>5, <2>1, EmptySeq
<1>7. Front(cscopes) \in Seq(Seq(CompiledLocal)) /\ Len(Front(cscopes)) = 0
  BY <1>5, <1>6, FrontFacts
<1>8. cscopes' = << >>
  BY <1>1, <1>7, EmptySeq
<1> QED
  BY <1>1, <1>8, BackToIdle

\* An exception unwinds the scopes that are open, and those are all there are.
LEMMA UnwindStep ==
  ASSUME IInv, Unwind
  PROVE  IInv'
<1>1. /\ phase = "broken" /\ phase' = "idle" /\ cscopes' = DropLast(cscopes, OpenScopes)
      /\ code' = << >> /\ results' = << >> /\ pc' = 0 /\ unit' = unit
      /\ frames' = frames /\ tscopes' = tscopes /\ nodes' = nodes
  BY DEF Unwind
<1>2. Len(cscopes) = OpenScopes /\ cscopes \in Seq(Seq(CompiledLocal)) /\ Len(cscopes) \in Nat
  BY <1>1, LenProperties DEF IInv, SecondPassMirrors, TypeOK
<1>3. cscopes' = SubSeq(cscopes, 1, 0)
  BY <1>1, <1>2 DEF DropLast
<1>4. SubSeq(cscopes, 1, 0) \in Seq(Seq(CompiledLocal)) /\ Len(SubSeq(cscopes, 1, 0)) = 0
  BY <1>2, PrefixFacts
<1>5. cscopes' = << >>
  BY <1>3, <1>4, EmptySeq
<1> QED
  BY <1>1, <1>5, BackToIdle

LEMMA InitIInv ==
  ASSUME Init
  PROVE  IInv
<1>1. /\ phase = "idle" /\ unit = [defn |-> FALSE, args |-> << >>]
      /\ frames = << >> /\ tscopes = << >> /\ nodes = << >> /\ code = << >>
      /\ pc = 0 /\ cscopes = << >> /\ results = << >>
  BY DEF Init
<1>2. TypeOK
  <2>1. << >> \in Seq([name : Names, type : Types \ {Void}])
    BY EmptySeq
  <2> QED
    BY <1>1, <2>1, EmptySeq DEF TypeOK
<1>3. Len(code) = 0 /\ DOMAIN code = {}
  BY <1>1, EmptySeq
<1>4. UnitEnv = << >>
  BY <1>1 DEF UnitEnv
<1>5. SitesKnown
  <2>1. DOMAIN UnitEnv = {}
    BY <1>4, EmptySeq
  <2>2. SitesPositive(UnitEnv)
    BY <2>1 DEF SitesPositive
  <2>3. \A k \in 1 .. Len(code) + 1 : EnvAt(k) = UnitEnv
    BY <1>3 DEF EnvAt
  <2> QED
    BY <2>2, <2>3 DEF SitesKnown
<1> QED
  BY <1>1, <1>2, <1>3, <1>5
     DEF IInv, PhaseShape, CodeChained, FirstPassAtEnd, SecondPassMirrors

\* A step that changes nothing.
LEMMA Stuttering ==
  ASSUME IInv, UNCHANGED vars
  PROVE  IInv'
<1>1. /\ phase' = phase /\ unit' = unit /\ frames' = frames /\ tscopes' = tscopes
      /\ nodes' = nodes /\ code' = code /\ pc' = pc /\ cscopes' = cscopes
      /\ results' = results
  BY DEF vars, checkVars, compileVars
<1>2. \A k : EnvAt(k)' = EnvAt(k) /\ StkAt(k)' = StkAt(k)
  BY <1>1 DEF EnvAt, StkAt, UnitEnv
<1>3. TypeOK' /\ PhaseShape' /\ CodeChained' /\ SitesKnown'
  BY <1>1 DEF IInv, TypeOK, PhaseShape, CodeChained, SitesKnown, EnvAt, StkAt, UnitEnv
<1>4. FirstPassAtEnd'
  BY <1>1 DEF IInv, FirstPassAtEnd, EnvAt, StkAt, UnitEnv, PluginsNest, FrameOK, Inside, Scoped,
              ScopedFrames
<1>5. SecondPassMirrors'
  BY ZenonT(30), <1>1 DEF IInv, SecondPassMirrors, ScopesMirror, ResultsMirror, EnvAt, StkAt, UnitEnv,
              ReadsOnlyValues, Offset, OpenScopes
<1> QED
  BY <1>3, <1>4, <1>5 DEF IInv

\* The two walks keep in step from the first unit on.
THEOREM Invariance == Spec => []IInv
<1>1. Init => IInv
  BY InitIInv
<1>2. IInv /\ [Next]_vars => IInv'
  <2> SUFFICES ASSUME IInv, [Next]_vars PROVE IInv'
    OBVIOUS
  <2>1. ASSUME NEW defn \in BOOLEAN, NEW args \in Signatures \union {<< >>},
               BeginUnit(defn, args)
        PROVE  IInv'
    BY <2>1, BeginUnitStep
  <2>2. CASE CheckStep
    BY <2>2, CheckStepPreserves
  <2>3. CASE BeginCompile
    BY <2>3, BeginCompileStep
  <2>4. CASE CompileStep
    BY <2>4, CompileStepPreserves
  <2>5. CASE EndUnit
    BY <2>5, EndUnitStep
  <2>6. CASE Unwind
    BY <2>6, UnwindStep
  <2>7. CASE UNCHANGED vars
    BY <2>7, Stuttering
  <2> QED
    BY <2>1, <2>2, <2>3, <2>4, <2>5, <2>6, <2>7 DEF Next
<1> QED
  BY <1>1, <1>2, PTL DEF Spec

\* The state always has the shape of its C++ members.
THEOREM TypeCorrect == Spec => []TypeOK
<1>1. IInv => TypeOK
  BY DEF IInv
<1> QED
  BY <1>1, Invariance, PTL

\* No unit, whether it compiled, was rejected or threw part way into nested
\* scopes, leaves a scope to the next (module.h's RAII scopes).
THEOREM ScopesNeverLeak == Spec => []NoScopeLeaks
<1>1. IInv => NoScopeLeaks
  BY DEF IInv, PhaseShape, NoScopeLeaks
<1> QED
  BY <1>1, Invariance, PTL

\* The scopes and the results of the second walk are aligned with those the
\* nodes were checked in, for every unit (module.cpp's two variable stacks).
THEOREM WalksAligned == Spec => []StacksAligned
<1>1. ASSUME IInv PROVE StacksAligned
  <2>1. SUFFICES ASSUME phase = "compile", pc <= Len(code)
                 PROVE  /\ Len(results) = Len(I.stk)
                        /\ Len(cscopes) = Len(I.env) + Offset
                        /\ \A i \in DOMAIN I.env :
                             /\ Len(cscopes[i + Offset]) = Len(I.env[i])
                             /\ \A j \in DOMAIN I.env[i] :
                                  cscopes[i + Offset][j].name = I.env[i][j].name
    BY DEF StacksAligned
  <2>2. ScopesMirror(I.env) /\ ResultsMirror(I.stk)
    BY <1>1, <2>1, AtInstruction
  <2> QED
    BY <2>2 DEF ScopesMirror, ResultsMirror
<1>2. IInv => StacksAligned
  BY <1>1
<1> QED
  BY <1>2, Invariance, PTL

\* A load reads, and a store to a local writes, the declaration and type that
\* the type checker resolved the name to (lookup_compile_variable against
\* type_check_variable_access).
THEOREM LookupsAlwaysAgree == Spec => []PassesAgree
<1>1. ASSUME IInv PROVE PassesAgree
  <2>1. SUFFICES ASSUME phase = "compile", pc <= Len(code), ReadsOnlyValues
                 PROVE  /\ I.op = "ref" =>
                             CompileAccess(cscopes, I.name) = [type |-> I.type, at |-> I.at]
                        /\ I.op = "set" /\ R(0).valid /\ I.at > 0 =>
                             StoreTarget(cscopes, I.name) = I.at
    BY DEF PassesAgree
  <2>2. /\ TypeOK /\ I \in Instruction /\ InstrOK(I) /\ pc \in DOMAIN code
        /\ ScopesMirror(I.env) /\ SitesPositive(I.env) /\ ResultsMirror(I.stk)
        /\ I.env \in Seq(Seq(Local)) /\ I.stk \in Seq(Types) /\ Len(I.stk) \in Nat
    BY <1>1, <2>1, AtInstruction
  <2>3. PICK q : q = [type |-> I.type, at |-> I.at]
    OBVIOUS
  <2>4. q.type = I.type /\ q.at = I.at
    BY <2>3
  <2>5. ASSUME I.op = "ref"
        PROVE  CompileAccess(cscopes, I.name) = q
    <3>1. q = TypeCheckAccess(I.env, I.name) /\ q.at # Unresolved
      BY <2>2, <2>3, <2>4, <2>5 DEF InstrOK
    <3>2. q.type # Void /\ q.at # FunctionRef
      BY <2>1, <2>2, <2>4, <2>5 DEF ReadsOnlyValues, I
    <3> QED
      BY <2>1, <2>2, <3>1, <3>2, LookupsAgree
  <2>6. ASSUME I.op = "set", R(0).valid, I.at > 0
        PROVE  StoreTarget(cscopes, I.name) = I.at
    <3>1. /\ q = TypeCheckAccess(I.env, I.name) /\ q.at # Unresolved
          /\ I.stk # << >> /\ I.type = Last(I.stk)
      BY <2>2, <2>3, <2>4, <2>6 DEF InstrOK
    <3>2. q.at # FunctionRef /\ q.at > 0
      BY <2>4, <2>6 DEF FunctionRef
    <3>3. Len(I.stk) >= 1 /\ Last(I.stk) = I.stk[Len(I.stk)]
      BY <2>2, <3>1, FrontFacts
    <3>4. 0 < Len(I.stk) /\ Len(I.stk) - 0 = Len(I.stk)
      BY <2>2, <3>3
    <3>5. R(0) = Result(I.type, I.type # Void)
      BY <2>1, <2>2, <3>1, <3>3, <3>4, ResultsFound
    <3>6. q.type # Void
      BY <2>4, <2>6, <3>5, ResultFields
    <3> QED
      BY <2>1, <2>2, <2>4, <3>1, <3>2, <3>6, LookupsAgree
  <2> QED
    BY <2>3, <2>5, <2>6
<1>2. IInv => PassesAgree
  BY <1>1
<1> QED
  BY <1>2, Invariance, PTL

\* A unit that type checks, and reads no void local and no function's address,
\* is compiled without a throw (if_ast_node's "should have been caught in the
\* type check phase").
THEOREM CheckedAlwaysCompiles == Spec => []CheckedUnitsCompile
<1>1. IInv => CheckedUnitsCompile
  BY DEF IInv, SecondPassMirrors, CheckedUnitsCompile
<1> QED
  BY <1>1, Invariance, PTL

\* The last n members of a stack, in their order, come after m others.
LastOnes(s, n, m, t) == m + n = Len(s) /\ t = SubSeq(s, Len(s) - n + 1, Len(s))

LEMMA LastOnesFacts ==
  ASSUME NEW S, NEW s \in Seq(S), NEW n \in Nat, NEW m \in Nat, NEW t, LastOnes(s, n, m, t)
  PROVE  /\ t \in Seq(S) /\ Len(t) = n /\ t = [k \in 1 .. n |-> t[k]]
         /\ \A k \in 1 .. n : t[k] = s[m + k]
<1>1. Len(s) \in Nat /\ m + n = Len(s)
  BY DEF LastOnes
<1>2. Len(s) - n + 1 = m + 1
  BY <1>1
<1>3. t = SubSeq(s, m + 1, m + n)
  BY <1>1, <1>2 DEF LastOnes
<1>4. \A i \in m + 1 .. m + n : i \in 1 .. Len(s)
  BY <1>1
<1>5. t = [k \in 1 .. n |-> s[m + k]]
  BY <1>3, <1>4
<1>6. \A k \in 1 .. n : s[m + k] \in S
  BY <1>1, ElementOfSeq
<1>7. t \in [1 .. n -> S]
  BY <1>5, <1>6
<1>8. t \in Seq(S) /\ Len(t) = n
  BY <1>7
<1> QED
  BY <1>5, <1>7, <1>8

\* The call of an overload whose parameters have the types of the arguments gets a value
\* for each that is not void, of its type and in its place (function_call_ast_node's loop).
THEOREM CallsAlwaysPassArguments == Spec => []CallsPassTheirArguments
<1>1. ASSUME IInv PROVE CallsPassTheirArguments
  <2> DEFINE params == Symbols[I.name].overloads[I.at].args
             types  == SubSeq(I.stk, Len(I.stk) - I.n + 1, Len(I.stk))
             given  == SubSeq(results, Len(results) - I.n + 1, Len(results))
  <2>1. SUFFICES ASSUME phase = "compile", pc <= Len(code), I.op = "call", ReadsOnlyValues,
                        params = types
                 PROVE  given = [k \in DOMAIN params |-> Result(params[k], params[k] # Void)]
    BY DEF CallsPassTheirArguments, Running, I
  <2>2. /\ TypeOK /\ I \in Instruction /\ InstrOK(I) /\ ResultsMirror(I.stk)
        /\ I.stk \in Seq(Types) /\ Len(I.stk) \in Nat
    BY <1>1, <2>1, AtInstruction
  <2>3. /\ I.n \in Nat /\ I.n <= Len(I.stk) /\ results \in Seq(Value)
        /\ Len(results) = Len(I.stk)
    BY <2>2 DEF Instruction, InstrOK, TypeOK, ResultsMirror
  <2>4. PICK m \in Nat : m = Len(I.stk) - I.n
    BY <2>2, <2>3
  <2>5. LastOnes(I.stk, I.n, m, types) /\ LastOnes(results, I.n, m, given)
    BY <2>2, <2>3, <2>4 DEF LastOnes
  <2>6. \A k \in 1 .. Len(I.stk) : results[k] = Result(I.stk[k], I.stk[k] # Void)
    BY <2>1, <2>2, <2>3 DEF ResultsMirror
  <2> HIDE DEF params, types, given
  <2>7. Len(types) = I.n /\ types \in Seq(Types) /\ \A k \in 1 .. I.n : types[k] = I.stk[m + k]
    BY <2>2, <2>3, <2>5, LastOnesFacts
  <2>8. given = [k \in 1 .. I.n |-> given[k]] /\ \A k \in 1 .. I.n : given[k] = results[m + k]
    BY <2>2, <2>3, <2>5, LastOnesFacts
  <2>9. \A k \in 1 .. I.n : given[k] = Result(types[k], types[k] # Void)
    <3> SUFFICES ASSUME NEW k \in 1 .. I.n PROVE given[k] = Result(types[k], types[k] # Void)
      OBVIOUS
    <3>1. m + k \in 1 .. Len(I.stk)
      BY <2>2, <2>3, <2>4
    <3>2. results[m + k] = Result(I.stk[m + k], I.stk[m + k] # Void)
      BY <2>6, <3>1
    <3> QED
      BY <2>7, <2>8, <3>2
  <2>10. DOMAIN types = 1 .. I.n
    BY <2>3, <2>7
  <2> QED
    BY <2>1, <2>8, <2>9, <2>10
<1>2. IInv => CallsPassTheirArguments
  BY <1>1
<1> QED
  BY <1>2, Invariance, PTL

\* What the plugin on top has done to the scopes it was called with.
LEMMA ScopesOfTop ==
  ASSUME IInv, phase = "check"
  PROVE  IF Scoped(Top) THEN Front(tscopes) = Top.env ELSE tscopes = Top.env
<1>1. TypeOK /\ PluginsNest
  BY DEF IInv, FirstPassAtEnd
<1>2. Len(frames) \in DOMAIN frames /\ Top = frames[Len(frames)]
  BY <1>1, FramesTyped DEF PluginsNest
<1>3. FrameOK(Len(frames)) /\ Inside(Len(frames)) = tscopes
  BY <1>1, <1>2 DEF PluginsNest, Inside
<1> QED
  BY <1>2, <1>3 DEF FrameOK

\* Whatever a plugin's body opened, rejected or nested, the scopes in force when
\* it returns are those it was called with (the type_check_variable_scope of let,
\* for and defn).
THEOREM ScopesRestored == Spec => PluginsRestoreScopes
<1>1. ASSUME IInv, [Next]_vars, Len(frames') = Len(frames) - 1, phase' = "check"
      PROVE  tscopes' = Top.env
  <2>1. TypeOK /\ Len(frames) \in Nat /\ frames \in Seq(Plugin)
    BY <1>1, FramesTyped DEF IInv, TypeOK
  <2>2. frames' # frames
    BY <1>1, <2>1
  <2>3. \A f : Append(frames, f) # frames'
    <3> SUFFICES ASSUME NEW f, Append(frames, f) = frames' PROVE FALSE
      OBVIOUS
    <3>1. Len(Append(frames, f)) = Len(frames) + 1
      BY <2>1
    <3> QED
      BY <1>1, <2>1, <3>1
  <2>4. \A e : [frames EXCEPT ![Len(frames)].stage = e] # frames'
    <3> SUFFICES ASSUME NEW e, [frames EXCEPT ![Len(frames)].stage = e] = frames' PROVE FALSE
      OBVIOUS
    <3>1. DOMAIN frames' = DOMAIN frames
      OBVIOUS
    <3>2. Len(frames') = Len(frames)
      BY <2>1, <3>1, LenProperties
    <3> QED
      BY <1>1, <2>1, <3>2
  <2>5. ~ Reject
    BY <1>1 DEF Reject
  <2>6. ASSUME NEW defn \in BOOLEAN, NEW args \in Signatures \union {<< >>},
               BeginUnit(defn, args)
        PROVE  FALSE
    <3>1. frames = << >> /\ \E f : frames' = << f >>
      BY <1>1, <2>6 DEF BeginUnit, IInv, PhaseShape
    <3> QED
      BY <1>1, <3>1
  <2>7. ~ CompileStep /\ ~ EndUnit /\ ~ Unwind /\ ~ BeginCompile
    BY <1>1, <2>2
       DEF CompileStep, EmitConstant, EmitLoad, EmitEnter, EmitBind, EmitBranch, EmitEndLet,
           EmitEndFor, EmitIf, EmitStore, EmitCall, Yield, Throw, checkVars, EndUnit, Unwind,
           BeginCompile
  <2>8. CheckStep
    BY <1>1, <2>2, <2>6, <2>7 DEF Next, vars, checkVars
  <2>9. ~ \E t \in Numeric : CheckConstant(t)
    BY <2>2 DEF CheckConstant
  <2>10. ASSUME NEW x \in Names
         PROVE  ~ CheckSymbol(x) /\ ~ OpenSet(x) /\ ~ OpenCall(x) /\ ~ BindLocal(x)
    BY <2>2, <2>3, <2>5 DEF CheckSymbol, OpenSet, OpenCall, BindLocal
  <2>11. ASSUME NEW form \in SpecialForms \ {"set"} PROVE ~ OpenForm(form)
    BY <2>3 DEF OpenForm
  <2>12. ~ EndBindings /\ ~ CloseCondition /\ ~ Malformed
    BY <2>4, <2>5 DEF EndBindings, CloseCondition, Malformed
  <2>13. CASE CloseScope
    <3>1. phase = "check" /\ Scoped(Top) /\ tscopes' = Front(tscopes)
      BY <2>13 DEF CloseScope, Scoped
    <3> QED
      BY <1>1, <3>1, ScopesOfTop
  <2>14. CASE CloseIf \/ CloseSet \/ CloseCall
    <3>1. phase = "check" /\ ~ Scoped(Top) /\ tscopes' = tscopes
      BY <2>5, <2>14 DEF CloseIf, CloseSet, CloseCall, Scoped
    <3> QED
      BY <1>1, <3>1, ScopesOfTop
  <2> QED
    BY <2>8, <2>9, <2>10, <2>11, <2>12, <2>13, <2>14 DEF CheckStep
<1>2. IInv /\ [Next]_vars =>
        [Len(frames') = Len(frames) - 1 /\ phase' = "check" => tscopes' = Top.env]_vars
  BY <1>1
<1> QED
  BY <1>2, Invariance, PTL DEF Spec, PluginsRestoreScopes
=============================================================================
